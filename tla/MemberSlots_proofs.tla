-------------------------- MODULE MemberSlots_proofs --------------------------
(***************************************************************************)
(* GraceKept for any databases and any TTL but 0.                            *)
(*                                                                         *)
(* A keeper drops a slot on cluster data that were read some time ago.  That  *)
(* the database is really gone, and for long enough, follows from three        *)
(* facts, which GraceInv states up to the second election: a slot that exists  *)
(* is of a follower or of a tracked orphan; an orphan is gone for good, for    *)
(* at least as long as its age says; and both are true of the copies that      *)
(* keepers work with.                                                        *)
(***************************************************************************)
EXTENDS MemberSlots, TLAPS

\* Time enough for every step, however busy the machine is.
USE SMTT(30), ZenonT(30)

\* Values of OrphanMemberSlots, and copies of the cluster data.
OrphanMaps == UNION {[S -> 0..TTL] : S \in SUBSET DBs}
Copies ==
    [pc : {"read"}, followers : SUBSET DBs, orphans : OrphanMaps, known : SUBSET DBs,
     additional : SUBSET Extras]
SlotStates == {"none", "active", "idle", "xmin"}

Types ==
    /\ members \subseteq used /\ used \subseteq DBs /\ master \in members
    /\ follow \in [DBs -> DBs \cup {None}]
    /\ followers \in [DBs -> SUBSET DBs]
    /\ orphans \in [DBs -> OrphanMaps]
    /\ additional \subseteq Extras
    /\ slots \in [DBs -> [Names -> SlotStates]]
    /\ job \in [DBs -> Copies \cup {Idle}]
    /\ left \in [DBs -> 0..TTL]
    /\ switches \in Nat

\* d has, or is about to create, a slot of x.
Keeps(d, x) == slots[d][x] # "none" \/ (job[d] # Idle /\ x \in job[d].followers)

\* d has never been a master: no slots, no followers.
Untouched(d) == job[d] = Idle /\ slots[d] = NoSlots

\* The orphans in o are gone, for as long as o says.
Gone(o) == \A x \in DOMAIN o : x \in used \ members /\ o[x] <= left[x]

GraceInv ==
    \* the master, former masters, standbys and databases to come
    /\ follow[master] = None /\ master \notin followers[master]
    /\ switches = 0 => \A d \in members \ {master} : follow[d] # None
    /\ \A d \in members : followers[d] \subseteq members
    /\ \A d \in members : follow[d] # None => Untouched(d) /\ followers[d] = {}
    /\ \A d \in DBs \ used : Untouched(d)
    \* slots are of followers or tracked
    /\ \A x \in DBs : Keeps(master, x) => x \in followers[master] \cup DOMAIN orphans[master]
    /\ \A d \in members, x \in DBs : Keeps(d, x) => x \in members \cup DOMAIN orphans[d]
    /\ \A d \in members, x \in DBs :
          (job[d] # Idle /\ slots[d][x] # "none") => x \in job[d].known \cup DOMAIN job[d].orphans
    \* orphans are gone
    /\ \A d \in DBs : Gone(orphans[d]) /\ (job[d] # Idle => Gone(job[d].orphans))

SlotsInv == Types /\ (switches < 2 => GraceInv)

-----------------------------------------------------------------------------
LEMMA OrphanMap ==
    ASSUME NEW S \in SUBSET DBs, NEW o \in [S -> 0..TTL]
    PROVE  o \in OrphanMaps
BY DEF OrphanMaps

LEMMA OrphanMapElim ==
    ASSUME NEW o \in OrphanMaps
    PROVE  /\ DOMAIN o \subseteq DBs
           /\ o \in [DOMAIN o -> 0..TTL]
<1>1. PICK S \in SUBSET DBs : o \in [S -> 0..TTL]
  BY DEF OrphanMaps
<1> QED
  BY <1>1

\* Tick ages the orphans and keeps them.
LEMMA AgedMap ==
    ASSUME NEW o \in OrphanMaps
    PROVE  [x \in DOMAIN o |-> Older(o[x])] \in OrphanMaps
<1>1. DOMAIN o \subseteq DBs /\ o \in [DOMAIN o -> 0..TTL]
  BY OrphanMapElim
<1>2. [x \in DOMAIN o |-> Older(o[x])] \in [DOMAIN o -> 0..TTL]
  BY <1>1, SlotsAssumption DEF Older
<1> QED
  BY <1>1, <1>2, OrphanMap

LEMMA NoOrphansMap == NoOrphans \in OrphanMaps /\ DOMAIN NoOrphans = {}
<1>1. NoOrphans \in [{} -> 0..TTL] /\ {} \in SUBSET DBs /\ DOMAIN NoOrphans = {}
  BY DEF NoOrphans
<1> QED
  BY <1>1, OrphanMap, ZenonT(30)

LEMMA NotIdle ==
    ASSUME NEW v \in Copies
    PROVE  v # Idle /\ v.pc = "read" /\ Idle.pc # "read"
BY DEF Copies, Idle

LEMMA NoSlotsTyped == NoSlots \in [Names -> SlotStates]
BY DEF NoSlots, SlotStates

\* One master with its followers, all slots in place.
LEMMA InitSlots == Init => SlotsInv
<1> SUFFICES ASSUME Init
             PROVE  SlotsInv
  OBVIOUS
<1>1. PICK m \in CanLead, n \in SUBSET DBs :
        /\ m \in n
        /\ master = m /\ members = n /\ used = n
        /\ follow = [d \in DBs |-> IF d \in n \ {m} THEN m ELSE None]
        /\ followers = [d \in DBs |-> IF d = m THEN n \ {m} ELSE {}]
        /\ orphans = [d \in DBs |-> NoOrphans]
        /\ additional = {}
        /\ slots = [d \in DBs |-> [s \in Names |->
                      IF d = m /\ s \in n \ ({m} \cup Ignored) THEN "active" ELSE "none"]]
        /\ job = [d \in DBs |-> Idle]
        /\ left = [d \in DBs |-> 0]
        /\ switches = 0
  BY ZenonT(30) DEF Init
<1>2. m \in DBs /\ None \notin DBs /\ DBs \subseteq Names
  BY SlotsAssumption DEF Names
<1>3. slots \in [DBs -> [Names -> SlotStates]]
  BY <1>1 DEF SlotStates
<1>4. Types
  BY <1>1, <1>2, <1>3, NoOrphansMap, SlotsAssumption DEF Types
<1>5. \A d \in DBs : job[d] = Idle /\ DOMAIN orphans[d] = {}
  BY <1>1, NoOrphansMap
<1>6. \A d \in DBs \ {m} : slots[d] = NoSlots
  BY <1>1 DEF NoSlots
<1>7. \A x \in DBs : slots[m][x] # "none" => x \in followers[m]
  BY <1>1, <1>2
<1>8. GraceInv
  BY <1>1, <1>2, <1>5, <1>6, <1>7 DEF GraceInv, Untouched, Keeps, Gone, NoSlots
<1> QED
  BY <1>4, <1>8 DEF SlotsInv

-----------------------------------------------------------------------------
\* Time passes for orphans and for databases that are gone alike.
LEMMA TickKeepsInv ==
    ASSUME SlotsInv, Tick
    PROVE  SlotsInv'
<1> DEFINE Aged(o) == [x \in DOMAIN o |-> Older(o[x])]
<1>1. /\ orphans' = [d \in DBs |-> Aged(orphans[d])]
      /\ job' = [d \in DBs |-> IF job[d].pc = "read"
                               THEN [job[d] EXCEPT !.orphans = Aged(job[d].orphans)] ELSE job[d]]
      /\ left' = [d \in DBs |-> IF d \in used \ members THEN Older(left[d]) ELSE left[d]]
      /\ UNCHANGED <<master, members, follow, followers, additional, slots, used, switches>>
  BY DEF Tick
<1>2. \A o \in OrphanMaps : Aged(o) \in OrphanMaps /\ DOMAIN Aged(o) = DOMAIN o
  BY AgedMap
<1>3. \A t \in 0..TTL : Older(t) \in 0..TTL /\ \A u \in 0..TTL : t <= u => Older(t) <= Older(u)
  BY SlotsAssumption DEF Older
<1>4. ASSUME NEW d \in DBs
      PROVE  /\ job'[d] \in Copies \cup {Idle}
             /\ job'[d] = Idle <=> job[d] = Idle
             /\ job[d] # Idle => /\ job'[d].followers = job[d].followers
                                 /\ job'[d].known = job[d].known
                                 /\ job'[d].orphans = Aged(job[d].orphans)
                                 /\ job[d].orphans \in OrphanMaps
  <2>1. CASE job[d] = Idle
    BY <1>1, <2>1 DEF Idle
  <2>2. CASE job[d] # Idle
    <3>1. job[d] \in Copies
      BY <2>2 DEF SlotsInv, Types
    <3> DEFINE o == Aged(job[d].orphans)
    <3>2. job[d].orphans \in OrphanMaps /\ job[d].pc = "read"
      BY <3>1 DEF Copies
    <3>3. o \in OrphanMaps /\ job'[d] = [job[d] EXCEPT !.orphans = o]
      BY <1>1, <1>2, <3>2
    <3> HIDE DEF o
    <3>4. /\ job'[d] \in Copies /\ job'[d].orphans = o
          /\ job'[d].followers = job[d].followers /\ job'[d].known = job[d].known
      BY <3>1, <3>3 DEF Copies
    <3> QED
      BY <2>2, <3>2, <3>4, NotIdle DEF o
  <2> QED
    BY <2>1, <2>2
<1>5. Types'
  BY <1>1, <1>2, <1>3, <1>4, ZenonT(30) DEF SlotsInv, Types
<1>6. ASSUME NEW o \in OrphanMaps, Gone(o)
      PROVE  Gone(Aged(o))'
  <2>1. DOMAIN o \subseteq DBs /\ o \in [DOMAIN o -> 0..TTL]
    BY OrphanMapElim
  <2>2. \A x \in DOMAIN o : x \in used \ members /\ o[x] <= left[x] /\ left[x] \in 0..TTL
    BY <1>6, <2>1 DEF Gone, SlotsInv, Types
  <2>3. \A x \in DOMAIN o : left'[x] = Older(left[x])
    BY <1>1, <2>1, <2>2
  <2> QED
    BY <1>1, <1>3, <2>1, <2>2, <2>3 DEF Gone
<1> HIDE DEF Aged
<1>7. ASSUME switches < 2
      PROVE  GraceInv'
  <2>1. GraceInv
    BY <1>7 DEF SlotsInv
  <2>2. \A d \in DBs : orphans'[d] = Aged(orphans[d]) /\ orphans[d] \in OrphanMaps
    BY <1>1 DEF SlotsInv, Types
  <2>3. \A d \in DBs : DOMAIN orphans'[d] = DOMAIN orphans[d]
    BY <1>2, <2>2
  <2>4. \A d \in DBs : job[d] # Idle => DOMAIN job'[d].orphans = DOMAIN job[d].orphans
    BY <1>2, <1>4
  <2>5. \A d \in DBs : Gone(orphans[d])' /\ (job'[d] # Idle => Gone(job[d].orphans)')
    BY <1>4, <1>6, <2>1, <2>2 DEF GraceInv
  <2>6. master \in DBs /\ members \subseteq DBs
    BY DEF SlotsInv, Types
  <2>7. \A d \in DBs : /\ Untouched(d)' <=> Untouched(d)
                       /\ \A x \in DBs : Keeps(d, x)' <=> Keeps(d, x)
    BY <1>1, <1>4 DEF Untouched, Keeps
  <2> QED
    BY <1>1, <1>4, <2>1, <2>3, <2>4, <2>5, <2>6, <2>7 DEF GraceInv
<1> QED
  BY <1>1, <1>5, <1>7 DEF SlotsInv

\* A step that leaves the cluster data alone (but for AdditionalReplicationSlots),
\* and of the slots of each database creates none but for the followers in its copy.
LEMMA SlotStep ==
    ASSUME SlotsInv, UNCHANGED <<master, members, follow, followers, orphans, used, left, switches>>,
           Types',
           \A d \in DBs : job'[d] = job[d] \/ job'[d] = Idle,
           \A d \in DBs, x \in DBs : slots'[d][x] # "none" => Keeps(d, x),
           \A d \in DBs : job'[d] # Idle => \A x \in DBs : slots'[d][x] # "none" => slots[d][x] # "none",
           \A d \in DBs : Untouched(d) => Untouched(d)'
    PROVE  SlotsInv'
<1>1. master \in DBs /\ members \subseteq DBs
  BY DEF SlotsInv, Types
<1>2. \A d \in DBs, x \in DBs : Keeps(d, x)' => Keeps(d, x)
  BY DEF Keeps
<1>3. ASSUME GraceInv
      PROVE  GraceInv'
  <2>1. \A d \in DBs : Gone(orphans[d])' /\ (job'[d] # Idle => Gone(job[d].orphans)')
    BY <1>3 DEF GraceInv, Gone
  <2> QED
    BY <1>1, <1>2, <1>3, <2>1 DEF GraceInv
<1> QED
  BY <1>3 DEF SlotsInv

\* Operators and the connections of standbys.
LEMMA ConnectionsKeepInv ==
    ASSUME SlotsInv,
           UpdateSpec \/ \E d \in CanLead, x \in DBs : Connect(d, x) \/ Disconnect(d, x)
    PROVE  SlotsInv'
<1>0. DBs \subseteq Names /\ CanLead \subseteq DBs
  BY SlotsAssumption DEF Names
<1>1. CASE UpdateSpec
  <2>1. Types'
    BY <1>1 DEF UpdateSpec, SlotsInv, Types
  <2> QED
    BY <1>1, <2>1, SlotStep DEF UpdateSpec, Keeps, Untouched
<1>2. ASSUME NEW d \in CanLead, NEW x \in DBs, Connect(d, x) \/ Disconnect(d, x)
      PROVE  SlotsInv'
  <2>1. PICK a \in SlotStates \ {"none"} : slots' = [slots EXCEPT ![d][x] = a]
    BY <1>2 DEF Connect, Disconnect, SlotStates
  <2>2. slots[d][x] # "none" /\ UNCHANGED <<cdVars, job, used, left, switches>>
    BY <1>2 DEF Connect, Disconnect
  <2>3. slots \in [DBs -> [Names -> SlotStates]]
    BY DEF SlotsInv, Types
  <2>4. /\ slots' \in [DBs -> [Names -> SlotStates]]
        /\ \A e \in DBs \ {d} : slots'[e] = slots[e]
        /\ \A y \in Names \ {x} : slots'[d][y] = slots[d][y]
    BY <1>0, <2>1, <2>3
  <2>5. Types'
    BY <2>2, <2>4 DEF cdVars, SlotsInv, Types
  <2>6. slots[d] # NoSlots
    BY <1>0, <2>2 DEF NoSlots
  <2>7. \A e \in DBs, y \in DBs : slots'[e][y] # "none" => slots[e][y] # "none"
    BY <1>0, <2>2, <2>4
  <2>8. \A e \in DBs : Untouched(e) => Untouched(e)'
    BY <1>0, <2>2, <2>4, <2>6 DEF Untouched
  <2> QED
    BY <2>2, <2>5, <2>7, <2>8, SlotStep DEF cdVars, Keeps
<1> QED
  BY <1>1, <1>2

\* A keeper reads the cluster data, or gives up the instance of a database that is
\* gone.
LEMMA ReadKeepsInv ==
    ASSUME SlotsInv, NEW d \in DBs, Read(d)
    PROVE  SlotsInv'
<1>0. Types /\ DBs \subseteq Names /\ members \subseteq DBs
  BY ZenonT(30) DEF SlotsInv, Types, Names
<1>1. CASE d \notin members /\ slots' = [slots EXCEPT ![d] = NoSlots] /\ UNCHANGED job
  <2>1. UNCHANGED <<cdVars, used, left, switches>>
    BY DEF Read
  <2>2. Types'
    BY <1>0, <1>1, <2>1, NoSlotsTyped DEF Types, cdVars
  <2>3. slots'[d] = NoSlots /\ \A e \in DBs \ {d} : slots'[e] = slots[e]
    BY <1>0, <1>1 DEF Types
  <2>4. \A e \in DBs, y \in DBs : slots'[e][y] # "none" => slots[e][y] # "none"
    BY <1>0, <2>3 DEF NoSlots
  <2>5. \A e \in DBs : Untouched(e) => Untouched(e)'
    BY <1>1, <2>3 DEF Untouched
  <2> QED
    BY <1>1, <2>1, <2>2, <2>4, <2>5, SlotStep DEF cdVars, Keeps
<1>2. CASE d \in members /\ follow[d] = None /\ UNCHANGED slots
  <2> DEFINE v == [pc |-> "read", followers |-> followers[d], orphans |-> orphans[d],
                   known |-> members, additional |-> additional]
  <2>1. job' = [job EXCEPT ![d] = v] /\ UNCHANGED <<cdVars, used, left, switches>>
    BY <1>2 DEF Read
  <2>2. /\ v \in Copies /\ v.followers = followers[d] /\ v.known = members
        /\ v.orphans = orphans[d]
    BY <1>0 DEF Types, Copies
  <2> HIDE DEF v
  <2>3. v # Idle
    BY <2>2, NotIdle
  <2>4. job'[d] = v /\ \A e \in DBs \ {d} : job'[e] = job[e]
    BY <1>0, <2>1 DEF Types
  <2>5. Types'
    BY <1>0, <1>2, <2>1, <2>2 DEF Types, cdVars
  <2>6. ASSUME GraceInv
        PROVE  GraceInv'
    <3>1. \A e \in DBs : Gone(orphans[e])' /\ (job'[e] # Idle => Gone(job[e].orphans)')
      BY <2>1, <2>2, <2>4, <2>6 DEF GraceInv, Gone, cdVars
    <3>2. \A e \in DBs \ {d} : /\ Untouched(e)' <=> Untouched(e)
                               /\ \A x \in DBs : Keeps(e, x)' <=> Keeps(e, x)
      BY <1>2, <2>4 DEF Untouched, Keeps
    <3>3. \A x \in DBs : Keeps(d, x)' => Keeps(d, x) \/ x \in followers[d]
      BY <1>2, <2>2, <2>4 DEF Keeps
    <3>4. \A x \in DBs : slots'[d][x] # "none" => x \in job'[d].known \cup DOMAIN job'[d].orphans
      BY <1>0, <1>2, <2>2, <2>4, <2>6 DEF GraceInv, Keeps
    <3>5. d \in used /\ UNCHANGED <<master, members, follow, followers, orphans, used, switches, slots>>
      BY <1>0, <1>2, <2>1 DEF Types, cdVars
    <3> QED
      <4>1. \A e \in members : e \in DBs /\ master \in DBs
        BY <1>0, ZenonT(30) DEF Types
      <4>2. /\ follow[master] = None /\ master \notin followers[master]
            /\ switches = 0 => \A e \in members \ {master} : follow[e] # None
            /\ \A e \in members : followers[e] \subseteq members
        BY <2>6, ZenonT(30) DEF GraceInv
      <4>3. \A e \in members : follow[e] # None => Untouched(e)' /\ followers[e] = {}
        <5>1. \A e \in members : follow[e] # None => Untouched(e) /\ followers[e] = {}
          BY <2>6, ZenonT(30) DEF GraceInv
        <5> QED
          BY <1>2, <3>2, <4>1, <5>1
      <4>4. \A e \in DBs \ used : Untouched(e)'
        <5>1. \A e \in DBs \ used : Untouched(e)
          BY <2>6, ZenonT(30) DEF GraceInv
        <5> QED
          BY <3>2, <3>5, <5>1
      <4>5. \A x \in DBs : Keeps(master, x)' => x \in followers[master] \cup DOMAIN orphans[master]
        <5>1. \A x \in DBs : Keeps(master, x) => x \in followers[master] \cup DOMAIN orphans[master]
          BY <2>6, ZenonT(30) DEF GraceInv
        <5>2. master' = master
          BY <3>5
        <5>3. \A m \in DBs, x \in DBs :
                 m = master => (Keeps(m, x)' => Keeps(m, x) \/ x \in followers[m])
          BY <3>2, <3>3
        <5>4. \A x \in DBs : Keeps(master, x)' => Keeps(master, x) \/ x \in followers[master]
          BY <1>0, <5>2, <5>3 DEF Keeps, Types
        <5> QED
          BY <5>1, <5>4, ZenonT(30)
      <4>6. \A e \in members, x \in DBs : Keeps(e, x)' => x \in members \cup DOMAIN orphans[e]
        <5>1. \A e \in members, x \in DBs : Keeps(e, x) => x \in members \cup DOMAIN orphans[e]
          BY <2>6, ZenonT(30) DEF GraceInv
        <5>2. followers[d] \subseteq members
          BY <1>2, <4>2
        <5> QED
          BY <3>2, <3>3, <4>1, <5>1, <5>2
      <4>7. \A e \in members, x \in DBs :
               (job'[e] # Idle /\ slots'[e][x] # "none")
                  => x \in job'[e].known \cup DOMAIN job'[e].orphans
        <5>1. \A e \in members, x \in DBs :
                 (job[e] # Idle /\ slots[e][x] # "none")
                    => x \in job[e].known \cup DOMAIN job[e].orphans
          BY <2>6, ZenonT(30) DEF GraceInv
        <5> QED
          BY <2>4, <3>4, <3>5, <4>1, <5>1, ZenonT(30)
      <4> QED
        BY <3>1, <3>5, <4>2, <4>3, <4>4, <4>5, <4>6, <4>7, ZenonT(30) DEF GraceInv
  <2> QED
    BY <2>1, <2>5, <2>6 DEF SlotsInv
<1> QED
  BY <1>1, <1>2 DEF Read

\* What updateReplSlots does to the slots of d: those of databases that it creates
\* are of followers in its copy, those that it drops pass the guards.
LEMMA SlotsAfterUpdate ==
    ASSUME Types, NEW d \in DBs, NEW found \in {slots[d], NoSlots}, updateReplSlots(d, found)
    PROVE  /\ job[d] \in Copies /\ job' = [job EXCEPT ![d] = Idle]
           /\ UNCHANGED <<cdVars, used, left, switches>>
           /\ slots' \in [DBs -> [Names -> SlotStates]]
           /\ \A e \in DBs \ {d} : slots'[e] = slots[e]
           /\ \A x \in DBs : slots'[d][x] # "none" => slots[d][x] # "none" \/ x \in job[d].followers
           /\ \A x \in DBs : slots[d][x] # "none" /\ slots'[d][x] = "none"
                 => found = slots[d] /\ shouldDropUnmanagedHysteronSlot(job[d], found, x)
<1> DEFINE v == job[d]
           managed == managedReplicationSlots(v, d)
           present == {s \in Names : found[s] # "none"}
           drop == {s \in present \ (managed \cup Ignored) :
                      shouldDropUnmanagedHysteronSlot(v, found, s) /\ slots[d][s] # "active"}
<1>1. PICK create \in SUBSET {s \in managed : slots[d][s] = "none"} :
         slots' = [slots EXCEPT ![d] = [s \in Names |->
                     IF s \in drop THEN "none" ELSE IF s \in create THEN "idle" ELSE slots[d][s]]]
  BY ZenonT(30) DEF updateReplSlots
<1>2. v.pc = "read" /\ job' = [job EXCEPT ![d] = Idle] /\ UNCHANGED <<cdVars, used, left, switches>>
  BY DEF updateReplSlots
<1>3. v \in Copies
  BY <1>2 DEF Types, Idle
<1>4. \A x \in DBs : x \in managed => x \in v.followers
  BY <1>3, SlotsAssumption DEF managedReplicationSlots, Copies
<1>5. DBs \subseteq Names /\ slots \in [DBs -> [Names -> SlotStates]]
  BY ZenonT(30) DEF Names, Types
<1>6. \A s \in drop : found = slots[d] /\ shouldDropUnmanagedHysteronSlot(v, found, s)
  BY DEF NoSlots
<1> HIDE DEF v, managed, present, drop
<1>7. [s \in Names |-> IF s \in drop THEN "none" ELSE IF s \in create THEN "idle" ELSE slots[d][s]]
         \in [Names -> SlotStates]
  BY <1>5 DEF SlotStates
<1>8. /\ slots' \in [DBs -> [Names -> SlotStates]]
      /\ \A e \in DBs \ {d} : slots'[e] = slots[e]
      /\ \A s \in Names : slots'[d][s] = IF s \in drop THEN "none"
                                        ELSE IF s \in create THEN "idle" ELSE slots[d][s]
  BY <1>1, <1>5, <1>7
<1>9. \A x \in DBs : slots'[d][x] # "none" => slots[d][x] # "none" \/ x \in v.followers
  BY <1>1, <1>4, <1>5, <1>8
<1>10. \A x \in DBs : slots[d][x] # "none" /\ slots'[d][x] = "none" => x \in drop
  BY <1>5, <1>8
<1> QED
  BY <1>2, <1>3, <1>6, <1>8, <1>9, <1>10 DEF v

LEMMA UpdateKeepsInv ==
    ASSUME SlotsInv, NEW d \in DBs, NEW found \in {slots[d], NoSlots}, updateReplSlots(d, found)
    PROVE  SlotsInv'
<1>0. Types
  BY DEF SlotsInv
<1>1. /\ job[d] \in Copies /\ job' = [job EXCEPT ![d] = Idle]
      /\ UNCHANGED <<cdVars, used, left, switches>>
      /\ slots' \in [DBs -> [Names -> SlotStates]]
      /\ \A e \in DBs \ {d} : slots'[e] = slots[e]
      /\ \A x \in DBs : slots'[d][x] # "none" => slots[d][x] # "none" \/ x \in job[d].followers
  BY <1>0, SlotsAfterUpdate
<1>2. job[d] # Idle /\ job'[d] = Idle /\ \A e \in DBs \ {d} : job'[e] = job[e]
  BY <1>0, <1>1, NotIdle DEF Types
<1>3. Types'
  BY <1>0, <1>1 DEF Types, cdVars
<1>4. \A e \in DBs, x \in DBs : slots'[e][x] # "none" => Keeps(e, x)
  BY <1>1, <1>2 DEF Keeps
<1>5. \A e \in DBs : Untouched(e) => Untouched(e)'
  BY <1>1, <1>2 DEF Untouched
<1> QED
  BY <1>1, <1>2, <1>3, <1>4, <1>5, SlotStep DEF cdVars

\* The sentinel keeps the master; followers that go become orphans.
LEMMA KeepKeepsInv ==
    ASSUME SlotsInv, TTL # 0, Keep
    PROVE  SlotsInv'
<1>0. Types /\ members \subseteq DBs /\ master \in members /\ None \notin DBs
  BY SlotsAssumption, ZenonT(30) DEF SlotsInv, Types, Names
<1>1. PICK gone \in SUBSET (members \ {master}), new \in SUBSET (DBs \ used) :
        LET now == (members \ gone) \cup new
            cur == now \ {master}
        IN
        /\ \A d \in members \ {master} : follow[d] = None => d \in gone
        /\ members' = now
        /\ used' = used \cup new
        /\ follow' = [d \in DBs |-> IF d \in cur THEN master ELSE None]
        /\ followers' = [d \in DBs |-> IF d = master THEN cur
                                       ELSE IF d \in new THEN {} ELSE followers[d]]
        /\ orphans' = [orphans EXCEPT ![master] =
                         computeOrphanMemberSlots(followers[master], cur, orphans[master])]
  BY ZenonT(30) DEF Keep
<1>2. UNCHANGED <<master, additional, slots, job, left, switches>>
  BY DEF Keep
<1> DEFINE cur == ((members \ gone) \cup new) \ {master}
           old == orphans[master]
           kept == DOMAIN old \ cur
           o == computeOrphanMemberSlots(followers[master], cur, old)
<1>3. /\ members' = (members \ gone) \cup new /\ used' = used \cup new
      /\ \A d \in DBs : /\ follow'[d] = IF d \in cur THEN master ELSE None
                        /\ followers'[d] = IF d = master THEN cur ELSE IF d \in new THEN {} ELSE followers[d]
      /\ orphans' = [orphans EXCEPT ![master] = o]
  BY <1>1
<1>4. /\ old \in OrphanMaps /\ DOMAIN old \subseteq DBs /\ old \in [DOMAIN old -> 0..TTL]
      /\ followers[master] \subseteq DBs
  BY <1>0, OrphanMapElim DEF Types
<1>5. /\ DOMAIN o = kept \cup (followers[master] \ cur)
      /\ \A x \in DOMAIN o : o[x] = IF x \in kept THEN old[x] ELSE 0
      /\ o \in [DOMAIN o -> 0..TTL]
  BY <1>4, SlotsAssumption DEF computeOrphanMemberSlots
<1> HIDE DEF o
<1>6. o \in OrphanMaps
  BY <1>4, <1>5, OrphanMap
<1>7. members' \subseteq used' /\ used' \subseteq DBs /\ master \in members' /\ cur \subseteq DBs
  BY <1>0, <1>3 DEF Types
<1>8. follow' \in [DBs -> DBs \cup {None}] /\ followers' \in [DBs -> SUBSET DBs]
  BY <1>0, <1>1, <1>7 DEF Types
<1>9. Types'
  BY <1>0, <1>2, <1>3, <1>6, <1>7, <1>8, ZenonT(30) DEF Types
<1>10. /\ orphans'[master] = o
       /\ \A d \in DBs \ {master} : orphans'[d] = orphans[d]
  BY <1>0, <1>3 DEF Types
<1>11. ASSUME GraceInv
       PROVE  GraceInv'
  <2>1. \A d \in cur : Untouched(d) /\ followers'[d] = {}
    BY <1>0, <1>1, <1>3, <1>7, <1>11 DEF GraceInv
  <2>2. \A d \in DBs : Untouched(d)' <=> Untouched(d)
    BY <1>2 DEF Untouched
  <2>3. \A x \in used \ members : x \in used' \ members'
    BY <1>3
  <2>4. \A x \in DOMAIN o : x \in used' \ members' /\ o[x] <= left[x]
    <3>1. \A x \in kept : x \in used \ members /\ old[x] <= left[x]
      BY <1>0, <1>11 DEF GraceInv, Gone
    <3>2. \A x \in followers[master] \ cur : x \in used' \ members'
      BY <1>0, <1>3, <1>11 DEF GraceInv, Types
    <3>3. \A x \in DBs : 0 <= left[x]
      BY <1>0 DEF Types
    <3> QED
      BY <1>4, <1>5, <2>3, <3>1, <3>2, <3>3
  <2>5. \A d \in DBs : Gone(orphans[d])' /\ (job'[d] # Idle => Gone(job[d].orphans)')
    BY <1>2, <1>10, <1>11, <2>3, <2>4 DEF GraceInv, Gone
  <2>6. \A x \in DBs : Keeps(master, x)' => x \in followers'[master] \cup DOMAIN orphans'[master]
    <3>1. \A x \in DBs : Keeps(master, x)' => Keeps(master, x)
      BY <1>2 DEF Keeps
    <3>2. \A x \in DBs : Keeps(master, x) => x \in followers[master] \cup DOMAIN old
      BY <1>11, ZenonT(30) DEF GraceInv
    <3>3. master' = master /\ followers'[master] = cur
      BY <1>0, <1>2, <1>3, <1>7
    <3>4. orphans'[master] = o /\ DOMAIN o = (DOMAIN old \ cur) \cup (followers[master] \ cur)
      BY <1>5, <1>10
    <3> HIDE DEF cur, old
    <3> QED
      BY ONLY <3>1, <3>2, <3>3, <3>4, ZenonT(30)
  <2>7. \A d \in cur, x \in DBs : ~Keeps(d, x)' /\ job'[d] = Idle
    BY <1>2, <2>1 DEF Untouched, Keeps, NoSlots, Names
  <2>8. \A d \in members', x \in DBs :
          /\ Keeps(d, x)' => x \in members' \cup DOMAIN orphans'[d]
          /\ (job'[d] # Idle /\ slots'[d][x] # "none") => x \in job'[d].known \cup DOMAIN job'[d].orphans
    <3> SUFFICES ASSUME NEW d \in members', NEW x \in DBs
                 PROVE  /\ Keeps(d, x)' => x \in members' \cup DOMAIN orphans'[d]
                        /\ (job'[d] # Idle /\ slots'[d][x] # "none")
                              => x \in job'[d].known \cup DOMAIN job'[d].orphans
      OBVIOUS
    <3>1. CASE d \in cur
      BY <2>7, <3>1
    <3>2. CASE d = master
      <4>1. Keeps(d, x)' => Keeps(master, x)
        BY <1>2, <3>2 DEF Keeps
      <4>2. Keeps(master, x) => x \in followers[master] \cup DOMAIN orphans[master]
        BY <1>11 DEF GraceInv
      <4>3. DOMAIN orphans'[d] = kept \cup (followers[master] \ cur) /\ cur \subseteq members'
        BY <1>3, <1>5, <1>10, <3>2
      <4>4. (job'[d] # Idle /\ slots'[d][x] # "none") => x \in job'[d].known \cup DOMAIN job'[d].orphans
        BY <1>0, <1>2, <1>11, <3>2 DEF GraceInv
      <4> QED
        BY <4>1, <4>2, <4>3, <4>4
    <3> QED
      BY <1>3, <3>1, <3>2
  <2>9. /\ follow'[master] = None /\ master \notin followers'[master]
        /\ \A d \in members' \ {master} : follow'[d] # None
        /\ \A d \in members' : followers'[d] \subseteq members'
        /\ \A d \in members' : follow'[d] # None => Untouched(d)' /\ followers'[d] = {}
        /\ \A d \in DBs \ used' : Untouched(d)'
    <3>1. master \in DBs /\ members' \subseteq DBs /\ cur = members' \ {master}
      BY <1>3, <1>7
    <3>2. follow'[master] = None /\ master \notin followers'[master]
      BY <1>3, <3>1
    <3>3. \A d \in members' \ {master} : follow'[d] = master /\ master # None
      BY <1>0, <1>3, <3>1
    <3>4. \A d \in members' : followers'[d] \subseteq members'
      <4>1. followers'[master] \subseteq members'
        BY <1>3, <3>1
      <4> QED
        BY <2>1, <3>1, <4>1
    <3>5. \A d \in members' : follow'[d] # None => Untouched(d)' /\ followers'[d] = {}
      BY <2>1, <2>2, <3>1, <3>2
    <3>6. \A d \in DBs \ used' : Untouched(d)'
      <4>1. \A d \in DBs \ used : Untouched(d)
        BY <1>11, ZenonT(30) DEF GraceInv
      <4> QED
        BY <1>3, <2>2, <4>1
    <3> QED
      BY ONLY <3>2, <3>3, <3>4, <3>5, <3>6, ZenonT(30)
  <2> QED
    BY <1>2, <2>5, <2>6, <2>8, <2>9 DEF GraceInv
<1> QED
  BY <1>2, <1>9, <1>11 DEF SlotsInv

\* The first election: the new master was a standby and has no slots.
LEMMA ElectKeepsInv ==
    ASSUME SlotsInv, NEW w \in CanLead, Elect(w)
    PROVE  SlotsInv'
<1>0. /\ Types /\ members \subseteq DBs /\ master \in members /\ w \in members \ {master}
      /\ None \notin DBs
  BY SlotsAssumption, ZenonT(30) DEF SlotsInv, Types, Names, Elect
<1>1. /\ master' = w /\ switches' = switches + 1
      /\ follow' = [follow EXCEPT ![w] = None]
      /\ followers' = [followers EXCEPT ![master] = {d \in members : follow'[d] = w}]
      /\ orphans' = [orphans EXCEPT ![w] = NoOrphans]
      /\ UNCHANGED <<members, additional, slots, job, used, left>>
  BY DEF Elect
<1>2. /\ follow'[w] = None /\ \A d \in DBs \ {w} : follow'[d] = follow[d]
      /\ followers'[master] \subseteq members
      /\ \A d \in DBs \ {master} : followers'[d] = followers[d]
      /\ orphans'[w] = NoOrphans /\ \A d \in DBs \ {w} : orphans'[d] = orphans[d]
  BY <1>0, <1>1 DEF Types
<1>3. Types'
  <2>1. {d \in members : follow'[d] = w} \in SUBSET DBs
    BY <1>0
  <2>2. followers' \in [DBs -> SUBSET DBs]
    BY <1>0, <1>1, <2>1 DEF Types
  <2> QED
    BY <1>0, <1>1, <2>2, NoOrphansMap DEF Types
<1>4. ASSUME GraceInv, switches = 0
      PROVE  GraceInv'
  <2>1. follow[w] # None /\ Untouched(w) /\ followers[w] = {}
    BY <1>0, <1>4 DEF GraceInv
  <2>2. \A d \in DBs : /\ Untouched(d)' <=> Untouched(d)
                       /\ \A x \in DBs : Keeps(d, x)' <=> Keeps(d, x)
    BY <1>1 DEF Untouched, Keeps
  <2>3. \A x \in DBs : ~Keeps(w, x)
    BY <2>1 DEF Untouched, Keeps, NoSlots, Names
  <2>4. \A x \in DBs : ~Keeps(master, x)'
    <3>1. \A x \in DBs : Keeps(master, x)' <=> Keeps(w, x)
      BY <1>1 DEF Keeps
    <3> QED
      BY <2>3, <3>1
  <2>5. \A d \in DBs : Gone(orphans[d])' /\ (job'[d] # Idle => Gone(job[d].orphans)')
    BY <1>1, <1>2, <1>4, NoOrphansMap DEF GraceInv, Gone
  <2>6. \A d \in members', x \in DBs :
          /\ Keeps(d, x)' => x \in members' \cup DOMAIN orphans'[d]
          /\ (job'[d] # Idle /\ slots'[d][x] # "none") => x \in job'[d].known \cup DOMAIN job'[d].orphans
    <3> SUFFICES ASSUME NEW d \in members', NEW x \in DBs
                 PROVE  /\ Keeps(d, x)' => x \in members' \cup DOMAIN orphans'[d]
                        /\ (job'[d] # Idle /\ slots'[d][x] # "none")
                              => x \in job'[d].known \cup DOMAIN job'[d].orphans
      OBVIOUS
    <3>1. d \in members /\ d \in DBs /\ members' = members
      BY <1>0, <1>1
    <3>2. (job'[d] # Idle /\ slots'[d][x] # "none") => x \in job'[d].known \cup DOMAIN job'[d].orphans
      <4>1. (job[d] # Idle /\ slots[d][x] # "none") => x \in job[d].known \cup DOMAIN job[d].orphans
        BY <1>4, <3>1, ZenonT(30) DEF GraceInv
      <4>2. job' = job /\ slots' = slots
        BY <1>1
      <4> QED
        BY ONLY <4>1, <4>2, ZenonT(30)
    <3>3. Keeps(d, x)' => x \in members' \cup DOMAIN orphans'[d]
      <4>1. Keeps(d, x)' => Keeps(d, x)
        BY <2>2, <3>1
      <4>2. Keeps(d, x) => x \in members \cup DOMAIN orphans[d]
        BY <1>4, <3>1, ZenonT(30) DEF GraceInv
      <4>3. d # w => orphans'[d] = orphans[d]
        BY <1>2, <3>1
      <4>4. d = w => ~Keeps(d, x)
        BY <2>3
      <4> QED
        BY ONLY <3>1, <4>1, <4>2, <4>3, <4>4, ZenonT(30)
    <3> QED
      BY <3>2, <3>3
  <2>7. /\ follow'[master'] = None /\ master' \notin followers'[master'] /\ switches' # 0
        /\ \A d \in members' : followers'[d] \subseteq members'
        /\ \A d \in members' : follow'[d] # None => Untouched(d)' /\ followers'[d] = {}
        /\ \A d \in DBs \ used' : Untouched(d)'
    <3>1. master' = w /\ w \in DBs /\ members' = members /\ members \subseteq DBs /\ used' = used
      BY <1>0, <1>1
    <3>2. follow'[w] = None /\ followers'[w] = {} /\ switches' # 0
      BY <1>0, <1>1, <1>2, <1>4, <2>1
    <3>3. \A d \in members : followers'[d] \subseteq members
      <4>1. \A d \in members : followers[d] \subseteq members
        BY <1>4, ZenonT(30) DEF GraceInv
      <4> QED
        BY <1>2, <3>1, <4>1
    <3>4. \A d \in members : follow'[d] # None => Untouched(d)' /\ followers'[d] = {}
      <4>1. \A d \in members : follow[d] # None => Untouched(d) /\ followers[d] = {}
        BY <1>4, ZenonT(30) DEF GraceInv
      <4>2. follow[master] = None /\ master # w
        BY <1>0, <1>4, ZenonT(30) DEF GraceInv
      <4> QED
        BY <1>2, <2>2, <3>1, <4>1, <4>2
    <3>5. \A d \in DBs \ used : Untouched(d)'
      BY <1>4, <2>2, ZenonT(30) DEF GraceInv
    <3> QED
      BY ONLY <3>1, <3>2, <3>3, <3>4, <3>5, ZenonT(30)
  <2> QED
    BY <2>4, <2>5, <2>6, <2>7 DEF GraceInv
<1>5. switches \in Nat /\ (switches' < 2 => switches = 0)
  BY <1>0, <1>1 DEF Types
<1> QED
  BY <1>3, <1>4, <1>5 DEF SlotsInv

LEMMA NextKeepsSlotsInv ==
    ASSUME TTL # 0, SlotsInv, [Next]_vars
    PROVE  SlotsInv'
<1>0. CanLead \subseteq DBs
  BY SlotsAssumption
<1>1. CASE \E d \in CanLead : Refresh(d)
  BY <1>0, <1>1, ReadKeepsInv, UpdateKeepsInv DEF Refresh
<1>2. CASE UNCHANGED vars
  BY <1>2 DEF vars, cdVars, SlotsInv, Types, GraceInv, Keeps, Untouched, Gone
<1> QED
  BY <1>1, <1>2, TickKeepsInv, KeepKeepsInv, ElectKeepsInv, ConnectionsKeepInv DEF Next

\* A slot of a member goes only in updateReplSlots, which has looked at it.
LEMMA DropPassesGuards ==
    ASSUME SlotsInv, TTL # 0, switches < 2, [Next]_vars,
           NEW d \in members, NEW x \in DBs, Dropped(d, x)
    PROVE  x \in used \ members /\ left[x] = TTL /\ slots[d][x] = "idle"
<1>0. Types /\ GraceInv /\ d \in DBs /\ DBs \subseteq Names
  BY ZenonT(30) DEF SlotsInv, Types, Names
<1>1. slots[d][x] # "none" /\ slots'[d][x] = "none"
  BY DEF Dropped
<1>2. PICK e \in CanLead : \/ Read(e) \/ updateReplSlots(e, slots[e]) \/ updateReplSlots(e, NoSlots)
                         \/ \E y \in DBs : Connect(e, y) \/ Disconnect(e, y)
  BY <1>1, ZenonT(30) DEF Next, vars, Tick, Keep, UpdateSpec, Elect, Refresh
<1>3. e \in DBs
  BY SlotsAssumption
<1>4. ~Read(e)
  <2>1. Read(e) => \/ slots' = slots
                   \/ e \notin members /\ slots' = [slots EXCEPT ![e] = NoSlots]
    BY ZenonT(30) DEF Read
  <2>2. \E T : slots \in [DBs -> T]
    BY <1>0, ZenonT(30) DEF Types
  <2> QED
    BY <1>0, <1>1, <1>3, <2>1, <2>2
<1>5. ~\E y \in DBs : Connect(e, y) \/ Disconnect(e, y)
  BY <1>0, <1>1, <1>3 DEF Connect, Disconnect, Types
<1>6. PICK found \in {slots[e], NoSlots} : updateReplSlots(e, found)
  BY <1>2, <1>4, <1>5
<1>7. /\ job[e] \in Copies /\ \A c \in DBs \ {e} : slots'[c] = slots[c]
      /\ \A y \in DBs : slots[e][y] # "none" /\ slots'[e][y] = "none"
            => found = slots[e] /\ shouldDropUnmanagedHysteronSlot(job[e], found, y)
  BY <1>0, <1>3, <1>6, SlotsAfterUpdate
<1>8. d = e
  BY <1>0, <1>1, <1>7
<1>9. job[d] # Idle /\ shouldDropUnmanagedHysteronSlot(job[d], slots[d], x)
  BY <1>1, <1>7, <1>8, NotIdle
<1>10. x \in job[d].known \cup DOMAIN job[d].orphans
  BY <1>0, <1>1, <1>9 DEF GraceInv
<1>11. x \in DOMAIN job[d].orphans /\ job[d].orphans[x] >= TTL /\ slots[d][x] = "idle"
  BY <1>9, <1>10 DEF shouldDropUnmanagedHysteronSlot
<1>12. x \in used \ members /\ job[d].orphans[x] <= left[x] /\ left[x] \in 0..TTL
  BY <1>0, <1>9, <1>11 DEF GraceInv, Gone, Types
<1>13. job[d].orphans[x] \in 0..TTL
  <2>1. job[d].orphans \in OrphanMaps
    BY <1>7, <1>8 DEF Copies
  <2> QED
    BY <1>11, <2>1, OrphanMapElim
<1> QED
  <2>1. TTL \in Nat
    BY SlotsAssumption
  <2>2. left[x] = TTL
    BY ONLY <1>11, <1>12, <1>13, <2>1, SMTT(30)
  <2> QED
    BY <1>11, <1>12, <2>2, ZenonT(30)

\* For any databases and any memberReplicationSlotTTL but 0: up to the second election,
\* the keeper of a member drops the slot of a database (updateReplSlots) only when
\* that database is gone, for that time at least, and the slot is inactive and has
\* no xmin, although the keeper acts on cluster data that may be old.
THEOREM GraceIsKept ==
    ASSUME TTL # 0
    PROVE  Spec => GraceKept
<1>1. SlotsInv /\ [Next]_vars =>
        [switches < 2 => \A d \in members, x \in DBs :
           Dropped(d, x) => x \in used \ members /\ left[x] = TTL /\ slots[d][x] = "idle"]_vars
  BY DropPassesGuards
<1>2. SlotsInv /\ [Next]_vars => SlotsInv'
  BY NextKeepsSlotsInv
<1> QED
  BY <1>1, <1>2, InitSlots, PTL DEF Spec, GraceKept
=============================================================================

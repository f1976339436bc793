------------------------- MODULE KeeperStateMachine -------------------------
(***************************************************************************)
(* One keeper and its data directory: the state machine step that brings   *)
(* PostgreSQL to what the cluster data ask for, interrupted anywhere by an  *)
(* error or by the death of the keeper, and the sentinel that assigns      *)
(* databases to the keeper on the strength of its reports.                 *)
(*                                                                         *)
(* A step reads the cluster data once and works on that copy (cur) to the   *)
(* end.  Every save of the local state, every stop and start of PostgreSQL *)
(* and every change of the data directory is an action of its own, so that *)
(* the keeper can die between any two of them.  The dbstate file is         *)
(* written atomically and copied to memory after the write: one variable.  *)
(*                                                                         *)
(* The data directory is "partial" while initdb, a restore, pg_basebackup   *)
(* or pg_rewind work on it, until a restored one has replayed its WAL, and *)
(* when its removal stopped half way.                                      *)
(***************************************************************************)
EXTENDS Integers

CONSTANTS
    InitModes,    \* values of Spec.InitMode of the cluster to consider
    MaxUID,       \* bound: databases assigned to the keeper, one after another
    MaxGen        \* bound: generations of a database

InitMode == {"new", "existing", "pitr"}

ASSUME KeeperAssumption ==
    /\ InitModes \subseteq InitMode
    /\ MaxUID \in Nat /\ MaxGen \in Nat \ {0}

NoUID == 0        \* the empty UID; later databases have larger UIDs
NoGeneration == 0
UIDs == 0 .. MaxUID
Gens == 0 .. MaxGen

VARIABLES
    \* the cluster data, as far as they concern this keeper
    initMode,     \* Cluster.Spec.InitMode
    phase,        \* Cluster.Status.Phase
    lastUID,      \* the last UID that was given out
    cd,           \* the database assigned to the keeper, and whether the
                  \* cluster specification has the initial pgParameters
    status,       \* its Status: generation, pgParameters
    bootKnown,    \* Keeper.Status.BootUUID is the one of the running keeper
    \* the keeper process
    pc,           \* where the state machine step is, "idle" between steps
    cur,          \* the copy of cd the step works on
    recovery,     \* the recovery mode set in the PostgreSQL manager
    rewound,      \* tryPgrewind
    again,        \* fullResync
    \* on disk
    local,        \* dbstate: UID, Generation, Initializing, InitPGParameters
    dir,          \* the data directory
    owner,        \* the database whose initialisation made its contents
    signal,       \* it has standby.signal
    conf,         \* its postgresql.conf has the initial parameters
    \* PostgreSQL, and the published KeeperInfo
    pg,           \* "down", "tmp" (on the temporary configuration), "run"
    info,
    calm          \* nothing fails any more

cdVars == <<initMode, phase, lastUID, cd, status, bootKnown>>
stepVars == <<pc, cur, recovery, rewound, again>>
dirVars == <<dir, owner, signal, conf>>
vars == <<cdVars, stepVars, local, dirVars, pg, info, calm>>

\* What the model keeps of cluster.DB and of the pgParameters of the
\* ClusterSpec (merged: they contain the initial parameters).
Assignment == [uid: UIDs, gen: Gens,
               mode: {"new", "existing", "pitr", "resync", "none"},
               role: {"master", "standby"},
               includeConfig: BOOLEAN, merged: BOOLEAN]

NoAssignment == [uid |-> NoUID, gen |-> NoGeneration, mode |-> "none",
                 role |-> "standby", includeConfig |-> FALSE, merged |-> FALSE]

Report == [uid: UIDs, gen: Gens, healthy: BOOLEAN, params: BOOLEAN]

NoReport == [uid |-> NoUID, gen |-> NoGeneration,
             healthy |-> FALSE, params |-> FALSE]

\* Of DB.Status.  Healthy is not kept: it depends on timers that a new leader
\* does not inherit, so a database may count as healthy at any time.
Status == [uid: UIDs, gen: Gens, params: BOOLEAN]

NoStatus == [uid |-> NoUID, gen |-> NoGeneration, params |-> FALSE]

NoLocal == [uid |-> NoUID, gen |-> NoGeneration,
            initializing |-> FALSE, params |-> FALSE]

\* Points of the step at which PostgreSQL is stopped, and where it goes on.
StopPoint == {"cleanStop", "initStop", "tmpStop", "fullStop"}

\* Points at which the data directory is removed.
RemovePoint == {"cleanRemove", "initRemove", "copyRemove"}

PC == StopPoint \cup RemovePoint \cup
      {"idle", "cleanSave", "uid", "fill", "filling", "tmp", "tmpReady",
       "sync", "rewinding", "copy", "copying", "syncStart", "syncWait",
       "role", "reload", "save"}

\* An "existing" cluster is initialised on a keeper that has a data
\* directory, possibly the one of a standby; the others start without one.
Init ==
    /\ initMode \in InitModes
    /\ phase = "initializing"
    /\ lastUID = NoUID
    /\ cd = NoAssignment
    /\ status = NoStatus
    /\ bootKnown = TRUE
    /\ pc = "idle" /\ cur = NoAssignment
    /\ recovery = "none" /\ rewound = FALSE /\ again = FALSE
    /\ local = NoLocal
    /\ dir = IF initMode = "existing" THEN "full" ELSE "none"
    /\ owner = NoUID
    /\ signal \in (IF initMode = "existing" THEN BOOLEAN ELSE {FALSE})
    /\ conf = (initMode = "existing")
    /\ pg = "down"
    /\ info = [boot |-> TRUE, state |-> NoReport]
    /\ calm = FALSE

-----------------------------------------------------------------------------
(* The sentinel.  Its checks are atomic: the store refuses the write of a   *)
(* check whose cluster data are no longer current.                         *)

\* The status of the database follows the reports that carry its UID: the
\* generation always, the parameters only when PostgreSQL answered.
UpdateKeepersStatus ==
    /\ bootKnown' = info.boot
    /\ \/ /\ cd.uid # NoUID /\ info.state.uid = cd.uid
          /\ status' = [uid |-> cd.uid, gen |-> info.state.gen,
                        params |-> IF info.state.healthy THEN info.state.params
                                                         ELSE status.params]
       \/ /\ cd.uid = NoUID \/ info.state.uid # cd.uid
          /\ UNCHANGED status
    /\ UNCHANGED <<initMode, phase, lastUID, cd, stepVars, local, dirVars, pg,
                   info, calm>>

\* Mutant: any report will do.
ConvergedAnyGeneration == cd.uid # NoUID

Converged == cd.uid # NoUID /\ status.gen = cd.gen

Assign(mode, role, includeConfig) ==
    /\ lastUID < MaxUID
    /\ lastUID' = lastUID + 1
    /\ cd' = [uid |-> lastUID + 1, gen |-> 1, mode |-> mode, role |-> role,
              includeConfig |-> includeConfig, merged |-> cd.merged]
    /\ status' = NoStatus

Unassign ==
    /\ cd' = [NoAssignment EXCEPT !.merged = cd.merged]
    /\ status' = NoStatus

\* A change of the DBSpec is a new generation.
Change(newcd) ==
    /\ cd.gen < MaxGen
    /\ cd' = [newcd EXCEPT !.gen = cd.gen + 1]

\* The keeper is chosen for the first database of the cluster.
ChooseInitial ==
    /\ phase = "initializing"
    /\ cd.uid = NoUID
    /\ \E role \in {"master", "standby"} :
          /\ role = "standby" => initMode = "pitr"
          /\ Assign(initMode, role, TRUE)
    /\ UNCHANGED <<initMode, phase, bootKnown>>

\* The first database did not converge in time: another keeper may be chosen.
InitialFailed ==
    /\ ~calm
    /\ phase = "initializing"
    /\ initMode # "existing"
    /\ cd.uid # NoUID
    /\ ~Converged
    /\ Unassign
    /\ UNCHANGED <<initMode, phase, lastUID, bootKnown>>

\* The first database has converged.  The cluster takes over its parameters.
InitialConverged ==
    /\ phase = "initializing"
    /\ Converged
    /\ phase' = "normal"
    /\ Change([cd EXCEPT !.mode = "none", !.includeConfig = FALSE,
                         !.merged = status.params])
    /\ UNCHANGED <<initMode, lastUID, status, bootKnown>>

\* Another keeper was chosen for the first database, and has initialised it.
InitializedElsewhere ==
    /\ phase = "initializing"
    /\ initMode # "existing"
    /\ cd.uid = NoUID
    /\ phase' = "normal"
    /\ cd' = [cd EXCEPT !.merged = TRUE]
    /\ UNCHANGED <<initMode, lastUID, status, bootKnown>>

\* A free keeper gets a new standby.
AddStandby ==
    /\ phase = "normal"
    /\ cd.uid = NoUID
    /\ Assign("resync", "standby", FALSE)
    /\ UNCHANGED <<initMode, phase, bootKnown>>

\* The database is removed: an old master, an invalid or a failed standby, or
\* one too many.
RemoveDB ==
    /\ phase = "normal"
    /\ cd.uid # NoUID
    /\ Unassign
    /\ UNCHANGED <<initMode, phase, lastUID, bootKnown>>

\* Clean InitMode for goodStandbys.
CleanInitMode ==
    /\ phase = "normal"
    /\ cd.role = "standby" /\ cd.mode # "none"
    /\ Converged
    /\ Change([cd EXCEPT !.mode = "none"])
    /\ UNCHANGED <<initMode, phase, lastUID, status, bootKnown>>

\* A good standby is elected; its InitMode stays what it was.  The first
\* database of a restored standby cluster becomes a master whatever its
\* status, when the role of the cluster is changed.
Elect ==
    /\ phase = "normal"
    /\ cd.uid # NoUID
    /\ cd.role = "standby"
    /\ \/ Converged
       \/ initMode = "pitr" /\ cd.mode = "none"
    /\ Change([cd EXCEPT !.role = "master"])
    /\ UNCHANGED <<initMode, phase, lastUID, status, bootKnown>>

\* Any other change of the DBSpec.
ChangeSpec ==
    /\ cd.uid # NoUID
    /\ Change(cd)
    /\ UNCHANGED <<initMode, phase, lastUID, status, bootKnown>>

UpdateCluster ==
    /\ \/ ChooseInitial \/ InitialFailed \/ InitialConverged
       \/ InitializedElsewhere \/ AddStandby \/ RemoveDB
       \/ CleanInitMode \/ Elect \/ ChangeSpec
    /\ UNCHANGED <<stepVars, local, dirVars, pg, info, calm>>

-----------------------------------------------------------------------------
(* The keeper's reports, made by two other loops of the process: one caches *)
(* the state of PostgreSQL, the other publishes what is cached.  The age of *)
(* the cached state adds to that of the published one.                     *)

\* The generation first, then what PostgreSQL says.
PGState(healthy) ==
    [uid |-> local.uid, gen |-> local.gen,
     healthy |-> healthy, params |-> healthy /\ conf]

\* A keeper that was just restarted may have nothing to say yet.
UpdateKeeperInfo ==
    /\ \E healthy \in {FALSE, pg # "down"} :
          info' \in {[boot |-> TRUE, state |-> PGState(healthy)],
                     [boot |-> TRUE, state |-> NoReport]}
    /\ UNCHANGED <<cdVars, stepVars, local, dirVars, pg, calm>>

-----------------------------------------------------------------------------
(* postgresKeeperSM: one step of the keeper's state machine.               *)

GoTo(point) == pc' = point

\* The end of a step, where its local variables end too.
Return ==
    /\ pc' = "idle"
    /\ cur' = NoAssignment /\ rewound' = FALSE /\ again' = FALSE

\* No database is assigned, or the sentinel does not know yet that the keeper
\* was restarted: PostgreSQL is only stopped.
StopAndWait ==
    /\ pc = "idle"
    /\ cd.uid = NoUID \/ ~bootKnown
    /\ pg # "down"
    /\ pg' = "down"
    /\ UNCHANGED <<stepVars, local, dirVars>>

\* Mutant: an interrupted initialisation is not noticed.
BeginStepBlind ==
    /\ pc = "idle"
    /\ cd.uid # NoUID /\ bootKnown
    /\ cur' = cd
    /\ GoTo("uid")
    /\ UNCHANGED <<recovery, rewound, again, local, dirVars, pg>>

\* Initializing in the local state: an initialisation was interrupted.
BeginStep ==
    /\ pc = "idle"
    /\ cd.uid # NoUID /\ bootKnown
    /\ cur' = cd
    /\ GoTo(IF local.initializing THEN "cleanStop" ELSE "uid")
    /\ UNCHANGED <<recovery, rewound, again, local, dirVars, pg>>

\* stopPostgresIfStarted, wherever the step calls it before it goes on.
StopPostgres ==
    /\ pc \in StopPoint
    /\ pg' = "down"
    /\ GoTo(CASE pc = "cleanStop" -> "cleanRemove"
              [] pc = "initStop" -> (CASE cur.mode = "resync" -> "sync"
                                       [] cur.mode = "existing" -> "tmp"
                                       [] OTHER -> "initRemove")
              [] pc = "tmpStop" -> "role"
              [] pc = "fullStop" -> "copyRemove")
    /\ UNCHANGED <<cur, recovery, rewound, again, local, dirVars>>

\* RemoveAll refuses to remove a directory that PostgreSQL runs on.
RemoveAll ==
    /\ pc \in RemovePoint
    /\ pg = "down"
    /\ dir' = "none" /\ signal' = FALSE /\ conf' = FALSE
    /\ GoTo(CASE pc = "cleanRemove" -> "cleanSave"
              [] pc = "initRemove" -> "fill"
              [] pc = "copyRemove" -> "copy")
    /\ UNCHANGED <<cur, recovery, rewound, again, local, owner, pg>>

\* Mutant: only Initializing is reset.
ResetInitializing ==
    /\ pc = "cleanSave"
    /\ local' = [local EXCEPT !.initializing = FALSE]
    /\ GoTo("uid")
    /\ UNCHANGED <<cur, recovery, rewound, again, dirVars, pg>>

\* Reset current db local state since it's not valid anymore.
ResetLocalState ==
    /\ pc = "cleanSave"
    /\ local' = NoLocal
    /\ GoTo("uid")
    /\ UNCHANGED <<cur, recovery, rewound, again, dirVars, pg>>

\* The local database is the assigned one.
SameUID ==
    /\ pc = "uid"
    /\ local.uid = cur.uid
    /\ GoTo("role")
    /\ UNCHANGED <<cur, recovery, rewound, again, local, dirVars, pg>>

\* Mutant: every mode saves the local state the way existing does.
BeginUnmarked ==
    /\ pc = "uid"
    /\ local.uid # cur.uid
    /\ cur.mode # "none"
    /\ local' = [NoLocal EXCEPT !.uid = cur.uid]
    /\ owner' = IF cur.mode = "existing" THEN cur.uid ELSE owner
    /\ recovery' = "none" /\ rewound' = FALSE /\ again' = FALSE
    /\ GoTo("initStop")
    /\ UNCHANGED <<cur, dir, signal, conf, pg>>

\* It is another one: the local state is replaced, and says that an
\* initialisation is under way, before anything is done to the directory.  An
\* existing directory is adopted as it is.
BeginInitialization ==
    /\ pc = "uid"
    /\ local.uid # cur.uid
    /\ cur.mode # "none"
    /\ local' = [uid |-> cur.uid, gen |-> NoGeneration,
                  initializing |-> cur.mode # "existing", params |-> FALSE]
    /\ owner' = IF cur.mode = "existing" THEN cur.uid ELSE owner
    /\ recovery' = "none" /\ rewound' = FALSE /\ again' = FALSE
    /\ GoTo("initStop")
    /\ UNCHANGED <<cur, dir, signal, conf, pg>>

\* "local database state invariant broken: init mode is none".
InvariantBroken ==
    /\ pc = "uid"
    /\ local.uid # cur.uid
    /\ cur.mode = "none"
    /\ Return
    /\ UNCHANGED <<recovery, local, dirVars, pg>>

\* initdb or the restore command starts to write.
BeginFill ==
    /\ pc = "fill"
    /\ dir' = "partial"
    /\ GoTo("filling")
    /\ UNCHANGED <<cur, recovery, rewound, again, local, owner, signal, conf, pg>>

\* initdb is done, or the base of the restored database is there.
EndFill ==
    /\ pc = "filling"
    /\ dir' = IF cur.mode = "pitr" THEN "partial" ELSE "full"
    /\ owner' = cur.uid
    /\ conf' = TRUE
    /\ recovery' = CASE cur.mode # "pitr" -> "none"
                     [] cur.role = "standby" -> "standby"
                     [] OTHER -> "recovery"
    /\ GoTo("tmp")
    /\ UNCHANGED <<cur, rewound, again, local, signal, pg>>

\* Starting PostgreSQL writes its files; standby.signal is written in standby
\* mode and never removed.
WriteSignal == signal' = (signal \/ recovery' = "standby")

\* createPGParameters.
Parameters == (cur.includeConfig /\ local.params) \/ cur.merged

\* StartTmpMerged leaves postgresql.conf alone.
StartTmpMerged ==
    /\ pc = "tmp"
    /\ pg' = "tmp"
    /\ UNCHANGED recovery
    /\ WriteSignal
    /\ GoTo("tmpReady")
    /\ UNCHANGED <<cur, rewound, again, local, dir, owner, conf>>

\* Mutant: the parameters are not saved.
SkipInitParameters ==
    /\ pc = "tmpReady"
    /\ dir' = "full"
    /\ GoTo("tmpStop")
    /\ UNCHANGED <<cur, recovery, rewound, again, local, owner, signal, conf, pg>>

\* The instance has replayed its WAL and is ready; its parameters are saved.
SaveInitParameters ==
    /\ pc = "tmpReady"
    /\ dir' = "full"
    /\ local' = [local EXCEPT !.params = cur.includeConfig /\ conf]
    /\ GoTo("tmpStop")
    /\ UNCHANGED <<cur, recovery, rewound, again, owner, signal, conf, pg>>

\* tryPgrewind needs an initialised directory, the system id of the cluster and
\* WAL that is still there; pg_rewind is then run if it is enabled.
BeginResync ==
    /\ pc = "sync"
    /\ \/ /\ dir = "full"
          /\ rewound' = TRUE
          /\ dir' = "partial"
          /\ GoTo("rewinding")
       \/ /\ rewound' \in {FALSE, dir = "full"}
          /\ dir' = dir
          /\ GoTo("copyRemove")
    /\ UNCHANGED <<cur, recovery, again, local, owner, signal, conf, pg>>

\* pg_rewind fails, or succeeds; the WAL it needs may be missing all the same.
EndRewind ==
    /\ pc = "rewinding"
    /\ \/ /\ dir' \in {"partial", "full"}
          /\ owner' = cur.uid
          /\ conf' \in BOOLEAN
          /\ recovery' = "standby"
          /\ GoTo("syncStart")
       \/ /\ GoTo("copyRemove")
          /\ UNCHANGED <<dir, owner, conf, recovery>>
    /\ UNCHANGED <<cur, rewound, again, local, signal, pg>>

\* pg_basebackup starts to write.
BeginCopy ==
    /\ pc = "copy"
    /\ dir' = "partial"
    /\ GoTo("copying")
    /\ UNCHANGED <<cur, recovery, rewound, again, local, owner, signal, conf, pg>>

\* pg_basebackup -R leaves a standby.signal.
EndCopy ==
    /\ pc = "copying"
    /\ dir' = "full" /\ owner' = cur.uid /\ signal' = TRUE
    /\ conf' \in BOOLEAN
    /\ GoTo(IF again THEN "role" ELSE "syncStart")
    /\ UNCHANGED <<cur, recovery, rewound, again, local, pg>>

\* Start writes postgresql.conf.
StartResynced ==
    /\ pc = "syncStart"
    /\ pg' = "run"
    /\ UNCHANGED recovery
    /\ WriteSignal
    /\ conf' = Parameters
    /\ GoTo(IF rewound THEN "syncWait" ELSE "role")
    /\ UNCHANGED <<cur, rewound, again, local, dir, owner>>

\* Mutant: pg_rewind is believed.
BelieveRewind ==
    /\ pc = "syncWait"
    /\ GoTo("role")
    /\ UNCHANGED <<cur, recovery, rewound, again, local, dirVars, pg>>

\* After pg_rewind the standby has to become ready, on the timeline of the
\* database it follows; if not, it is copied after all.
CheckRewound ==
    /\ pc = "syncWait"
    /\ \/ /\ dir = "full"
          /\ GoTo("role")
          /\ UNCHANGED again
       \/ /\ GoTo("fullStop")
          /\ again' = TRUE
    /\ UNCHANGED <<cur, recovery, rewound, local, dirVars, pg>>

-----------------------------------------------------------------------------
(* The second half of the step: the role, the configuration, the end.      *)

\* GetRole: standby.signal makes a standby.  IsStarted does not tell on which
\* configuration PostgreSQL was started.
StartMaster ==
    /\ pc = "role"
    /\ cur.role = "master"
    /\ dir # "none"
    /\ pg = "down"
    /\ recovery' = "none"
    /\ pg' = "run"
    /\ conf' = Parameters
    /\ UNCHANGED <<pc, cur, rewound, again, local, dir, owner, signal>>

\* Promotion removes standby.signal.
Promote ==
    /\ pc = "role"
    /\ cur.role = "master"
    /\ dir # "none"
    /\ pg # "down"
    /\ signal
    /\ recovery' = "none"
    /\ signal' = FALSE
    /\ conf' = Parameters
    /\ GoTo("reload")
    /\ UNCHANGED <<cur, rewound, again, local, dir, owner, pg>>

\* Mutant: a running instance is taken for a master.
RunningIsMaster ==
    /\ pc = "role"
    /\ cur.role = "master"
    /\ dir # "none"
    /\ pg # "down"
    /\ recovery' = "none"
    /\ GoTo("reload")
    /\ UNCHANGED <<cur, rewound, again, local, dirVars, pg>>

AlreadyMaster ==
    /\ pc = "role"
    /\ cur.role = "master"
    /\ dir # "none"
    /\ pg # "down"
    /\ ~signal
    /\ recovery' = "none"
    /\ GoTo("reload")
    /\ UNCHANGED <<cur, rewound, again, local, dirVars, pg>>

\* A stopped standby is started; a running one is restarted when its recovery
\* parameters are not the wanted ones.
StartStandby ==
    /\ pc = "role"
    /\ cur.role = "standby"
    /\ dir # "none"
    /\ signal
    /\ \/ /\ pg = "down" \/ recovery # "standby"
          /\ recovery' = "standby"
          /\ pg' = "run"
          /\ conf' = Parameters
       \/ /\ pg # "down" /\ recovery = "standby"
          /\ UNCHANGED <<recovery, pg, conf>>
    /\ GoTo("reload")
    /\ UNCHANGED <<cur, rewound, again, local, dir, owner, signal>>

\* No directory, or "refusing invalid transition from master to standby".
RoleRefused ==
    /\ pc = "role"
    /\ dir = "none" \/ (cur.role = "standby" /\ ~signal)
    /\ Return
    /\ UNCHANGED <<recovery, local, dirVars, pg>>

\* PostgreSQL is reloaded if something changed, and restarted if it has to be
\* and may be.  Errors are only logged.
Reload ==
    /\ pc = "reload"
    /\ conf' \in {conf, Parameters}
    /\ pg' \in (IF pg = "down" THEN {pg} ELSE {pg, "run", "down"})
    /\ GoTo("save")
    /\ UNCHANGED <<cur, recovery, rewound, again, local, dir, owner, signal>>

SaveGeneration ==
    /\ pc = "save"
    /\ local' = [local EXCEPT !.gen = cur.gen, !.initializing = FALSE]
    /\ Return
    /\ UNCHANGED <<recovery, dirVars, pg>>

Step ==
    /\ \/ StopAndWait \/ BeginStep \/ StopPostgres \/ RemoveAll
       \/ ResetLocalState \/ SameUID \/ BeginInitialization
       \/ InvariantBroken
       \/ BeginFill \/ EndFill \/ StartTmpMerged \/ SaveInitParameters
       \/ BeginResync \/ EndRewind \/ BeginCopy \/ EndCopy
       \/ StartResynced \/ CheckRewound
       \/ StartMaster \/ Promote \/ AlreadyMaster \/ StartStandby
       \/ RoleRefused \/ Reload \/ SaveGeneration
    /\ UNCHANGED <<cdVars, info, calm>>

-----------------------------------------------------------------------------
(* What can go wrong.                                                      *)

\* An operation returns an error, which ends the step.  What it had begun may
\* be half done: a removal stops, initdb and the restore command clean up
\* after themselves if they can, an instance that was started may be running
\* although the start or the wait for it failed, a restart gets no further
\* than the stop.
Fail ==
    /\ ~calm
    /\ pc # "idle"
    /\ Return
    /\ CASE pc \in RemovePoint ->
               /\ dir' \in {dir, IF pg = "down" THEN "partial" ELSE dir}
               /\ UNCHANGED <<signal, conf, pg>>
         [] pc = "filling" ->
               /\ dir' \in {"none", "partial"}
               /\ UNCHANGED <<signal, conf, pg>>
         [] pc = "tmp" ->
               /\ pg' \in {pg, "tmp"}
               /\ signal' \in {signal, signal \/ recovery = "standby"}
               /\ UNCHANGED <<dir, conf>>
         [] pc = "syncStart" ->
               /\ pg' \in {pg, "run"}
               /\ conf' \in {conf, Parameters}
               /\ signal' \in {signal, signal \/ recovery = "standby"}
               /\ UNCHANGED dir
         [] pc = "role" /\ dir # "none" ->
               /\ pg' \in (IF pg = "down" THEN {"down", "run"}
                                         ELSE {pg, "down"})
               /\ conf' \in {conf, Parameters}
               /\ UNCHANGED <<dir, signal>>
         [] OTHER -> UNCHANGED <<dir, signal, conf, pg>>
    /\ UNCHANGED <<cdVars, recovery, local, owner, info, calm>>

\* The keeper dies, with PostgreSQL or without it, and is started again.  The
\* commands it was running die with it.
KeeperRestart ==
    /\ ~calm
    /\ Return
    /\ recovery' = "none"
    /\ info' = [info EXCEPT !.boot = FALSE]
    /\ bootKnown' = FALSE
    /\ pg' \in {pg, "down"}
    /\ UNCHANGED <<initMode, phase, lastUID, cd, status, local, dirVars, calm>>

PostgresDies ==
    /\ ~calm
    /\ pg # "down"
    /\ pg' = "down"
    /\ UNCHANGED <<cdVars, stepVars, local, dirVars, info, calm>>

\* From some point on nothing fails.
CalmDown ==
    /\ ~calm
    /\ calm' = TRUE
    /\ UNCHANGED <<cdVars, stepVars, local, dirVars, pg, info>>

Next ==
    \/ UpdateKeepersStatus \/ UpdateCluster
    \/ UpdateKeeperInfo
    \/ Step
    \/ Fail \/ KeeperRestart \/ PostgresDies \/ CalmDown

Spec == Init /\ [][Next]_vars

\* The loops of the keeper are driven by timers, the checks of the sentinel
\* too.  Nothing obliges the sentinel to change the assignment.
FairSpec ==
    /\ Spec
    /\ WF_vars(Step)
    /\ WF_vars(UpdateKeeperInfo) /\ WF_vars(UpdateKeepersStatus)

-----------------------------------------------------------------------------
TypeOK ==
    /\ initMode \in InitModes
    /\ phase \in {"initializing", "normal"}
    /\ lastUID \in UIDs
    /\ cd \in Assignment
    /\ status \in Status
    /\ bootKnown \in BOOLEAN
    /\ pc \in PC
    /\ cur \in Assignment
    /\ recovery \in {"none", "recovery", "standby"}
    /\ rewound \in BOOLEAN /\ again \in BOOLEAN
    /\ local \in [uid: UIDs, gen: Gens, initializing: BOOLEAN, params: BOOLEAN]
    /\ dir \in {"none", "partial", "full"}
    /\ owner \in UIDs
    /\ signal \in BOOLEAN /\ conf \in BOOLEAN
    /\ pg \in {"down", "tmp", "run"}
    /\ info \in [boot: BOOLEAN, state: Report]
    /\ calm \in BOOLEAN

\* The local state never claims data the directory does not have: when it names
\* a database and does not say that it is being initialised, the directory is
\* complete and is the one of that database.  A keeper that is restarted in the
\* middle of initdb, a restore, pg_basebackup or pg_rewind relies on it.
LocalStateTruthful ==
    local.uid # NoUID /\ ~local.initializing =>
        dir = "full" /\ owner = local.uid

\* "local database state invariant" (keeper.go:702): once the sentinel has set
\* the InitMode of a database to none, its keeper has it.  Were it not so the
\* keeper would do nothing with the database for ever.
LocalStateInvariant ==
    cd.uid # NoUID /\ cd.mode = "none" =>
        local.uid = cd.uid /\ ~local.initializing

\* A database that was elected has all its data, on whatever report the
\* election was decided and whatever happened to its keeper since.
ElectedHasData ==
    cd.uid # NoUID /\ cd.role = "master" /\ cd.gen > 1
            /\ phase = "normal" =>
        dir = "full" /\ owner = cd.uid

\* A generation that is saved as applied has its role in force: the instance is
\* a standby exactly if the generation says so.
RoleApplied ==
    cd.uid # NoUID /\ local.uid = cd.uid /\ local.gen = cd.gen =>
        (signal <=> cd.role = "standby")

\* A complete directory is given up only under a local state that says so, and
\* never under a running PostgreSQL.
GivenUpKnowingly ==
    [][dir = "full" /\ dir' # "full" => local.initializing /\ pg = "down"]_vars

\* The data of u are in the directory and the local state says so.
Holds(u) == local.uid = u /\ ~local.initializing

Cleaning == {"cleanStop", "cleanRemove", "cleanSave"}
Touching == {"initRemove", "fill", "filling", "sync", "rewinding", "copyRemove",
             "copy", "copying", "syncStart", "syncWait", "fullStop"}
Adopting == {"initStop", "tmp", "tmpReady", "tmpStop"}
Applying == {"role", "reload", "save"}

\* UIDs grow: the assigned database is the last one, a step works on one that
\* is not older than the local one, and so the last one, once it is there,
\* is not initialised again.
UIDOrder ==
    /\ cd.uid # NoUID => cd.uid = lastUID /\ cd.gen >= 1
    /\ local.uid <= lastUID
    /\ pc # "idle" => cur.uid # NoUID /\ local.uid <= cur.uid /\ cur.uid <= lastUID

\* What the local state says at each point of a step.
StepMarked ==
    /\ pc \in Cleaning \cup Touching => local.initializing /\ cur.mode # "existing"
    /\ pc = "uid" => ~local.initializing
    /\ pc \in Touching \cup Adopting \cup Applying => local.uid = cur.uid
    /\ pc \in Adopting => (local.initializing <=> cur.mode # "existing")
    /\ local.gen # NoGeneration => local.uid # NoUID /\ ~local.initializing

\* What the directory is at each point of a step.
StepData ==
    /\ pc \in {"fill", "copy"} => dir = "none"
    /\ pc \in {"filling", "copying", "rewinding"} => dir = "partial"
    /\ pc = "sync" => pg = "down"
    /\ pc = "rewinding" => rewound
    /\ pc \in {"tmp", "tmpReady"} => owner = cur.uid
    /\ pc \in {"syncStart", "syncWait"} =>
          owner = cur.uid /\ (dir = "full" \/ rewound)
    /\ pc \in Applying \cup {"tmpStop"} => dir = "full" /\ owner = cur.uid

\* The generations the keeper works on and has applied are not ahead of the
\* cluster data, and the role goes with the generation.
GenerationOrder ==
    /\ pc # "idle" /\ cur.uid = cd.uid =>
          cur.gen <= cd.gen /\ (cur.gen = cd.gen => cur.role = cd.role)
    /\ pc # "idle" /\ local.uid = cur.uid => local.gen <= cur.gen
    /\ cd.uid # NoUID /\ local.uid = cd.uid => local.gen <= cd.gen
    /\ pc \in Adopting => local.gen = NoGeneration
    /\ pc \in {"reload", "save"} => (signal <=> cur.role = "standby")

\* A cluster built on an existing directory assigns one database to the keeper
\* until that has converged.
ExistingFirst ==
    /\ cd.mode = "existing" => initMode = "existing" /\ phase = "initializing"
    /\ initMode = "existing" /\ phase = "initializing" =>
          /\ dir = "full" /\ ~local.initializing
          /\ cd.uid # NoUID => cd.mode = "existing"
          /\ pc # "idle" => cur.mode = "existing"
    /\ pc # "idle" /\ cur.mode = "existing" =>
          \/ initMode = "existing" /\ phase = "initializing"
          \/ local.uid = cur.uid

\* A report that the last database is applied stays true.
ReportTruthful(r) ==
    /\ r.uid <= lastUID
    /\ r.gen # NoGeneration => r.uid # NoUID
    /\ r.gen # NoGeneration /\ r.uid = lastUID => Holds(lastUID)

\* What the sentinel was told, and what it concluded, is still true.
ReportsTrue ==
    /\ ReportTruthful(info.state) /\ ReportTruthful(status)
    /\ status.gen # NoGeneration => status.uid = cd.uid
    /\ LocalStateInvariant
    /\ cd.uid # NoUID /\ cd.role = "master" /\ phase = "normal" => Holds(cd.uid)

\* The inductive invariant behind the properties above.
LocalInv ==
    /\ UIDOrder /\ StepMarked /\ StepData /\ ExistingFirst /\ GenerationOrder
    /\ LocalStateTruthful /\ RoleApplied /\ ReportsTrue

\* The points of a resync, which no first database of a cluster goes through.
Resyncing == {"sync", "rewinding", "copyRemove", "copy", "copying", "syncStart",
              "syncWait", "fullStop"}

\* Whatever is assigned asks for the initial parameters; they are in
\* postgresql.conf from the end of initdb or of the restore on, and in the local
\* state once they were saved.
StepParameters ==
    /\ cd.uid # NoUID => cd.includeConfig /\ cd.mode = initMode
    /\ pc # "idle" => cur.includeConfig /\ cur.mode = initMode
    /\ pc \notin Resyncing
    /\ pc \in {"tmp", "tmpReady", "tmpStop"} \cup Applying => conf
    /\ pc \in {"tmpStop"} \cup Applying => local.params
    /\ local.uid # NoUID /\ ~local.initializing => conf /\ local.params

\* It is so until the first database has converged.
ParametersKept ==
    initMode # "existing" /\ phase = "initializing" => StepParameters

\* The same, with what is said of the initial parameters below.
KeeperInv == LocalInv /\ ParametersKept

\* The first database of the cluster, once its generation is saved as applied,
\* runs on the parameters it was initialised with.
ParametersApplied ==
    phase = "initializing" /\ local.gen # NoGeneration => conf

\* The same for the clusters that are not built on an existing directory.
InitParametersApplied == initMode # "existing" => ParametersApplied

\* doc/cluster_spec.md:48: mergePgParameters retains the parameters generated by
\* initdb when InitMode is new, and the current ones when it is existing or
\* pitr.
ParametersRetained == phase = "normal" => cd.merged

\* An instance whose generation is applied does not run on the temporary
\* configuration of the initialisation, which a reload does not change.
NotOnTemporaryConf ==
    cd.uid # NoUID /\ local.uid = cd.uid /\ local.gen = cd.gen => pg # "tmp"

\* Once nothing fails any more the keeper applies what it was last assigned,
\* wherever the failures have left it.
Converges ==
    <>calm => <>[](cd.uid = NoUID \/ (local.uid = cd.uid /\ local.gen = cd.gen))
=============================================================================

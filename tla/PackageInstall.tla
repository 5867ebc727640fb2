--------------------------- MODULE PackageInstall ---------------------------
(***************************************************************************)
(* The install pipeline of @dappnode/installer: packageInstall and         *)
(* packageInstallDev, from the resolution of a request to the clean-up or  *)
(* the rollback, and the calls that touch the same packages meanwhile      *)
(* (packageSetEnvironment, packageRemove).                                 *)
(*                                                                         *)
(* The process is one Node event loop: the code between two awaits is one  *)
(* step.  A command of docker, a download or a file validation is an await *)
(* and the value of pc says which one a request is waiting for.  A request *)
(* is made once; a version of a package is named by the request that       *)
(* writes it, so two requests never write equal files.                     *)
(***************************************************************************)
EXTENDS Naturals, FiniteSets, Functions

CONSTANTS
  Req,        \* calls of packageInstall, made at most once each
  DevReq,     \* those that are calls of packageInstallDev
  Dnp,        \* package names
  PidDnp,     \* packages whose compose has pid: service.x (no --no-start)
  EnvOp,      \* calls of packageSetEnvironment
  RemoveOp,   \* calls of packageRemove
  Faults,     \* the failures that may happen in an instance
  Installed,  \* the version of the packages installed at the start
  None        \* no file, no container, no holder, no user setting

FaultKinds ==
  {"prepare", "validate", "create", "start", "expose", "rollback", "clean",
   "rename", "expire", "crash"}

ASSUME DevReqAssumption == DevReq \subseteq Req
ASSUME DnpAssumption    == IsFiniteSet(Dnp) /\ PidDnp \subseteq Dnp
ASSUME OpAssumption     == /\ EnvOp \cap RemoveOp = {}
                           /\ (EnvOp \cup RemoveOp) \cap Req = {}
ASSUME FaultsAssumption == Faults \subseteq FaultKinds
ASSUME VersionAssumption == Installed \notin Req

VARIABLES
  \* the requests
  pc,             \* the await a request is at, or how it ended
  pkgs,           \* packagesData in the order of orderInstallPackages
  isUpdate,       \* packages listed as installed when r was resolved
  asked,          \* packages whose containersStatus is asked for on its own
  wasStopped,     \* containersStatus: packages whose target status is stopped
  userSet,        \* the user settings read from the compose files
  idx,            \* the package of pkgs the current loop is at
  \* the process
  installing,     \* lastInstallTimestamp: packages flagged and not expired
  upLock,         \* composeUpLocks: the holder, the file it applies, if it
                  \* also starts what it creates and if it is its second up
  \* the disk
  compose, composeBackup, manifest, manifestBackup,
  \* docker
  container,
  \* the other calls
  op, opDnp,
  \* history: the packages that had a compose file when r wrote its own, and
  \* those that were taken down and upped again
  hadCompose, recreated

planVars  == <<pkgs, isUpdate, asked, wasStopped, userSet>>
reqVars   == <<pc, idx, planVars>>
procVars  == <<installing, upLock>>
diskVars  == <<compose, composeBackup, manifest, manifestBackup>>
opVars    == <<op, opDnp>>
history   == <<hadCompose, recreated>>
vars      == <<reqVars, procVars, diskVars, container, opVars, history>>

-----------------------------------------------------------------------------
Op       == EnvOp \cup RemoveOp
Version  == Req \cup {Installed}
\* what the properties tell apart of a compose file: who wrote it and the
\* last edit of the user's environment in it
Content  == [ver : Version, env : EnvOp \cup {None}]
\* a package's containers: what they were created from, and if they run
Container == [from : Content, up : BOOLEAN]
Holder   == [by : Req \cup Op, from : Content, start : BOOLEAN,
             again : BOOLEAN]
\* None is no version, user setting, file, container or holder
ASSUME NoneAssumption ==
  None \notin Version \cup EnvOp \cup Content \cup Container \cup Holder
\* a non-empty list of different packages
Plan     == UNION {Injection(1 .. n, Dnp) : n \in 1 .. Cardinality(Dnp)}

\* ways a request ends: before the flag, at an error of the preparation, of
\* the validation, of the clean-up, after a rollback, with the process, well
Ended    == {"rejected", "aborted", "invalid", "unclean", "rolledBack",
             "crashed", "done"}
\* from flagPackagesAreInstalling to afterInstall
Flagged  == {"prepare", "validate", "create", "start", "starting", "expose",
             "undo", "undoing", "clean"}
\* from the last validated file to the end of runPackages
Running  == {"create", "start", "starting", "expose"}
Phase    == {"idle", "list", "gather", "ask"} \cup Flagged \cup Ended

OpPhase  == {"idle", "env", "envUp", "removing", "done", "failed"}

TypeOK ==
  /\ pc \in [Req -> Phase]
  /\ pkgs \in [Req -> Plan \cup {<<>>}]
  /\ isUpdate \in [Req -> SUBSET Dnp]
  /\ asked \in [Req -> SUBSET Dnp]
  /\ wasStopped \in [Req -> SUBSET Dnp]
  /\ userSet \in [Req -> [Dnp -> EnvOp \cup {None}]]
  /\ idx \in [Req -> Nat \ {0}]
  /\ installing \in SUBSET Dnp
  /\ upLock \in [Dnp -> Holder \cup {None}]
  /\ compose \in [Dnp -> Content \cup {None}]
  /\ composeBackup \in [Dnp -> Content \cup {None}]
  /\ manifest \in [Dnp -> Version \cup {None}]
  /\ manifestBackup \in [Dnp -> Version \cup {None}]
  /\ container \in [Dnp -> Container \cup {None}]
  /\ op \in [Op -> OpPhase]
  /\ opDnp \in [Op -> Dnp \cup {None}]
  /\ hadCompose \in [Req -> SUBSET Dnp]
  /\ recreated \in SUBSET Dnp

-----------------------------------------------------------------------------
\* The package the loop of r is at, and if the loop has another one
Cur(r)  == pkgs[r][idx[r]]
More(r) == idx[r] + 1 \in DOMAIN pkgs[r]

Goto(r, phase) == pc' = [pc EXCEPT ![r] = phase]

\* for (const pkg of packagesData): on to the next package, or out of the loop
Loop(r, next, out) ==
  IF More(r) THEN Goto(r, next) /\ idx' = [idx EXCEPT ![r] = @ + 1]
             ELSE Goto(r, out)  /\ idx' = [idx EXCEPT ![r] = 1]

\* Leave a flagged phase: afterInstall unflags every package of the request
AfterInstall(r, end) ==
  /\ Goto(r, end)
  /\ installing' = installing \ Range(pkgs[r])
  /\ idx' = [idx EXCEPT ![r] = 1]

\* Nothing runs, and no backup was made.
Fresh ==
  /\ pkgs = [r \in Req |-> <<>>]
  /\ isUpdate = [r \in Req |-> {}]
  /\ asked = [r \in Req |-> {}]
  /\ wasStopped = [r \in Req |-> {}]
  /\ userSet = [r \in Req |-> [d \in Dnp |-> None]]
  /\ idx = [r \in Req |-> 1]
  /\ installing = {}
  /\ upLock = [d \in Dnp |-> None]
  /\ LET old == [ver |-> Installed, env |-> None] IN
     \E present \in SUBSET Dnp : \E up \in SUBSET present :
       /\ compose = [d \in Dnp |-> IF d \in present THEN old ELSE None]
       /\ manifest = [d \in Dnp |-> IF d \in present THEN Installed ELSE None]
       /\ container = [d \in Dnp |->
            IF d \in present THEN [from |-> old, up |-> d \in up] ELSE None]
  /\ composeBackup = [d \in Dnp |-> None]
  /\ manifestBackup = [d \in Dnp |-> None]
  /\ opDnp = [o \in Op |-> None]
  /\ hadCompose = [r \in Req |-> {}]
  /\ recreated = {}

Init ==
  /\ Fresh
  /\ pc = [r \in Req |-> "idle"]
  /\ op = [o \in Op |-> "idle"]

-----------------------------------------------------------------------------
(***************************************************************************)
(* Resolution.                                                             *)
(***************************************************************************)

\* packageInstall: getReleasesResolved lists the installed packages and
\* answers with the packages to install.
Resolve(r) ==
  /\ r \notin DevReq
  /\ pc[r] = "idle"
  /\ \E plan \in Plan :
       /\ pkgs' = [pkgs EXCEPT ![r] = plan]
       /\ isUpdate' = [isUpdate EXCEPT ![r] =
                         {d \in Range(plan) : container[d] # None}]
  /\ Goto(r, "gather")
  /\ UNCHANGED <<asked, wasStopped, userSet, idx, procVars, diskVars,
                 container, opVars, history>>

\* packageInstallDev looks at the flag of its one package first ...
DevCheck(r) ==
  /\ r \in DevReq
  /\ pc[r] = "idle"
  /\ \E d \in Dnp :
       /\ pkgs' = [pkgs EXCEPT ![r] = [i \in 1 .. 1 |-> d]]
       /\ Goto(r, IF d \in installing THEN "rejected" ELSE "list")
  /\ UNCHANGED <<isUpdate, asked, wasStopped, userSet, idx, procVars,
                 diskVars, container, opVars, history>>

\* ... and only then awaits the list of the installed packages.
DevList(r) ==
  /\ pc[r] = "list"
  /\ isUpdate' = [isUpdate EXCEPT ![r] =
                    {d \in Range(pkgs[r]) : container[d] # None}]
  /\ Goto(r, "gather")
  /\ UNCHANGED <<pkgs, asked, wasStopped, userSet, idx, procVars, diskVars,
                 container, opVars, history>>

\* A release is refused: not signed, from a foreign registry, or it asks for
\* a newer host.
Refuse(r) ==
  /\ "prepare" \in Faults
  /\ pc[r] = "gather"
  /\ Goto(r, "rejected")
  /\ UNCHANGED <<planVars, idx, procVars, diskVars, container, opVars,
                 history>>

\* getInstallerPackagesData for the packages of S: the target status of their
\* containers and the user settings in their compose files on disk
Snapshot(r, S) ==
  /\ wasStopped' = [wasStopped EXCEPT ![r] =
       @ \cup {d \in S : container[d] # None /\ ~container[d].up}]
  /\ userSet' = [userSet EXCEPT ![r] = [d \in Dnp |->
       IF d \in S /\ compose[d] # None THEN compose[d].env ELSE @[d]]]

\* The packages in the list of containers are read in the step that gets it;
\* for the others docker is asked once more.
Unlisted(r) == {d \in Range(pkgs[r]) : container[d] = None}

Gather(r) ==
  /\ pc[r] = "gather"
  /\ Unlisted(r) # {}
  /\ Snapshot(r, Range(pkgs[r]) \ Unlisted(r))
  /\ asked' = [asked EXCEPT ![r] = Unlisted(r)]
  /\ Goto(r, "ask")
  /\ UNCHANGED <<pkgs, isUpdate, idx, procVars, diskVars, container, opVars,
                 history>>

\* The last answer: the flags are checked and set in the step that reads it.
Gathered(r) ==
  \/ pc[r] = "gather" /\ Unlisted(r) = {} /\ Snapshot(r, Range(pkgs[r]))
  \/ pc[r] = "ask" /\ Snapshot(r, asked[r])

\* Mutant of Flag: the flags are set without a look at them.
FlagUnchecked(r) ==
  /\ Gathered(r)
  /\ installing' = installing \cup Range(pkgs[r])
  /\ Goto(r, "prepare")
  /\ UNCHANGED <<pkgs, isUpdate, asked, idx, upLock, diskVars, container,
                 opVars, history>>

\* Mutant of Flag: only the first package is looked at.
FlagFirstChecked(r) ==
  /\ Gathered(r)
  /\ r \in DevReq \/ pkgs[r][1] \notin installing
  /\ installing' = installing \cup Range(pkgs[r])
  /\ Goto(r, "prepare")
  /\ UNCHANGED <<pkgs, isUpdate, asked, idx, upLock, diskVars, container,
                 opVars, history>>

\* Flag all the packages if none is flagged; packageInstallDev does not look
\* again.
Flag(r) ==
  /\ Gathered(r)
  /\ r \in DevReq \/ Range(pkgs[r]) \cap installing = {}
  /\ installing' = installing \cup Range(pkgs[r])
  /\ Goto(r, "prepare")
  /\ UNCHANGED <<pkgs, isUpdate, asked, idx, upLock, diskVars, container,
                 opVars, history>>

Reject(r) ==
  /\ Gathered(r)
  /\ r \notin DevReq
  /\ Range(pkgs[r]) \cap installing # {}
  /\ Goto(r, "rejected")
  /\ UNCHANGED <<pkgs, isUpdate, asked, idx, procVars, diskVars, container,
                 opVars, history>>

-----------------------------------------------------------------------------
(***************************************************************************)
(* Download, load, write and validate.                                     *)
(***************************************************************************)

\* Mutant of WriteCompose: the file is written before it is backed up.
WriteThenBackUp(r, d) ==
  LET new == [ver |-> r, env |-> userSet[r][d]] IN
  /\ compose' = [compose EXCEPT ![d] = new]
  /\ composeBackup' = [composeBackup EXCEPT ![d] = new]
  /\ hadCompose' = IF compose[d] = None THEN hadCompose
                   ELSE [hadCompose EXCEPT ![r] = @ \cup {d}]

\* copyIfExists(compose, backup) and the write of the new compose of d
WriteCompose(r, d) ==
  /\ compose' = [compose EXCEPT ![d] = [ver |-> r, env |-> userSet[r][d]]]
  /\ composeBackup' = IF compose[d] = None THEN composeBackup
                      ELSE [composeBackup EXCEPT ![d] = compose[d]]
  /\ hadCompose' = IF compose[d] = None THEN hadCompose
                   ELSE [hadCompose EXCEPT ![r] = @ \cup {d}]

\* The images are downloaded and loaded: the first compose file is written.
Prepare(r) ==
  /\ pc[r] = "prepare"
  /\ Goto(r, "validate")
  /\ WriteCompose(r, Cur(r))
  /\ UNCHANGED <<planVars, idx, procVars, manifest, manifestBackup, container,
                 opVars, recreated>>

\* Mutant of PrepareFails: no afterInstall on an error.
PrepareFailsFlagged(r) ==
  /\ "prepare" \in Faults
  /\ pc[r] = "prepare"
  /\ Goto(r, "aborted")
  /\ UNCHANGED <<planVars, idx, procVars, diskVars, container, opVars,
                 history>>

PrepareFails(r) ==
  /\ "prepare" \in Faults
  /\ pc[r] = "prepare"
  /\ AfterInstall(r, "aborted")
  /\ UNCHANGED <<planVars, upLock, diskVars, container, opVars, history>>

\* docker compose config accepted the file: the manifest of this package and
\* the compose file of the next one are written in the same step.
Validate(r) ==
  /\ pc[r] = "validate"
  /\ compose[Cur(r)] # None
  /\ LET d == Cur(r) IN
     /\ manifest' = [manifest EXCEPT ![d] = r]
     /\ manifestBackup' = IF manifest[d] = None THEN manifestBackup
                          ELSE [manifestBackup EXCEPT ![d] = manifest[d]]
  /\ Loop(r, "validate", "create")
  /\ IF More(r) THEN WriteCompose(r, pkgs[r][idx[r] + 1])
                ELSE UNCHANGED <<compose, composeBackup, hadCompose>>
  /\ UNCHANGED <<planVars, procVars, container, opVars, recreated>>

\* It did not, or the file was removed: the install ends with no rollback.
ValidateFails(r) ==
  /\ pc[r] = "validate"
  /\ "validate" \in Faults \/ compose[Cur(r)] = None
  /\ AfterInstall(r, "invalid")
  /\ UNCHANGED <<planVars, upLock, diskVars, container, opVars, history>>

-----------------------------------------------------------------------------
(***************************************************************************)
(* runPackages, one package after the other.                               *)
(***************************************************************************)

\* The effect of docker compose up of the file f on the container c: it is
\* created again if the file changed, and started if asked.
Upped(f, c, start) ==
  IF c # None /\ c.from = f THEN [from |-> f, up |-> c.up \/ start]
                            ELSE [from |-> f, up |-> start]

\* A failed command leaves the old container, or the old or a new one that
\* does not run, or none.
HalfUpped(f, c) == {c, None, [from |-> f, up |-> FALSE]} \cup
                   (IF c = None THEN {} ELSE {[c EXCEPT !.up = FALSE]})

\* Mutant of Restored: a file that exists is not overwritten.
RestoredIfMissing(file, backup, r) ==
  [d \in Dnp |-> IF d \in Range(pkgs[r]) /\ file[d] = None
                   THEN backup[d] ELSE file[d]]

\* An error in runPackages: rollbackPackages restores every file first.
Restored(file, backup, r) ==
  [d \in Dnp |-> IF d \in Range(pkgs[r]) /\ backup[d] # None
                   THEN backup[d] ELSE file[d]]
Consumed(backup, r) ==
  [d \in Dnp |-> IF d \in Range(pkgs[r]) THEN None ELSE backup[d]]

\* Mutant of RollbackFiles: the manifest from the backup of the compose.
RollbackFilesSwapped(r) ==
  /\ Goto(r, "undo")
  /\ idx' = [idx EXCEPT ![r] = 1]
  /\ compose' = Restored(compose, composeBackup, r)
  /\ composeBackup' = Consumed(composeBackup, r)
  /\ manifest' = Restored(manifest, composeBackup, r)
  /\ manifestBackup' = Consumed(manifestBackup, r)

\* Mutant of RollbackFiles: the containers from the failed package on.
RollbackFilesFromCur(r) ==
  /\ Goto(r, "undo")
  /\ compose' = Restored(compose, composeBackup, r)
  /\ composeBackup' = Consumed(composeBackup, r)
  /\ manifest' = Restored(manifest, manifestBackup, r)
  /\ manifestBackup' = Consumed(manifestBackup, r)
  /\ UNCHANGED idx

RollbackFiles(r) ==
  /\ Goto(r, "undo")
  /\ idx' = [idx EXCEPT ![r] = 1]
  /\ compose' = Restored(compose, composeBackup, r)
  /\ composeBackup' = Consumed(composeBackup, r)
  /\ manifest' = Restored(manifest, manifestBackup, r)
  /\ manifestBackup' = Consumed(manifestBackup, r)

\* docker compose up --no-start, which takes no lock
Create(r) ==
  /\ pc[r] = "create"
  /\ LET d == Cur(r) IN
     /\ compose[d] # None
     /\ container' = [container EXCEPT ![d] =
                        Upped(compose[d], @, d \in PidDnp)]
  /\ Goto(r, "start")
  /\ UNCHANGED <<planVars, idx, procVars, diskVars, opVars, history>>

\* It fails, or the copy of the file uploads does.
CreateFails(r) ==
  /\ pc[r] = "create"
  /\ LET d == Cur(r) IN
     IF compose[d] = None THEN UNCHANGED container
     ELSE /\ "create" \in Faults
          /\ \E c \in HalfUpped(compose[d], container[d]) :
               container' = [container EXCEPT ![d] = c]
  /\ RollbackFiles(r)
  /\ UNCHANGED <<planVars, procVars, opVars, history>>

\* dockerComposeUpPackage throws if the compose file is missing or locked.
CanLock(d)  == compose[d] # None /\ upLock[d] = None
Lock(d, who, start) ==
  upLock' = [upLock EXCEPT ![d] =
               [by |-> who, from |-> compose[d], start |-> start,
                again |-> FALSE]]
Unlock(d)   == upLock' = [upLock EXCEPT ![d] = None]

\* The up under the lock stumbles over a container renamed to its own name:
\* everything is taken down and upped again with the file that is there then,
\* the services that were stopped too.  This ends as the first up does.
Recreate(d) ==
  /\ "rename" \in Faults
  /\ upLock[d] # None /\ ~upLock[d].again
  /\ container[d] # None
  /\ compose[d] # None
  /\ container' = [container EXCEPT ![d] = None]
  /\ upLock' = [upLock EXCEPT ![d].from = compose[d], ![d].start = TRUE,
                              ![d].again = TRUE]
  /\ recreated' = recreated \cup {d}
  /\ UNCHANGED <<reqVars, installing, diskVars, opVars, hadCompose>>

\* Mutant of StartLock: everything is started.
StartLockAll(r) ==
  /\ pc[r] = "start"
  /\ CanLock(Cur(r))
  /\ Lock(Cur(r), r, TRUE)
  /\ Goto(r, "starting")
  /\ UNCHANGED <<planVars, idx, installing, diskVars, container, opVars,
                 history>>

\* Mutant of StartLock: the status is read after the containers were created.
StartLockReread(r) ==
  /\ pc[r] = "start"
  /\ CanLock(Cur(r))
  /\ Lock(Cur(r), r, container[Cur(r)] # None /\ container[Cur(r)].up)
  /\ Goto(r, "starting")
  /\ UNCHANGED <<planVars, idx, installing, diskVars, container, opVars,
                 history>>

StartLock(r) ==
  /\ pc[r] = "start"
  /\ CanLock(Cur(r))
  /\ Lock(Cur(r), r, Cur(r) \notin wasStopped[r])
  /\ Goto(r, "starting")
  /\ UNCHANGED <<planVars, idx, installing, diskVars, container, opVars,
                 history>>

StartThrows(r) ==
  /\ pc[r] = "start"
  /\ ~CanLock(Cur(r))
  /\ RollbackFiles(r)
  /\ UNCHANGED <<planVars, procVars, container, opVars, history>>

\* docker compose up: services that were stopped are created, not started.
\* docker reads the file as the command starts, here with the lock.
Start(r) ==
  /\ pc[r] = "starting"
  /\ LET d == Cur(r) IN
     /\ container' = [container EXCEPT ![d] =
                        Upped(upLock[d].from, @, upLock[d].start)]
     /\ Unlock(d)
  /\ Goto(r, "expose")
  /\ UNCHANGED <<planVars, idx, installing, diskVars, opVars, history>>

\* Mutant of StartFails: the lock is not removed in a finally.
StartFailsLocked(r) ==
  /\ "start" \in Faults
  /\ pc[r] = "starting"
  /\ \E c \in HalfUpped(upLock[Cur(r)].from, container[Cur(r)]) :
       container' = [container EXCEPT ![Cur(r)] = c]
  /\ RollbackFiles(r)
  /\ UNCHANGED <<planVars, procVars, opVars, history>>

StartFails(r) ==
  /\ "start" \in Faults
  /\ pc[r] = "starting"
  /\ LET d == Cur(r) IN
     /\ \E c \in HalfUpped(upLock[d].from, container[d]) :
          container' = [container EXCEPT ![d] = c]
     /\ Unlock(d)
  /\ RollbackFiles(r)
  /\ UNCHANGED <<planVars, installing, opVars, history>>

\* httpsPortal connects the package and exposes its ports; on to the next
\* package, or to the clean-up.
Expose(r) ==
  /\ pc[r] = "expose"
  /\ Loop(r, "create", "clean")
  /\ UNCHANGED <<planVars, procVars, diskVars, container, opVars, history>>

ExposeFails(r) ==
  /\ "expose" \in Faults
  /\ pc[r] = "expose"
  /\ RollbackFiles(r)
  /\ UNCHANGED <<planVars, procVars, container, opVars, history>>

-----------------------------------------------------------------------------
(***************************************************************************)
(* The rest of rollbackPackages: the containers, one after the other.      *)
(***************************************************************************)

\* The last package of the loop is followed by afterInstall.
UndoNext(r) ==
  IF More(r) THEN /\ Goto(r, "undo")
                  /\ idx' = [idx EXCEPT ![r] = @ + 1]
                  /\ UNCHANGED installing
             ELSE AfterInstall(r, "rolledBack")

\* An update is upped again with the previous compose ...
UndoLock(r) ==
  /\ pc[r] = "undo"
  /\ Cur(r) \in isUpdate[r]
  /\ CanLock(Cur(r))
  /\ Lock(Cur(r), r, Cur(r) \notin wasStopped[r])
  /\ Goto(r, "undoing")
  /\ UNCHANGED <<planVars, idx, installing, diskVars, container, opVars,
                 history>>

\* ... and an error is only logged.
UndoThrows(r) ==
  /\ pc[r] = "undo"
  /\ Cur(r) \in isUpdate[r]
  /\ ~CanLock(Cur(r))
  /\ UndoNext(r)
  /\ UNCHANGED <<planVars, upLock, diskVars, container, opVars, history>>

Undo(r) ==
  /\ pc[r] = "undoing"
  /\ LET d == Cur(r)
         f == upLock[d].from IN
     /\ \E c \in {Upped(f, container[d], upLock[d].start)} \cup
                 (IF "rollback" \in Faults THEN HalfUpped(f, container[d])
                                          ELSE {}) :
          container' = [container EXCEPT ![d] = c]
     /\ Unlock(d)
  /\ UndoNext(r)
  /\ UNCHANGED <<planVars, diskVars, opVars, history>>

\* Mutant of UndoRemove: updates are removed too.
UndoRemoveAny(r) ==
  /\ pc[r] = "undo"
  /\ container' = [container EXCEPT ![Cur(r)] = None]
  /\ UndoNext(r)
  /\ UNCHANGED <<planVars, upLock, diskVars, opVars, history>>

\* A package that was not listed when the request was resolved is removed:
\* docker compose rm, which needs the compose file.
UndoRemove(r) ==
  /\ pc[r] = "undo"
  /\ Cur(r) \notin isUpdate[r]
  /\ LET d == Cur(r) IN
     \E c \in (IF compose[d] # None THEN {None} ELSE {container[d]}) \cup
              (IF "rollback" \in Faults THEN {container[d]} ELSE {}) :
       container' = [container EXCEPT ![d] = c]
  /\ UndoNext(r)
  /\ UNCHANGED <<planVars, upLock, diskVars, opVars, history>>

-----------------------------------------------------------------------------
(***************************************************************************)
(* postInstallClean: the backups of a package are removed.                 *)
(***************************************************************************)
Clean(r) ==
  /\ pc[r] = "clean"
  /\ compose[Cur(r)] # None
  /\ LET d == Cur(r) IN
     /\ composeBackup' = [composeBackup EXCEPT ![d] = None]
     /\ manifestBackup' = [manifestBackup EXCEPT ![d] = None]
  /\ IF More(r) THEN /\ Goto(r, "clean")
                     /\ idx' = [idx EXCEPT ![r] = @ + 1]
                     /\ UNCHANGED installing
                ELSE AfterInstall(r, "done")
  /\ UNCHANGED <<planVars, upLock, compose, manifest, container, opVars,
                 history>>

\* readdirSync or an unlink throws: the folder is gone, or the disk fails
\* before, between or after the two backups.
CleanFails(r) ==
  /\ pc[r] = "clean"
  /\ "clean" \in Faults \/ compose[Cur(r)] = None
  /\ \E gone \in {<<{}, {}>>, <<{Cur(r)}, {}>>, <<{Cur(r)}, {Cur(r)}>>} :
       /\ composeBackup' = [d \in Dnp |->
            IF d \in gone[1] THEN None ELSE composeBackup[d]]
       /\ manifestBackup' = [d \in Dnp |->
            IF d \in gone[2] THEN None ELSE manifestBackup[d]]
  /\ AfterInstall(r, "unclean")
  /\ UNCHANGED <<planVars, upLock, compose, manifest, container, opVars,
                 history>>

-----------------------------------------------------------------------------
(***************************************************************************)
(* The calls that work on an installed package and do not look at the      *)
(* installing flag.                                                        *)
(***************************************************************************)

\* packageSetEnvironment edits the compose file in place ...
SetEnvironment(o) ==
  /\ o \in EnvOp
  /\ op[o] = "idle"
  /\ \E d \in Dnp :
       /\ container[d] # None
       /\ compose[d] # None
       /\ compose' = [compose EXCEPT ![d].env = o]
       /\ opDnp' = [opDnp EXCEPT ![o] = d]
  /\ op' = [op EXCEPT ![o] = "env"]
  /\ UNCHANGED <<reqVars, procVars, composeBackup, manifest, manifestBackup,
                 container, history>>

\* ... then ups the package under the lock, or throws.  A stopped package is
\* created again and stays stopped.
SetEnvironmentUp(o) ==
  /\ op[o] = "env"
  /\ LET d == opDnp[o]
         c == container[d] IN
     IF CanLock(d)
       THEN Lock(d, o, c = None \/ c.up) /\ op' = [op EXCEPT ![o] = "envUp"]
       ELSE UNCHANGED upLock /\ op' = [op EXCEPT ![o] = "failed"]
  /\ UNCHANGED <<reqVars, installing, diskVars, container, opDnp, history>>

SetEnvironmentDone(o) ==
  /\ op[o] = "envUp"
  /\ LET d == opDnp[o] IN
     /\ container' = [container EXCEPT ![d] =
                        Upped(upLock[d].from, @, upLock[d].start)]
     /\ Unlock(d)
  /\ op' = [op EXCEPT ![o] = "done"]
  /\ UNCHANGED <<reqVars, installing, diskVars, opDnp, history>>

SetEnvironmentFails(o) ==
  /\ "start" \in Faults
  /\ op[o] = "envUp"
  /\ LET d == opDnp[o] IN
     /\ \E c \in HalfUpped(upLock[d].from, container[d]) :
          container' = [container EXCEPT ![d] = c]
     /\ Unlock(d)
  /\ op' = [op EXCEPT ![o] = "failed"]
  /\ UNCHANGED <<reqVars, installing, diskVars, opDnp, history>>

\* packageRemove: docker compose down, then rm -r of the package's folder
Remove(o) ==
  /\ o \in RemoveOp
  /\ op[o] = "idle"
  /\ \E d \in Dnp :
       /\ container[d] # None
       /\ container' = [container EXCEPT ![d] = None]
       /\ opDnp' = [opDnp EXCEPT ![o] = d]
  /\ op' = [op EXCEPT ![o] = "removing"]
  /\ UNCHANGED <<reqVars, procVars, diskVars, history>>

RemoveFiles(o) ==
  /\ op[o] = "removing"
  /\ compose' = [compose EXCEPT ![opDnp[o]] = None]
  /\ composeBackup' = [composeBackup EXCEPT ![opDnp[o]] = None]
  /\ manifest' = [manifest EXCEPT ![opDnp[o]] = None]
  /\ manifestBackup' = [manifestBackup EXCEPT ![opDnp[o]] = None]
  /\ op' = [op EXCEPT ![o] = "done"]
  /\ UNCHANGED <<reqVars, procVars, container, opDnp, history>>

-----------------------------------------------------------------------------
(***************************************************************************)
(* Time and the process.                                                   *)
(***************************************************************************)

\* Five minutes after it was set a flag no longer counts.
FlagExpires ==
  /\ "expire" \in Faults
  /\ \E d \in installing : installing' = installing \ {d}
  /\ UNCHANGED <<reqVars, upLock, diskVars, container, opVars, history>>

\* The process restarts: its memory is lost, disk and docker stay.
Crash ==
  /\ "crash" \in Faults
  /\ \E r \in Req : pc[r] \notin Ended \cup {"idle"}
  /\ pc' = [r \in Req |-> IF pc[r] \in Ended \cup {"idle"} THEN pc[r]
                                                          ELSE "crashed"]
  /\ idx' = [r \in Req |-> 1]
  /\ installing' = {}
  /\ upLock' = [d \in Dnp |-> None]
  /\ op' = [o \in Op |-> IF op[o] \in {"idle", "done"} THEN op[o] ELSE "failed"]
  /\ UNCHANGED <<planVars, diskVars, container, opDnp, history>>

Install(r) ==
  \/ Resolve(r)    \/ DevCheck(r)      \/ DevList(r)   \/ Refuse(r)
  \/ Gather(r)     \/ Flag(r)          \/ Reject(r)
  \/ Prepare(r)    \/ PrepareFails(r)
  \/ Validate(r)   \/ ValidateFails(r)
  \/ Create(r)     \/ CreateFails(r)
  \/ StartLock(r)  \/ StartThrows(r)   \/ Start(r)     \/ StartFails(r)
  \/ Expose(r)     \/ ExposeFails(r)
  \/ UndoLock(r)   \/ UndoThrows(r)    \/ Undo(r)      \/ UndoRemove(r)
  \/ Clean(r)      \/ CleanFails(r)

Call(o) ==
  \/ SetEnvironment(o) \/ SetEnvironmentUp(o) \/ SetEnvironmentDone(o)
  \/ SetEnvironmentFails(o) \/ Remove(o) \/ RemoveFiles(o)

\* Every request has ended and every call was answered.
Quiet == /\ \A r \in Req : pc[r] \in Ended
         /\ \A o \in Op : op[o] \in {"idle", "done", "failed"}

Next ==
  \/ \E r \in Req : Install(r)
  \/ \E o \in Op : Call(o)
  \/ \E d \in Dnp : Recreate(d)
  \/ FlagExpires
  \/ Crash

Spec == Init /\ [][Next]_vars

\* An await ends: docker answers, and so do downloads, by their own timeouts.
\* Whether a request or a call is made at all is the user's choice.
Fairness ==
  /\ \A r \in Req : WF_vars(pc[r] # "idle" /\ Install(r))
  /\ \A o \in Op : WF_vars(op[o] # "idle" /\ Call(o))

FairSpec == Spec /\ Fairness

-----------------------------------------------------------------------------
(***************************************************************************)
(* Safety.                                                                 *)
(***************************************************************************)

\* Two requests that have flagged their packages never work on the same
\* package: the check of the flags and their setting are one step, and every
\* way out of an install unflags (packageInstall.ts, 82-108).
NoDoubleInstall ==
  \A r, q \in Req :
    r # q /\ pc[r] \in Flagged /\ pc[q] \in Flagged
      => Range(pkgs[r]) \cap Range(pkgs[q]) = {}

\* While runPackages may still fail, the backup of every package that had a
\* compose file is there and is not the file being installed, however many
\* installs failed, crashed or left their backups behind before
\* (writeAndValidateFiles.ts, 24; postInstallClean.ts, 20-22).
BackupSound ==
  \A r \in Req : pc[r] \in Running =>
    \A d \in hadCompose[r] :
      compose[d] # None => composeBackup[d] # None /\ composeBackup[d].ver # r

\* After a rollback no package that had a compose file keeps the one of the
\* failed request, in use or as a backup (rollbackPackages.ts, 17-30).
RollbackRestores ==
  \A r \in Req : pc[r] \in {"undo", "undoing", "rolledBack"} =>
    \A d \in hadCompose[r] :
      /\ compose[d] # None => compose[d].ver # r
      /\ composeBackup[d] # None => composeBackup[d].ver # r

\* The lock of a compose file is held by a call that is still waiting for
\* docker on that package: no failure, rollback or error leaves it behind, or
\* the package could not be upped until a restart (dockerComposeUp.ts, 107-112).
LockNotLeaked ==
  \A d \in Dnp : upLock[d] # None =>
    LET who == upLock[d].by IN
    IF who \in Req THEN pc[who] \in {"starting", "undoing"} /\ Cur(who) = d
                   ELSE op[who] = "envUp" /\ opDnp[who] = d

\* When everything has ended, each package runs what its compose file says.
QuietConsistent ==
  Quiet => \A d \in Dnp :
    container[d] # None => compose[d] # None /\ container[d].from = compose[d]

\* When everything has ended, the updates of a rolled back request are there
\* with an earlier version (rollbackPackages.ts, 10-15), unless a request that
\* took the package for a new one rolled back too and removed it.
RollbackUpsPrevious ==
  Quiet => \A r \in Req : pc[r] = "rolledBack" =>
    \A d \in Range(pkgs[r]) \cap isUpdate[r] :
      \/ container[d] # None /\ container[d].from.ver # r
      \/ \E q \in Req : /\ pc[q] = "rolledBack"
                        /\ d \in Range(pkgs[q]) \ isUpdate[q]

\* A package that runs is not left stopped by installs and rollbacks: if one
\* that got to it ended and it is there but down, some request found it down,
\* which is where the user stopped it or where another request had created it
\* and not yet started it (dockerComposeUp.ts, 66-69 and 153-166).
RunningRunsAgain ==
  Quiet => \A d \in Dnp :
    container[d] # None /\ ~container[d].up =>
      \A r \in Req : pc[r] \in {"done", "rolledBack"} /\ d \in Range(pkgs[r]) =>
        \E q \in Req : pc[q] # "rejected" /\ d \in wasStopped[q]

\* A package that a finished install left running or stopped is still there
\* (rollbackPackages.ts, 65: only packages NOT installed before are removed).
DoneStaysInstalled ==
  Quiet => \A r \in Req : pc[r] = "done" =>
    \A d \in Range(pkgs[r]) : container[d] # None

-----------------------------------------------------------------------------
(***************************************************************************)
(* Over time.                                                              *)
(***************************************************************************)

IsUp(d) == container[d] # None /\ container[d].up

\* Installs and rollbacks start a package that the user stopped only where they
\* take it down first because docker fails to rename its container, also when
\* they overlap (dockerComposeUp.ts, 22: prevents starting stopped containers;
\* 94-100: the exception).
StoppedStaysStopped ==
  \A d \in Dnp \ PidDnp :
    container[d] # None /\ ~IsUp(d) => [](IsUp(d) => d \in recreated)

\* A flag does not stay: whatever fails, the package can be installed again
\* (afterInstall.ts, 21-22).
EventuallyUnflagged ==
  \A d \in Dnp : d \in installing ~> d \notin installing

\* The packages a request holds, from its flag to its afterInstall
heldBy == [r \in Req |-> IF pc[r] \in Flagged THEN Range(pkgs[r]) ELSE {}]

Guard == INSTANCE InstallGuard WITH held <- heldBy

\* The pipeline implements the all-or-nothing reservation of InstallGuard.
ImplementsGuard == Guard!Spec
=============================================================================

----------------------------- MODULE CoreUpdate -----------------------------
(***************************************************************************)
(* The restart patch of @dappnode/installer: how an update of the core     *)
(* replaces the process that runs it.  The process leaves a record in the  *)
(* database and starts a second container, whose script ups the new        *)
(* dappmanager, or the previous one if that fails; the process that starts *)
(* then (postRestartPatch) reads the exit code of that container and       *)
(* finishes the update or rolls it back.  Plain restarts of the            *)
(* dappmanager use the same script without a record.                       *)
(*                                                                         *)
(* The update that is the k-th to be tried installs version k of every     *)
(* package of the core.  What packageInstall does before the dappmanager's *)
(* turn has its steps in PackageInstall.                                   *)
(***************************************************************************)
EXTENDS Naturals

CONSTANTS
  Pkg,         \* packages of the core other than the dappmanager
  DM,          \* dappmanager.dnp.dappnode.eth
  MaxVersion,  \* bound: updates of the core that are ever tried
  MaxRestart,  \* bound: plain restarts
  MaxReboot,   \* bound: restarts of the host
  Faults,      \* what may fail: "up" before the old container is stopped,
               \*   "start" after that, "launch", "remove"; "frozen": a wait for
               \*   the restart container gives up; "inspect": docker does
               \*   not answer one; "slow": the wait of postRestartPatch
               \*   gives up; "overlap": an update while postRestartPatch is
               \*   still at the one before
  None         \* no version

All     == Pkg \cup {DM}
Version == 0..MaxVersion
Call    == {"update", "restart"}

ASSUME NameAssumption  == DM \notin Pkg /\ None \notin Nat
ASSUME BoundAssumption == {MaxVersion, MaxRestart, MaxReboot} \subseteq Nat
ASSUME FaultAssumption ==
  Faults \subseteq {"up", "start", "launch", "remove", "frozen", "inspect",
                    "slow", "overlap"}

VARIABLES
  \* files and database
  file,      \* the version of the compose file of a package
  backup,    \* the version of its backup, or None
  record,    \* coreUpdatePackagesData: the version of the update, or None
  \* docker
  cont,      \* the version the containers of a package were created from
  alive,     \* the container of the dappmanager runs, and with it the process
  box,       \* the restart container
  script,    \* where its script is
  code,      \* its exit code (0 while it runs)
  owner,     \* the call that launched it
  \* the process
  pc,        \* the await each call of restartDappmanagerPatch is at
  flagged,   \* the packages of the core are flagged as installing
  post,      \* the await postRestartPatch is at
  seen,      \* the exit code it read
  undo,      \* packages a roll back has still to up, per roll back
  cleaning,  \* packages postInstallClean has not come to, per caller
  \* history, and bounds
  missed,    \* postRestartPatch once ended in an error of docker
  tried, restarts, reboots

diskVars   == <<file, backup, record>>
dockerVars == <<cont, alive, box, script, code, owner>>
postVars   == <<post, seen>>
procVars   == <<pc, flagged, postVars, undo, cleaning>>
counters   == <<tried, restarts, reboots, missed>>
vars       == <<diskVars, dockerVars, procVars, counters>>

\* Who rolls back or cleans: the call of packageInstall that made the update,
\* which awaits it, or postRestartPatch, which does not.
Worker == {"update", "post"}
NoWork == [w \in Worker |-> {}]

(* A process that starts: its memory is empty and it calls postRestartPatch. *)
FreshProcess ==
  /\ pc' = [c \in Call |-> "idle"]
  /\ flagged' = FALSE
  /\ post' = "wait" /\ seen' = 0
  /\ undo' = NoWork /\ cleaning' = NoWork

TypeOK ==
  /\ file \in [All -> Version] /\ cont \in [All -> Version]
  /\ backup \in [All -> Version \cup {None}]
  /\ record \in Version \cup {None}
  /\ alive \in BOOLEAN /\ flagged \in BOOLEAN
  /\ box \in {"none", "running", "exited"}
  /\ script \in {"idle", "up", "start", "fallback", "failed", "exit"}
  /\ code \in {0, 1} /\ seen \in {0, 1}
  /\ owner \in Call
  /\ pc \in [Call -> {"idle", "run", "wait", "remove", "shell", "attached",
                      "undo", "clean"}]
  /\ post \in {"wait", "decide", "notify", "remove", "done"}
  /\ undo \in [Worker -> SUBSET Pkg]
  /\ cleaning \in [Worker -> SUBSET All]
  /\ tried \in Version /\ restarts \in 0..MaxRestart
  /\ reboots \in 0..MaxReboot /\ missed \in BOOLEAN

Init ==
  /\ file = [p \in All |-> 0] /\ cont = [p \in All |-> 0]
  /\ backup = [p \in All |-> None]
  /\ record = None
  /\ alive = TRUE /\ flagged = FALSE
  /\ box = "none" /\ script = "idle" /\ code = 0 /\ owner = "restart"
  /\ pc = [c \in Call |-> "idle"]
  /\ post = "done" /\ seen = 0
  /\ undo = NoWork /\ cleaning = NoWork
  /\ tried = 0 /\ restarts = 0 /\ reboots = 0 /\ missed = FALSE

(* The synchronous first loop of rollbackPackages. *)
RestoreFiles ==
  /\ file' = [p \in All |-> IF backup[p] = None THEN file[p] ELSE backup[p]]
  /\ backup' = [p \in All |-> None]

-----------------------------------------------------------------------------
(* packageInstall of the core up to the dappmanager.                        *)

(* Mutant: the compose file of the dappmanager is not backed up. *)
WriteFilesUnsaved ==
  /\ alive /\ pc["update"] = "idle" /\ ~flagged /\ tried < MaxVersion
  /\ "overlap" \in Faults \/ (post = "done" /\ cleaning = NoWork)
  /\ flagged' = TRUE
  /\ tried' = tried + 1
  /\ backup' = [file EXCEPT ![DM] = backup[DM]]
  /\ file' = [p \in All |-> tried + 1]
  /\ pc' = [pc EXCEPT !["update"] = "run"]
  /\ UNCHANGED <<record, dockerVars, postVars, undo, cleaning, restarts,
                 reboots, missed>>

(* The flags, then writeAndValidateFiles: each file is backed up, whatever
   the backup was, and replaced.  An update follows the clean-up of the one
   before: it has images to download in between. *)
WriteFiles ==
  /\ alive /\ pc["update"] = "idle" /\ ~flagged /\ tried < MaxVersion
  /\ "overlap" \in Faults \/ (post = "done" /\ cleaning = NoWork)
  /\ flagged' = TRUE
  /\ tried' = tried + 1
  /\ backup' = file
  /\ file' = [p \in All |-> tried + 1]
  /\ pc' = [pc EXCEPT !["update"] = "run"]
  /\ UNCHANGED <<record, dockerVars, postVars, undo, cleaning, restarts,
                 reboots, missed>>

(* Mutant: the dappmanager is not the last of the packages that are run. *)
RunPackagesAfter ==
  /\ alive /\ pc["update"] = "run"
  /\ pc' = [pc EXCEPT !["update"] = "wait"]
  /\ UNCHANGED <<diskVars, dockerVars, flagged, postVars, undo, cleaning,
                 counters>>

(* runPackages up to the dappmanager, which orderInstallPackages puts last. *)
RunPackages ==
  /\ alive /\ pc["update"] = "run"
  /\ cont' = [p \in All |-> IF p = DM THEN cont[DM] ELSE file[p]]
  /\ pc' = [pc EXCEPT !["update"] = "wait"]
  /\ UNCHANGED <<diskVars, alive, box, script, code, owner, flagged, postVars,
                 undo, cleaning, counters>>

(* packageRestart of the dappmanager.  It looks at no flag. *)
PlainRestart ==
  /\ alive /\ pc["restart"] = "idle" /\ restarts < MaxRestart
  /\ restarts' = restarts + 1
  /\ pc' = [pc EXCEPT !["restart"] = "wait"]
  /\ UNCHANGED <<diskVars, dockerVars, flagged, postVars, undo, cleaning,
                 tried, reboots, missed>>

-----------------------------------------------------------------------------
(* restartDappmanagerPatch.                                                 *)

(* The synchronous part before the shell command: the script is written and
   the record, for an update. *)
HandOver(c) ==
  /\ pc' = [pc EXCEPT ![c] = "shell"]
  /\ record' = IF c = "update" THEN tried ELSE record

(* waitForRestartPatchToFinish: until the restart container of an earlier
   call has ended, or for a minute.  If there is one it is removed next; an
   error of docker is logged, and a container that is there stays. *)
WaitEnds(c) ==
  /\ alive /\ pc[c] = "wait"
  /\ \/ /\ box = "none" \/ "inspect" \in Faults
        /\ HandOver(c)
     \/ /\ box = "exited" \/ (box = "running" /\ "frozen" \in Faults)
        /\ pc' = [pc EXCEPT ![c] = "remove"]
        /\ record' = record
  /\ UNCHANGED <<file, backup, dockerVars, flagged, postVars, undo, cleaning,
                 counters>>

(* Removing it, by force, is not essential: an error is logged. *)
RemoveOld(c) ==
  /\ alive /\ pc[c] = "remove"
  /\ \/ box' = "none" /\ script' = "idle"
     \/ "remove" \in Faults /\ UNCHANGED <<box, script>>
  /\ HandOver(c)
  /\ UNCHANGED <<file, backup, cont, alive, code, owner, flagged, postVars,
                 undo, cleaning, counters>>

(* docker compose up --force-recreate of the restart container: one that
   is still there is replaced. *)
Launch(c) ==
  /\ alive /\ pc[c] = "shell"
  /\ box' = "running" /\ script' = "up" /\ code' = 0 /\ owner' = c
  /\ pc' = [pc EXCEPT ![c] = "attached"]
  /\ UNCHANGED <<diskVars, cont, alive, flagged, postVars, undo, cleaning,
                 counters>>

(* The error path of the shell command: the record is cleared, whoever wrote
   it.  packageInstall restores all files, then ups the packages again. *)
ShellFails(c) ==
  /\ alive
  /\ \/ pc[c] = "shell" /\ "launch" \in Faults
     \/ pc[c] = "attached" /\ (owner # c \/ box = "none")
     \/ pc[c] = "attached" /\ box = "exited" /\ code > 0
  /\ record' = None
  /\ IF c = "update"
     THEN /\ RestoreFiles
          /\ undo' = [undo EXCEPT !["update"] = Pkg]
          /\ pc' = [pc EXCEPT ![c] = "undo"]
     ELSE /\ pc' = [pc EXCEPT ![c] = "idle"]
          /\ UNCHANGED <<file, backup, undo>>
  /\ UNCHANGED <<dockerVars, flagged, postVars, cleaning, counters>>

(* The command resolves although this process was not replaced: another call
   removed the container.  packageInstall goes on to its clean-up. *)
ShellResolves(c) ==
  /\ alive /\ pc[c] = "attached" /\ (owner # c \/ box = "none")
  /\ IF c = "update"
     THEN /\ record' = None
          /\ cleaning' = [cleaning EXCEPT !["update"] = All]
          /\ pc' = [pc EXCEPT ![c] = "clean"]
     ELSE /\ pc' = [pc EXCEPT ![c] = "idle"]
          /\ UNCHANGED <<record, cleaning>>
  /\ UNCHANGED <<file, backup, dockerVars, flagged, postVars, undo, counters>>

-----------------------------------------------------------------------------
(* The script in the restart container.                                     *)

(* docker compose up -d --force-recreate stops the old container, which ends
   the process and everything in it ... *)
ScriptStops ==
  /\ script = "up" /\ script' = "start"
  /\ alive' = FALSE
  /\ pc' = [c \in Call |-> "idle"]
  /\ flagged' = FALSE
  /\ post' = "done" /\ seen' = 0
  /\ undo' = NoWork /\ cleaning' = NoWork
  /\ UNCHANGED <<diskVars, cont, box, code, owner, counters>>

(* ... and starts the new one. *)
ScriptStarts ==
  /\ script = "start" /\ script' = "exit"
  /\ cont' = [cont EXCEPT ![DM] = file[DM]]
  /\ alive' = TRUE
  /\ FreshProcess
  /\ UNCHANGED <<diskVars, box, code, owner, counters>>

(* It fails, before or after the old container was stopped. *)
ScriptFails ==
  /\ \/ script = "up" /\ "up" \in Faults
     \/ script = "start" /\ "start" \in Faults
  /\ script' = "fallback"
  /\ UNCHANGED <<diskVars, cont, alive, box, code, owner, procVars, counters>>

(* The backup file is upped: nothing to do for a container that runs and was
   created from it; without the file the command fails too. *)
ScriptFallsBack ==
  /\ script = "fallback" /\ script' = "failed"
  /\ IF backup[DM] = None \/ (alive /\ backup[DM] = cont[DM])
     THEN UNCHANGED <<cont, alive, procVars>>
     ELSE /\ cont' = [cont EXCEPT ![DM] = backup[DM]]
          /\ alive' = TRUE
          /\ FreshProcess
  /\ UNCHANGED <<diskVars, box, code, owner, counters>>

(* exit $UPEXIT *)
ScriptExits ==
  /\ script \in {"exit", "failed"} /\ script' = "idle"
  /\ code' = IF script = "failed" THEN 1 ELSE 0
  /\ box' = "exited"
  /\ UNCHANGED <<diskVars, cont, alive, owner, procVars, counters>>

-----------------------------------------------------------------------------
(* What is left of packageInstall when the process was not replaced.        *)

(* A roll back ups the next package with the file that is there.  The
   dappmanager is skipped: its container was not replaced, or by the script. *)
UndoUp(w, p) ==
  /\ alive /\ p \in undo[w]
  /\ cont' = [cont EXCEPT ![p] = file[p]]
  /\ undo' = [undo EXCEPT ![w] = @ \ {p}]
  /\ UNCHANGED <<diskVars, alive, box, script, code, owner, pc, flagged,
                 postVars, cleaning, counters>>

(* postInstallClean removes the backups of the next package. *)
Clean(w, p) ==
  /\ alive /\ p \in cleaning[w]
  /\ backup' = [backup EXCEPT ![p] = None]
  /\ cleaning' = [cleaning EXCEPT ![w] = @ \ {p}]
  /\ UNCHANGED <<file, record, dockerVars, pc, flagged, postVars, undo,
                 counters>>

(* packageInstall ends: afterInstall removes the flags. *)
UpdateEnds ==
  /\ alive
  /\ \/ pc["update"] = "undo" /\ undo["update"] = {}
     \/ pc["update"] = "clean" /\ cleaning["update"] = {}
  /\ pc' = [pc EXCEPT !["update"] = "idle"]
  /\ flagged' = FALSE
  /\ UNCHANGED <<diskVars, dockerVars, postVars, undo, cleaning, counters>>

-----------------------------------------------------------------------------
(* postRestartPatch, not awaited by the start of the process.               *)

(* Mutant: the new process does not wait for the restart container to end. *)
PostInspectEarly ==
  /\ alive /\ post = "wait"
  /\ IF box = "none" THEN post' = "done" /\ seen' = seen
                     ELSE post' = "decide" /\ seen' = code
  /\ UNCHANGED <<diskVars, dockerVars, pc, flagged, undo, cleaning, counters>>

(* The restart container has ended; without one there is nothing to do,
   whatever the record says.  The exit code of a container that still runs
   is zero. *)
PostInspect ==
  /\ alive /\ post = "wait"
  /\ box = "running" => "slow" \in Faults
  /\ IF box = "none" THEN post' = "done" /\ seen' = seen
                     ELSE post' = "decide" /\ seen' = code
  /\ UNCHANGED <<diskVars, dockerVars, pc, flagged, undo, cleaning, counters>>

(* Any error of docker but "no such container" ends postRestartPatch, and is
   logged: what it has to finish or to roll back stays as it is. *)
PostInspectFails ==
  /\ alive /\ post = "wait" /\ "inspect" \in Faults
  /\ post' = "done"
  /\ missed' = TRUE
  /\ UNCHANGED <<diskVars, dockerVars, pc, flagged, seen, undo, cleaning,
                 tried, restarts, reboots>>

(* No record: the process was restarted, not updated. *)
PostNothing ==
  /\ alive /\ post = "decide" /\ record = None
  /\ post' = "remove"
  /\ UNCHANGED <<diskVars, dockerVars, pc, flagged, seen, undo, cleaning,
                 counters>>

(* Mutant: the files are restored, the containers are not. *)
PostRestoresFiles ==
  /\ alive /\ post = "decide" /\ record # None /\ seen > 0
  /\ RestoreFiles
  /\ record' = None
  /\ flagged' = FALSE
  /\ post' = "remove"
  /\ UNCHANGED <<dockerVars, pc, seen, undo, cleaning, counters>>

(* rollbackPackages is not awaited: its files are restored here, and the
   flags come and go in this step; its containers follow. *)
PostRollsBack ==
  /\ alive /\ post = "decide" /\ record # None /\ seen > 0
  /\ RestoreFiles
  /\ record' = None
  /\ undo' = [undo EXCEPT !["post"] = Pkg]
  /\ flagged' = FALSE
  /\ post' = "remove"
  /\ UNCHANGED <<dockerVars, pc, seen, cleaning, counters>>

(* "System update completed successfully" *)
PostNotifies ==
  /\ alive /\ post = "decide" /\ record # None /\ seen = 0
  /\ post' = "notify"
  /\ UNCHANGED <<diskVars, dockerVars, pc, flagged, seen, undo, cleaning,
                 counters>>

(* Mutant: a finished update leaves its record. *)
PostFinishesOnly(p) ==
  /\ alive /\ post = "notify"
  /\ backup' = [backup EXCEPT ![p] = None]
  /\ cleaning' = [cleaning EXCEPT !["post"] = All \ {p}]
  /\ post' = "remove"
  /\ UNCHANGED <<file, record, dockerVars, pc, flagged, seen, undo, counters>>

(* postInstallClean is not awaited: it has begun when the record goes. *)
PostFinishes(p) ==
  /\ alive /\ post = "notify"
  /\ backup' = [backup EXCEPT ![p] = None]
  /\ cleaning' = [cleaning EXCEPT !["post"] = All \ {p}]
  /\ record' = None
  /\ post' = "remove"
  /\ UNCHANGED <<file, dockerVars, pc, flagged, seen, undo, counters>>

(* The container is removed by its name: it may be the one of a later call. *)
PostRemoves ==
  /\ alive /\ post = "remove"
  /\ post' = "done"
  /\ \/ box' = "none" /\ script' = "idle"
     \/ "remove" \in Faults /\ UNCHANGED <<box, script>>
  /\ UNCHANGED <<diskVars, cont, alive, code, owner, pc, flagged, seen, undo,
                 cleaning, counters>>

-----------------------------------------------------------------------------
(* The host restarts.  A script that runs is killed, and nothing resumes it.
   Docker starts the process anew ("restart: always").  Where the script had
   stopped the container of the dappmanager, it may also have removed it, and
   one that was never started is not: then nothing runs. *)
Reboot ==
  /\ reboots < MaxReboot
  /\ reboots' = reboots + 1
  /\ script' = "idle"
  /\ IF box = "running" THEN box' = "exited" /\ code' = 1
                        ELSE UNCHANGED <<box, code>>
  /\ \/ alive' = TRUE /\ FreshProcess
     \/ ~alive /\ UNCHANGED <<alive, procVars>>
  /\ UNCHANGED <<diskVars, cont, owner, tried, restarts, missed>>

CallStep(c) ==
  WaitEnds(c) \/ RemoveOld(c) \/ Launch(c) \/ ShellFails(c) \/ ShellResolves(c)

ScriptStep ==
  ScriptStops \/ ScriptStarts \/ ScriptFails \/ ScriptFallsBack \/ ScriptExits

PostStep ==
  \/ PostInspect \/ PostInspectFails
  \/ PostNothing \/ PostRollsBack \/ PostNotifies \/ PostRemoves
  \/ \E p \in All : PostFinishes(p)

Next ==
  \/ WriteFiles \/ RunPackages \/ PlainRestart \/ UpdateEnds
  \/ \E c \in Call : CallStep(c)
  \/ ScriptStep \/ PostStep
  \/ \E w \in Worker, p \in Pkg : UndoUp(w, p)
  \/ \E w \in Worker, p \in All : Clean(w, p)
  \/ Reboot

Spec == Init /\ [][Next]_vars

(* The awaits of a call end, by their time-outs if need be; docker runs the
   script; an update that is not asked for is not assumed. *)
FairSpec ==
  /\ Spec
  /\ WF_vars(RunPackages) /\ WF_vars(UpdateEnds)
  /\ \A c \in Call : WF_vars(CallStep(c))
  /\ WF_vars(ScriptStep) /\ WF_vars(PostStep)
  /\ \A w \in Worker : /\ WF_vars(\E p \in Pkg : UndoUp(w, p))
                       /\ WF_vars(\E p \in All : Clean(w, p))

-----------------------------------------------------------------------------
\* Nobody restarts the dappmanager or the host, and docker answers
\* postRestartPatch.
Uninterrupted == restarts = 0 /\ reboots = 0 /\ ~missed

(* As long as the record of the last update is there, every file it replaced
   can be restored, by the process that wrote it or by the next one.        *)
PendingCanRollBack ==
  record # None /\ record = tried => \A p \in All : backup[p] # None

(* When the script of an update cannot up the new dappmanager, the backup it
   ups instead is there.  It is what ran before, unless a reboot or a restart
   in the middle of an earlier update left a file that never ran.           *)
FallbackHasBackup ==
  script = "fallback" /\ owner = "update" =>
    /\ backup[DM] # None
    /\ Uninterrupted => backup[DM] = cont[DM]

(* What the user is told when the process that an update started sends
   "System update completed successfully" is true of every container.  (After
   a reboot the exit code may be that of an earlier restart container, if it
   could not be removed.)                                                   *)
FinishedIsNew ==
  post = "notify" /\ owner = "update" /\ reboots = 0 =>
    \A p \in All : cont[p] = tried

(* Nothing is going on. *)
Quiet ==
  /\ alive /\ post = "done" /\ box # "running"
  /\ \A c \in Call : pc[c] = "idle"
  /\ undo = NoWork /\ cleaning = NoWork

(* An update that nobody interrupts ends, whatever fails in it, with all of
   the core at the new version or all of it at the one before, with no record,
   backup or flag left.                                                     *)
AllOrNothing ==
  Quiet /\ Uninterrupted =>
    /\ record = None /\ ~flagged
    /\ \A p \in All : cont[p] = cont[DM] /\ file[p] = cont[DM] /\ backup[p] = None

\* An update is open until the dappmanager runs its version, or the files are
\* restored: by its own process, or by the next one, which the record tells.
Undecided ==
  \/ pc["update"] \in {"run", "wait", "remove", "shell", "attached"}
  \/ record # None /\ record # cont[DM]

Atomic == INSTANCE AtomicUpdate WITH target <- tried, open <- Undecided

(* An update is decided by the one step that starts the new dappmanager
   (restartPatch.ts, 90): before it the other packages run the new version, and
   after it no failure takes one of them back.  So it is for as long as nobody
   restarts the dappmanager or the host: such a step, and what follows, may
   leave the core between two versions.                                     *)
ImplementsAtomicUpdate ==
  Atomic!Init /\ [][Atomic!Next \/ ~Uninterrupted']_Atomic!vars

(* restartPatch.ts 72: "The function calling the restart patch must copy the
   previous compose to the backup path."                                    *)
RestartHasBackup == script = "fallback" /\ ~alive => backup[DM] # None

(* The record of an update is read once and goes: by the process that wrote
   it, or by the one the script starts, if the host is not restarted and docker
   answers postRestartPatch (restartPatch.ts, 149).                         *)
RecordSettles ==
  (record # None) ~> (record = None \/ missed \/ reboots > 0)

(* An update that stops the dappmanager leads to one that runs, unless the
   host is restarted meanwhile: the script that would start it is then lost
   (restartPatch.ts, 82-95).                                                *)
UpdateRevives ==
  \A n \in 0..MaxReboot :
    (~alive /\ owner = "update" /\ script # "idle" /\ reboots = n)
      ~> (alive \/ reboots > n)
=============================================================================

-------------------------- MODULE CoreUpdateProofs --------------------------
(***************************************************************************)
(* Proofs about CoreUpdate, for any packages and bounds.                   *)
(***************************************************************************)
EXTENDS CoreUpdate, TLAPS

-----------------------------------------------------------------------------
(* Types *)

LEMMA TypeInit == Init => TypeOK
<1>1. 0 \in Version /\ 0 \in 0..MaxRestart /\ 0 \in 0..MaxReboot
  BY BoundAssumption DEF Version
<1> QED
  BY <1>1 DEF Init, TypeOK, Call, NoWork

LEMMA FreshTypes ==
  ASSUME FreshProcess
  PROVE  /\ pc' \in [Call -> {"idle", "run", "wait", "remove", "shell",
                              "attached", "undo", "clean"}]
         /\ flagged' \in BOOLEAN
         /\ post' \in {"wait", "decide", "notify", "remove", "done"}
         /\ seen' \in {0, 1}
         /\ undo' \in [Worker -> SUBSET Pkg]
         /\ cleaning' \in [Worker -> SUBSET All]
BY DEF FreshProcess, NoWork

LEMMA RestoreTypes ==
  ASSUME TypeOK, RestoreFiles
  PROVE  /\ file' \in [All -> Version]
         /\ backup' \in [All -> Version \cup {None}]
BY DEF TypeOK, RestoreFiles

LEMMA HandOverTypes ==
  ASSUME TypeOK, NEW c \in Call, HandOver(c)
  PROVE  /\ pc' \in [Call -> {"idle", "run", "wait", "remove", "shell",
                              "attached", "undo", "clean"}]
         /\ record' \in Version \cup {None}
BY DEF TypeOK, HandOver

LEMMA TypeWriteFiles == ASSUME TypeOK, WriteFiles PROVE TypeOK'
<1>1. tried' \in Version
  BY BoundAssumption DEF TypeOK, WriteFiles, Version
<1>2. file' \in [All -> Version]
  BY <1>1 DEF WriteFiles
<1> QED
  BY <1>1, <1>2 DEF TypeOK, WriteFiles, dockerVars, postVars, Call

LEMMA TypePackages ==
  ASSUME TypeOK, RunPackages \/ PlainRestart \/ UpdateEnds
  PROVE  TypeOK'
<1>1. CASE RunPackages
  BY <1>1 DEF TypeOK, RunPackages, diskVars, postVars, counters, Call
<1>2. CASE PlainRestart
  BY <1>2, BoundAssumption
     DEF TypeOK, PlainRestart, diskVars, dockerVars, postVars, Call
<1>3. CASE UpdateEnds
  <2>1. pc' \in [Call -> {"idle", "run", "wait", "remove", "shell", "attached",
                          "undo", "clean"}]
    BY <1>3 DEF TypeOK, UpdateEnds
  <2> QED
    BY <1>3, <2>1
       DEF TypeOK, UpdateEnds, diskVars, dockerVars, postVars, counters
<1> QED
  BY <1>1, <1>2, <1>3

LEMMA TypeCallStep ==
  ASSUME TypeOK, NEW c \in Call, CallStep(c)
  PROVE  TypeOK'
<1>1. CASE WaitEnds(c)
  BY <1>1, HandOverTypes
     DEF TypeOK, WaitEnds, dockerVars, postVars, counters
<1>2. CASE RemoveOld(c)
  BY <1>2, HandOverTypes
     DEF TypeOK, RemoveOld, postVars, counters
<1>3. CASE Launch(c)
  BY <1>3 DEF TypeOK, Launch, diskVars, postVars, counters
<1>4. CASE ShellFails(c)
  <2>1. /\ file' \in [All -> Version]
        /\ backup' \in [All -> Version \cup {None}]
    BY <1>4, RestoreTypes DEF TypeOK, ShellFails
  <2>2. /\ undo' \in [Worker -> SUBSET Pkg]
        /\ pc' \in [Call -> {"idle", "run", "wait", "remove", "shell",
                             "attached", "undo", "clean"}]
    BY <1>4 DEF TypeOK, ShellFails
  <2> QED
    BY <1>4, <2>1, <2>2
       DEF TypeOK, ShellFails, dockerVars, postVars, counters
<1>5. CASE ShellResolves(c)
  BY <1>5 DEF TypeOK, ShellResolves, dockerVars, postVars, counters
<1> QED
  BY <1>1, <1>2, <1>3, <1>4, <1>5 DEF CallStep

LEMMA TypeScriptStep == ASSUME TypeOK, ScriptStep PROVE TypeOK'
<1>1. CASE ScriptStops
  BY <1>1 DEF TypeOK, ScriptStops, diskVars, counters, NoWork
<1>2. CASE ScriptStarts
  <2>1. cont' \in [All -> Version]
    BY <1>2 DEF TypeOK, ScriptStarts, All
  <2> QED
    BY <1>2, <2>1, FreshTypes DEF TypeOK, ScriptStarts, diskVars, counters
<1>3. CASE ScriptFails
  BY <1>3 DEF TypeOK, ScriptFails, diskVars, procVars, postVars, counters
<1>4. CASE ScriptFallsBack
  <2>1. CASE backup[DM] = None \/ (alive /\ backup[DM] = cont[DM])
    BY <1>4, <2>1
       DEF TypeOK, ScriptFallsBack, diskVars, procVars, postVars, counters
  <2>2. CASE ~(backup[DM] = None \/ (alive /\ backup[DM] = cont[DM]))
    <3>1. cont' \in [All -> Version]
      BY <1>4, <2>2 DEF TypeOK, ScriptFallsBack, All
    <3> QED
      BY <1>4, <2>2, <3>1, FreshTypes
         DEF TypeOK, ScriptFallsBack, diskVars, counters
  <2> QED
    BY <2>1, <2>2
<1>5. CASE ScriptExits
  BY <1>5 DEF TypeOK, ScriptExits, diskVars, procVars, postVars, counters
<1> QED
  BY <1>1, <1>2, <1>3, <1>4, <1>5 DEF ScriptStep

LEMMA TypePostStep == ASSUME TypeOK, PostStep PROVE TypeOK'
<1>1. CASE PostInspect
  BY <1>1 DEF TypeOK, PostInspect, diskVars, dockerVars, counters
<1>2. CASE PostNothing
  BY <1>2 DEF TypeOK, PostNothing, diskVars, dockerVars, counters
<1>3. CASE PostRollsBack
  BY <1>3, RestoreTypes DEF TypeOK, PostRollsBack, dockerVars, counters
<1>4. CASE PostNotifies
  BY <1>4 DEF TypeOK, PostNotifies, diskVars, dockerVars, counters
<1>5. CASE PostRemoves
  BY <1>5 DEF TypeOK, PostRemoves, diskVars, counters
<1>6. ASSUME NEW p \in All, PostFinishes(p) PROVE TypeOK'
  BY <1>6 DEF TypeOK, PostFinishes, dockerVars, counters
<1>7. CASE PostInspectFails
  BY <1>7 DEF TypeOK, PostInspectFails, diskVars, dockerVars
<1> QED
  BY <1>1, <1>2, <1>3, <1>4, <1>5, <1>6, <1>7 DEF PostStep

LEMMA TypeWork ==
  ASSUME TypeOK, NEW w \in Worker, NEW p \in All,
         UndoUp(w, p) \/ Clean(w, p)
  PROVE  TypeOK'
<1>1. CASE UndoUp(w, p)
  BY <1>1 DEF TypeOK, UndoUp, diskVars, postVars, counters
<1>2. CASE Clean(w, p)
  BY <1>2 DEF TypeOK, Clean, dockerVars, postVars, counters
<1> QED
  BY <1>1, <1>2

LEMMA TypeReboot == ASSUME TypeOK, Reboot PROVE TypeOK'
<1>1. reboots' \in 0..MaxReboot
  BY BoundAssumption DEF TypeOK, Reboot
<1>2. CASE FreshProcess
  BY <1>1, <1>2, FreshTypes DEF TypeOK, Reboot, diskVars
<1>3. CASE UNCHANGED procVars
  BY <1>1, <1>3 DEF TypeOK, Reboot, diskVars, procVars, postVars
<1> QED
  BY <1>2, <1>3 DEF Reboot

LEMMA TypeNext == TypeOK /\ [Next]_vars => TypeOK'
<1> SUFFICES ASSUME TypeOK, [Next]_vars PROVE TypeOK'
  OBVIOUS
<1>1. CASE UNCHANGED vars
  BY <1>1 DEF TypeOK, vars, diskVars, dockerVars, procVars, postVars, counters
<1>2. CASE Next
  BY <1>2, TypeWriteFiles, TypePackages, TypeCallStep, TypeScriptStep,
     TypePostStep, TypeWork, TypeReboot DEF Next, All
<1> QED
  BY <1>1, <1>2

\* Every state of an update of the core is well typed.
THEOREM TypeCorrect == Spec => []TypeOK
BY TypeInit, TypeNext, PTL DEF Spec

-----------------------------------------------------------------------------
(* The backups.  postRestartPatch and an update are never at work together,
   if an update follows the end of postRestartPatch: so a backup goes only
   when the record of its update has gone.                                  *)

\* A call of an update that may still need its backups.
Busy == pc["update"] \in {"run", "wait", "remove", "shell", "attached"}

Alone ==
  /\ post # "done" \/ cleaning["post"] # {} => pc["update"] = "idle"
  /\ cleaning["update"] # {} => pc["update"] = "clean"

RecordInv ==
  /\ record # None => record <= tried
  /\ cleaning # NoWork => record # tried
  /\ Busy => \A p \in All : backup[p] # None
  /\ PendingCanRollBack

ScriptInv ==
  /\ script # "idle" => box = "running"
  /\ script \in {"up", "start", "fallback"} /\ owner = "update" =>
       /\ backup[DM] # None
       /\ alive => pc["update"] = "attached"

BackupInv == TypeOK /\ Alone /\ RecordInv /\ ScriptInv

LEMMA BackupInit == Init => BackupInv
BY TypeInit, NameAssumption
   DEF Init, BackupInv, Alone, RecordInv, ScriptInv, Busy, PendingCanRollBack,
       NoWork, Worker, Call, All

\* Files restored and work given out or taken are the only changes of backup
\* and cleaning there are; Worker has these two members.
LEMMA NoWorkFacts ==
  ASSUME NEW f \in [Worker -> SUBSET All]
  PROVE  f # NoWork <=> f["update"] # {} \/ f["post"] # {}
BY DEF Worker, NoWork

LEMMA BackupWriteFiles ==
  ASSUME BackupInv, WriteFiles, "overlap" \notin Faults
  PROVE  Alone' /\ RecordInv' /\ ScriptInv'
BY NoWorkFacts, NameAssumption, BoundAssumption
   DEF BackupInv, TypeOK, Alone, RecordInv, ScriptInv, Busy,
       PendingCanRollBack,
       WriteFiles, dockerVars, postVars, Version, All, Call, NoWork, Worker

LEMMA BackupRunPackages ==
  ASSUME BackupInv, RunPackages
  PROVE  Alone' /\ RecordInv' /\ ScriptInv'
BY NoWorkFacts, NameAssumption, BoundAssumption
   DEF BackupInv, TypeOK, Alone, RecordInv, ScriptInv, Busy,
       PendingCanRollBack,
       RunPackages, diskVars, postVars, counters, Call

LEMMA BackupPlainRestart ==
  ASSUME BackupInv, PlainRestart
  PROVE  Alone' /\ RecordInv' /\ ScriptInv'
BY NoWorkFacts, NameAssumption, BoundAssumption
   DEF BackupInv, TypeOK, Alone, RecordInv, ScriptInv, Busy,
       PendingCanRollBack,
       PlainRestart, diskVars, dockerVars, postVars, Call

LEMMA BackupUpdateEnds ==
  ASSUME BackupInv, UpdateEnds
  PROVE  Alone' /\ RecordInv' /\ ScriptInv'
BY NoWorkFacts, NameAssumption, BoundAssumption
   DEF BackupInv, TypeOK, Alone, RecordInv, ScriptInv, Busy,
       PendingCanRollBack,
       UpdateEnds, diskVars, dockerVars, postVars, counters, Call

LEMMA BackupWaitEnds ==
  ASSUME BackupInv, NEW c \in Call, WaitEnds(c)
  PROVE  Alone' /\ RecordInv' /\ ScriptInv'
BY NoWorkFacts, NameAssumption, BoundAssumption
   DEF BackupInv, TypeOK, Alone, RecordInv, ScriptInv, Busy,
       PendingCanRollBack,
       WaitEnds, HandOver, dockerVars, postVars, counters, Call, Version,
       NoWork, Worker

LEMMA BackupRemoveOld ==
  ASSUME BackupInv, NEW c \in Call, RemoveOld(c)
  PROVE  Alone' /\ RecordInv' /\ ScriptInv'
BY NoWorkFacts, NameAssumption, BoundAssumption
   DEF BackupInv, TypeOK, Alone, RecordInv, ScriptInv, Busy,
       PendingCanRollBack,
       RemoveOld, HandOver, postVars, counters, Call, Version, NoWork, Worker

LEMMA BackupLaunch ==
  ASSUME BackupInv, NEW c \in Call, Launch(c)
  PROVE  Alone' /\ RecordInv' /\ ScriptInv'
BY NoWorkFacts, NameAssumption, BoundAssumption
   DEF BackupInv, TypeOK, Alone, RecordInv, ScriptInv, Busy,
       PendingCanRollBack,
       Launch, diskVars, postVars, counters, Call, All

LEMMA BackupShellFails ==
  ASSUME BackupInv, NEW c \in Call, ShellFails(c)
  PROVE  Alone' /\ RecordInv' /\ ScriptInv'
BY NoWorkFacts, NameAssumption, BoundAssumption
   DEF BackupInv, TypeOK, Alone, RecordInv, ScriptInv, Busy,
       PendingCanRollBack,
       ShellFails, RestoreFiles, dockerVars, postVars, counters, Call, Version

LEMMA BackupShellResolves ==
  ASSUME BackupInv, NEW c \in Call, ShellResolves(c)
  PROVE  Alone' /\ RecordInv' /\ ScriptInv'
BY NoWorkFacts, NameAssumption, BoundAssumption
   DEF BackupInv, TypeOK, Alone, RecordInv, ScriptInv, Busy,
       PendingCanRollBack,
       ShellResolves, dockerVars, postVars, counters, Call, Version, Worker

LEMMA BackupScriptStops ==
  ASSUME BackupInv, ScriptStops
  PROVE  Alone' /\ RecordInv' /\ ScriptInv'
BY NoWorkFacts, NameAssumption, BoundAssumption
   DEF BackupInv, TypeOK, Alone, RecordInv, ScriptInv, Busy,
       PendingCanRollBack,
       ScriptStops, diskVars, counters, Call, NoWork, Worker

LEMMA BackupScriptStarts ==
  ASSUME BackupInv, ScriptStarts
  PROVE  Alone' /\ RecordInv' /\ ScriptInv'
BY NoWorkFacts, NameAssumption, BoundAssumption
   DEF BackupInv, TypeOK, Alone, RecordInv, ScriptInv, Busy,
       PendingCanRollBack,
       ScriptStarts, FreshProcess, diskVars, counters, Call, NoWork, Worker

LEMMA BackupScriptFails ==
  ASSUME BackupInv, ScriptFails
  PROVE  Alone' /\ RecordInv' /\ ScriptInv'
BY NoWorkFacts, NameAssumption, BoundAssumption
   DEF BackupInv, TypeOK, Alone, RecordInv, ScriptInv, Busy,
       PendingCanRollBack,
       ScriptFails, diskVars, procVars, postVars, counters

LEMMA BackupScriptFallsBack ==
  ASSUME BackupInv, ScriptFallsBack
  PROVE  Alone' /\ RecordInv' /\ ScriptInv'
BY NoWorkFacts, NameAssumption, BoundAssumption
   DEF BackupInv, TypeOK, Alone, RecordInv, ScriptInv, Busy,
       PendingCanRollBack,
       ScriptFallsBack, FreshProcess, diskVars, procVars, postVars, counters,
       Call, NoWork, Worker

LEMMA BackupScriptExits ==
  ASSUME BackupInv, ScriptExits
  PROVE  Alone' /\ RecordInv' /\ ScriptInv'
BY NoWorkFacts, NameAssumption, BoundAssumption
   DEF BackupInv, TypeOK, Alone, RecordInv, ScriptInv, Busy,
       PendingCanRollBack,
       ScriptExits, diskVars, procVars, postVars, counters

LEMMA BackupPostInspect ==
  ASSUME BackupInv, PostInspect
  PROVE  Alone' /\ RecordInv' /\ ScriptInv'
BY NoWorkFacts, NameAssumption, BoundAssumption
   DEF BackupInv, TypeOK, Alone, RecordInv, ScriptInv, Busy,
       PendingCanRollBack,
       PostInspect, diskVars, dockerVars, counters

LEMMA BackupPostRollsBack ==
  ASSUME BackupInv, PostRollsBack
  PROVE  Alone' /\ RecordInv' /\ ScriptInv'
BY NoWorkFacts, NameAssumption, BoundAssumption
   DEF BackupInv, TypeOK, Alone, RecordInv, ScriptInv, Busy,
       PendingCanRollBack,
       PostRollsBack, RestoreFiles, dockerVars, counters, All, Version

LEMMA BackupPostFinishes ==
  ASSUME BackupInv, NEW p \in All, PostFinishes(p)
  PROVE  Alone' /\ RecordInv' /\ ScriptInv'
BY NoWorkFacts, NameAssumption, BoundAssumption
   DEF BackupInv, TypeOK, Alone, RecordInv, ScriptInv, Busy,
       PendingCanRollBack,
       PostFinishes, dockerVars, counters, All, Worker, Version

LEMMA BackupPostOthers ==
  ASSUME BackupInv,
         PostInspectFails \/ PostNothing \/ PostNotifies \/ PostRemoves
  PROVE  Alone' /\ RecordInv' /\ ScriptInv'
BY NoWorkFacts, NameAssumption, BoundAssumption
   DEF BackupInv, TypeOK, Alone, RecordInv, ScriptInv, Busy,
       PendingCanRollBack,
       PostInspectFails, PostNothing, PostNotifies, PostRemoves, diskVars,
       dockerVars, counters

LEMMA BackupUndoUp ==
  ASSUME BackupInv, NEW w \in Worker, NEW p \in Pkg, UndoUp(w, p)
  PROVE  Alone' /\ RecordInv' /\ ScriptInv'
BY NoWorkFacts, NameAssumption, BoundAssumption
   DEF BackupInv, TypeOK, Alone, RecordInv, ScriptInv, Busy,
       PendingCanRollBack,
       UndoUp, diskVars, postVars, counters

LEMMA BackupClean ==
  ASSUME BackupInv, NEW w \in Worker, NEW p \in All, Clean(w, p)
  PROVE  Alone' /\ RecordInv' /\ ScriptInv'
BY NoWorkFacts, NameAssumption, BoundAssumption
   DEF BackupInv, TypeOK, Alone, RecordInv, ScriptInv, Busy,
       PendingCanRollBack,
       Clean, dockerVars, postVars, counters, Worker, NoWork, All

LEMMA BackupReboot ==
  ASSUME BackupInv, Reboot
  PROVE  Alone' /\ RecordInv' /\ ScriptInv'
BY NoWorkFacts, NameAssumption, BoundAssumption
   DEF BackupInv, TypeOK, Alone, RecordInv, ScriptInv, Busy,
       PendingCanRollBack,
       Reboot, FreshProcess, diskVars, procVars, postVars, Call, NoWork, Worker

LEMMA BackupStutter ==
  ASSUME BackupInv, UNCHANGED vars
  PROVE  Alone' /\ RecordInv' /\ ScriptInv'
BY NoWorkFacts, NameAssumption, BoundAssumption
   DEF BackupInv, TypeOK, Alone, RecordInv, ScriptInv, Busy,
       PendingCanRollBack,
       vars, diskVars, dockerVars, procVars, postVars, counters

LEMMA BackupNext ==
  ASSUME "overlap" \notin Faults, BackupInv, [Next]_vars
  PROVE  BackupInv'
<1>1. TypeOK'
  BY TypeNext DEF BackupInv
<1>2. Alone' /\ RecordInv' /\ ScriptInv'
  <2>1. CASE UNCHANGED vars
    BY <2>1, BackupStutter
  <2>2. ASSUME NEW c \in Call, CallStep(c)
        PROVE  Alone' /\ RecordInv' /\ ScriptInv'
    BY <2>2, BackupWaitEnds, BackupRemoveOld, BackupLaunch, BackupShellFails,
       BackupShellResolves DEF CallStep
  <2>3. CASE ScriptStep
    BY <2>3, BackupScriptStops, BackupScriptStarts, BackupScriptFails,
       BackupScriptFallsBack, BackupScriptExits DEF ScriptStep
  <2>4. CASE PostStep
    BY <2>4, BackupPostInspect, BackupPostRollsBack, BackupPostFinishes,
       BackupPostOthers DEF PostStep
  <2>5. CASE WriteFiles \/ RunPackages \/ PlainRestart \/ UpdateEnds \/ Reboot
    BY <2>5, BackupWriteFiles, BackupRunPackages, BackupPlainRestart,
       BackupUpdateEnds, BackupReboot
  <2>6. ASSUME NEW w \in Worker, NEW p \in All,
               (p \in Pkg /\ UndoUp(w, p)) \/ Clean(w, p)
        PROVE  Alone' /\ RecordInv' /\ ScriptInv'
    BY <2>6, BackupUndoUp, BackupClean
  <2> QED
    BY <2>1, <2>2, <2>3, <2>4, <2>5, <2>6 DEF Next, All
<1> QED
  BY <1>1, <1>2 DEF BackupInv

\* As long as the last update has a record, all of its files can be restored:
\* whatever fails, restarts or reboots, if updates do not overlap with the end
\* of the one before.
THEOREM UpdateCanRollBack ==
  "overlap" \notin Faults => (Spec => []PendingCanRollBack)
<1> SUFFICES ASSUME "overlap" \notin Faults PROVE Spec => []PendingCanRollBack
  OBVIOUS
<1>1. Init => BackupInv
  BY BackupInit
<1>2. BackupInv /\ [Next]_vars => BackupInv'
  BY BackupNext
<1>3. BackupInv => PendingCanRollBack
  BY DEF BackupInv, RecordInv
<1> QED
  BY <1>1, <1>2, <1>3, PTL DEF Spec

-----------------------------------------------------------------------------
(* The outcome of updates that nobody interrupts.  Five phases, each with     *)
(* what is known of the files, the containers and the script in it.          *)

\* Where an update left the files and the packages when it hands over.
Replaced ==
  /\ record = tried
  /\ \A p \in All : file[p] = tried
  /\ \A p \in Pkg : cont[p] = tried

\* No update: its last one may still be cleaned or rolled back.
Resting ==
  /\ alive /\ pc["update"] = "idle" /\ record = None /\ ~flagged
  /\ script = "idle" /\ box # "running" /\ post \in {"remove", "done"}
  /\ \A p \in All : /\ file[p] = cont[DM]
                    /\ p \notin undo["post"] => cont[p] = cont[DM]
                    /\ p \notin cleaning["post"] => backup[p] = None
  /\ undo["update"] = {} /\ cleaning["update"] = {}

\* packageInstall up to the script's success or failure.
Working ==
  /\ alive /\ Busy /\ post = "done"
  /\ \A p \in All : file[p] = tried /\ backup[p] = cont[DM]
  /\ pc["update"] # "run" => \A p \in Pkg : cont[p] = tried
  /\ record = IF pc["update"] \in {"shell", "attached"} THEN tried ELSE None
  /\ undo["update"] = {} /\ cleaning = NoWork
  /\ IF pc["update"] = "attached"
     THEN /\ owner = "update"
          /\ \/ box = "running" /\ script \in {"up", "fallback", "failed"}
             \/ box = "exited" /\ script = "idle" /\ code = 1
     ELSE box # "running" /\ script = "idle"

\* packageInstall rolls back.
Undoing ==
  /\ alive /\ pc["update"] = "undo" /\ post = "done"
  /\ script = "idle" /\ box # "running"
  /\ record = None /\ cleaning = NoWork
  /\ \A p \in All : /\ file[p] = cont[DM] /\ backup[p] = None
                    /\ p \notin undo["update"] => cont[p] = cont[DM]

\* The old container is stopped.
Down ==
  /\ ~alive /\ pc["update"] = "idle" /\ post = "done" /\ ~flagged
  /\ script \in {"start", "fallback"} /\ box = "running"
  /\ Replaced /\ \A p \in All : backup[p] = cont[DM]
  /\ undo = NoWork /\ cleaning = NoWork

\* The script has done its work, or ended too.
EndedWith(at, c) ==
  \/ script = at /\ box = "running"
  \/ script = "idle" /\ box = "exited" /\ code = c

\* The next process, new or old, has not settled the record.
Finishing ==
  /\ alive /\ pc["update"] = "idle" /\ ~flagged
  /\ post \in {"wait", "decide", "notify"}
  /\ Replaced
  /\ \/ EndedWith("exit", 0) /\ cont[DM] = tried
     \/ EndedWith("failed", 1) /\ \A p \in All : backup[p] = cont[DM]
  /\ post # "wait" => box = "exited" /\ seen = code
  /\ post = "notify" => code = 0
  /\ undo = NoWork /\ cleaning = NoWork

Phases == Resting \/ Working \/ Undoing \/ Down \/ Finishing

OutcomeInv ==
  Uninterrupted => pc["restart"] = "idle" /\ Phases

LEMMA OutcomeInit == Init => OutcomeInv
BY NameAssumption
   DEF Init, OutcomeInv, Phases, Resting, NoWork, Worker, Call, All

\* The phase of a step is the one its guard admits.
LEMMA PhaseFacts ==
  ASSUME Phases
  PROVE  /\ pc["update"] \in {"run", "wait", "remove", "shell", "attached"} => Working
         /\ pc["update"] = "undo" => Undoing
         /\ pc["update"] # "clean"
         /\ script = "up" => Working
         /\ script = "start" => Down
         /\ script = "fallback" => Working \/ Down
         /\ script = "failed" => Working \/ Finishing
         /\ script = "exit" => Finishing
         /\ post \in {"wait", "decide", "notify"} => Finishing
         /\ post = "remove" => Resting
         /\ alive /\ pc["update"] = "idle" /\ post = "done" => Resting
BY DEF Phases, Resting, Working, Busy, Undoing, Down, Finishing, EndedWith

LEMMA OutcomeWriteFiles ==
  ASSUME TypeOK, Phases, pc["restart"] = "idle", "overlap" \notin Faults, WriteFiles
  PROVE  pc'["restart"] = "idle" /\ Working'
<1>1. Resting
  BY PhaseFacts DEF WriteFiles
<1> QED
  BY <1>1, NameAssumption, BoundAssumption
     DEF TypeOK, Resting, Working, Busy, WriteFiles, dockerVars, postVars,
         Version, All, Call, NoWork, Worker

LEMMA OutcomeRunPackages ==
  ASSUME TypeOK, Phases, pc["restart"] = "idle", RunPackages
  PROVE  pc'["restart"] = "idle" /\ Working'
<1>1. Working
  BY PhaseFacts DEF RunPackages
<1> QED
  BY <1>1, NameAssumption, BoundAssumption
     DEF TypeOK, Working, Busy, RunPackages, diskVars, postVars, counters,
         Version, All, Call, NoWork, Worker

LEMMA OutcomeUpdateEnds ==
  ASSUME TypeOK, Phases, pc["restart"] = "idle", UpdateEnds
  PROVE  pc'["restart"] = "idle" /\ Resting'
<1>1. Undoing
  BY PhaseFacts DEF UpdateEnds
<1> QED
  BY <1>1, NameAssumption, BoundAssumption
     DEF TypeOK, Undoing, Resting, UpdateEnds, diskVars, dockerVars, postVars,
         counters, Version, All, Call, NoWork, Worker

LEMMA OutcomeWaitEnds ==
  ASSUME TypeOK, Phases, pc["restart"] = "idle", NEW c \in Call, WaitEnds(c)
  PROVE  pc'["restart"] = "idle" /\ Working'
<1>1. Working
  BY PhaseFacts DEF WaitEnds, Call
<1> QED
  BY <1>1, NameAssumption, BoundAssumption
     DEF TypeOK, Working, Busy, WaitEnds, HandOver, dockerVars, postVars,
         counters, Version, All, Call, NoWork, Worker

LEMMA OutcomeRemoveOld ==
  ASSUME TypeOK, Phases, pc["restart"] = "idle", NEW c \in Call, RemoveOld(c)
  PROVE  pc'["restart"] = "idle" /\ Working'
<1>1. Working
  BY PhaseFacts DEF RemoveOld, Call
<1> QED
  BY <1>1, NameAssumption, BoundAssumption
     DEF TypeOK, Working, Busy, RemoveOld, HandOver, postVars, counters,
         Version, All, Call, NoWork, Worker

LEMMA OutcomeLaunch ==
  ASSUME TypeOK, Phases, pc["restart"] = "idle", NEW c \in Call, Launch(c)
  PROVE  pc'["restart"] = "idle" /\ Working'
<1>1. Working
  BY PhaseFacts DEF Launch, Call
<1> QED
  BY <1>1, NameAssumption, BoundAssumption
     DEF TypeOK, Working, Busy, Launch, diskVars, postVars, counters, Version,
         All, Call, NoWork, Worker

LEMMA OutcomeShellFails ==
  ASSUME TypeOK, Phases, pc["restart"] = "idle", NEW c \in Call, ShellFails(c)
  PROVE  pc'["restart"] = "idle" /\ Undoing'
<1>1. Working
  BY PhaseFacts DEF ShellFails, Call
<1> QED
  BY <1>1, NameAssumption, BoundAssumption
     DEF TypeOK, Working, Busy, Undoing, ShellFails, RestoreFiles, dockerVars,
         postVars, counters, Version, All, Call, NoWork, Worker

LEMMA OutcomeShellResolves ==
  ASSUME TypeOK, Phases, pc["restart"] = "idle", NEW c \in Call, ShellResolves(c)
  PROVE  pc'["restart"] = "idle" /\ Working'
<1>1. Working
  BY PhaseFacts DEF ShellResolves, Call
<1> QED
  BY <1>1, NameAssumption, BoundAssumption
     DEF TypeOK, Working, Busy, ShellResolves, Version, All, Call, NoWork,
         Worker

LEMMA OutcomeScriptStops ==
  ASSUME TypeOK, Phases, pc["restart"] = "idle", ScriptStops
  PROVE  pc'["restart"] = "idle" /\ Down'
<1>1. Working
  BY PhaseFacts DEF ScriptStops
<1> QED
  BY <1>1, NameAssumption, BoundAssumption
     DEF TypeOK, Working, Busy, Down, Replaced, ScriptStops, diskVars,
         counters, Version, All, Call, NoWork, Worker

LEMMA OutcomeScriptStarts ==
  ASSUME TypeOK, Phases, pc["restart"] = "idle", ScriptStarts
  PROVE  pc'["restart"] = "idle" /\ Finishing'
<1>1. Down
  BY PhaseFacts DEF ScriptStarts
<1> QED
  BY <1>1, NameAssumption, BoundAssumption
     DEF TypeOK, Down, Replaced, Finishing, EndedWith, ScriptStarts,
         FreshProcess, diskVars, counters, Version, All, Call, NoWork, Worker

LEMMA OutcomeScriptFails ==
  ASSUME TypeOK, Phases, pc["restart"] = "idle", ScriptFails
  PROVE  pc'["restart"] = "idle" /\ Phases'
<1>1. Working \/ Down
  BY PhaseFacts DEF Phases, ScriptFails
<1>2. CASE Working
  <2>1. pc'["restart"] = "idle" /\ Working'
    BY <1>2, NameAssumption
       DEF TypeOK, Working, Busy, ScriptFails, diskVars, procVars, postVars,
         counters, Version, All, Call, NoWork, Worker
  <2> QED
    BY <2>1 DEF Phases
<1>3. CASE Down
  <2>1. pc'["restart"] = "idle" /\ Down'
    BY <1>3, NameAssumption
       DEF TypeOK, Down, Replaced, ScriptFails, diskVars, procVars, postVars,
         counters, Version, All, Call, NoWork, Worker
  <2> QED
    BY <2>1 DEF Phases
<1> QED
  BY <1>1, <1>2, <1>3

LEMMA OutcomeScriptFallsBack ==
  ASSUME TypeOK, Phases, pc["restart"] = "idle", ScriptFallsBack
  PROVE  pc'["restart"] = "idle" /\ Phases'
<1>1. Working \/ Down
  BY PhaseFacts DEF Phases, ScriptFallsBack
<1>2. CASE Working
  <2>1. pc'["restart"] = "idle" /\ Working'
    BY <1>2, NameAssumption
       DEF TypeOK, Working, Busy, ScriptFallsBack, FreshProcess, diskVars,
         procVars, postVars, counters, Version, All, Call, NoWork, Worker
  <2> QED
    BY <2>1 DEF Phases
<1>3. CASE Down
  <2>1. pc'["restart"] = "idle" /\ Finishing'
    BY <1>3, NameAssumption
       DEF TypeOK, Down, Replaced, Finishing, EndedWith, ScriptFallsBack,
         FreshProcess, diskVars, procVars, postVars, counters, Version, All,
         Call, NoWork, Worker
  <2> QED
    BY <2>1 DEF Phases
<1> QED
  BY <1>1, <1>2, <1>3

LEMMA OutcomeScriptExits ==
  ASSUME TypeOK, Phases, pc["restart"] = "idle", ScriptExits
  PROVE  pc'["restart"] = "idle" /\ Phases'
<1>1. Working \/ Finishing
  BY PhaseFacts DEF Phases, ScriptExits
<1>2. CASE Working
  <2>1. pc'["restart"] = "idle" /\ Working'
    BY <1>2, NameAssumption
       DEF TypeOK, Working, Busy, ScriptExits, diskVars, procVars, postVars,
         counters, Version, All, Call, NoWork, Worker
  <2> QED
    BY <2>1 DEF Phases
<1>3. CASE Finishing
  <2>1. pc'["restart"] = "idle" /\ Finishing'
    BY <1>3, NameAssumption
       DEF TypeOK, Finishing, Replaced, EndedWith, ScriptExits, diskVars,
         procVars, postVars, counters, Version, All, Call, NoWork, Worker
  <2> QED
    BY <2>1 DEF Phases
<1> QED
  BY <1>1, <1>2, <1>3

LEMMA OutcomePostInspect ==
  ASSUME TypeOK, Phases, pc["restart"] = "idle", "slow" \notin Faults, PostInspect
  PROVE  pc'["restart"] = "idle" /\ Finishing'
<1>1. Finishing
  BY PhaseFacts DEF PostInspect
<1> QED
  BY <1>1, NameAssumption, BoundAssumption
     DEF TypeOK, Finishing, Replaced, EndedWith, PostInspect, diskVars,
         dockerVars, counters, Version, All, Call, NoWork, Worker

LEMMA OutcomePostNotifies ==
  ASSUME TypeOK, Phases, pc["restart"] = "idle", PostNotifies
  PROVE  pc'["restart"] = "idle" /\ Finishing'
<1>1. Finishing
  BY PhaseFacts DEF PostNotifies
<1> QED
  BY <1>1, NameAssumption, BoundAssumption
     DEF TypeOK, Finishing, Replaced, EndedWith, PostNotifies, diskVars,
         dockerVars, counters, Version, All, Call, NoWork, Worker

LEMMA OutcomePostRollsBack ==
  ASSUME TypeOK, Phases, pc["restart"] = "idle", PostRollsBack
  PROVE  pc'["restart"] = "idle" /\ Resting'
<1>1. Finishing
  BY PhaseFacts DEF PostRollsBack
<1> QED
  BY <1>1, NameAssumption, BoundAssumption
     DEF TypeOK, Finishing, Replaced, EndedWith, Resting, PostRollsBack,
         RestoreFiles, dockerVars, counters, Version, All, Call, NoWork, Worker

LEMMA OutcomePostFinishes ==
  ASSUME TypeOK, Phases, pc["restart"] = "idle", NEW p \in All, PostFinishes(p)
  PROVE  pc'["restart"] = "idle" /\ Resting'
<1>1. Finishing
  BY PhaseFacts DEF PostFinishes
<1> QED
  BY <1>1, NameAssumption, BoundAssumption
     DEF TypeOK, Finishing, Replaced, EndedWith, Resting, PostFinishes,
         dockerVars, counters, Version, All, Call, NoWork, Worker

LEMMA OutcomePostRemoves ==
  ASSUME TypeOK, Phases, pc["restart"] = "idle", PostRemoves
  PROVE  pc'["restart"] = "idle" /\ Resting'
<1>1. Resting
  BY PhaseFacts DEF PostRemoves
<1> QED
  BY <1>1, NameAssumption, BoundAssumption
     DEF TypeOK, Resting, PostRemoves, diskVars, counters, Version, All, Call,
         NoWork, Worker

LEMMA OutcomeUndoUp ==
  ASSUME TypeOK, Phases, pc["restart"] = "idle", NEW w \in Worker, NEW p \in Pkg, UndoUp(w, p)
  PROVE  pc'["restart"] = "idle" /\ Phases'
<1>1. Resting \/ Working \/ Undoing
  BY PhaseFacts DEF Phases, UndoUp, Down, Finishing, NoWork, Worker
<1>2. CASE Resting
  <2>1. pc'["restart"] = "idle" /\ Resting'
    BY <1>2, NameAssumption
       DEF TypeOK, Resting, UndoUp, diskVars, postVars, counters, Version, All,
         Call, NoWork, Worker
  <2> QED
    BY <2>1 DEF Phases
<1>3. CASE Working
  <2>1. pc'["restart"] = "idle" /\ Working'
    BY <1>3, NameAssumption
       DEF TypeOK, Working, Busy, UndoUp, diskVars, postVars, counters, Version,
         All, Call, NoWork, Worker
  <2> QED
    BY <2>1 DEF Phases
<1>4. CASE Undoing
  <2>1. pc'["restart"] = "idle" /\ Undoing'
    BY <1>4, NameAssumption
       DEF TypeOK, Undoing, UndoUp, diskVars, postVars, counters, Version, All,
         Call, NoWork, Worker
  <2> QED
    BY <2>1 DEF Phases
<1> QED
  BY <1>1, <1>2, <1>3, <1>4

LEMMA OutcomeClean ==
  ASSUME TypeOK, Phases, pc["restart"] = "idle", NEW w \in Worker, NEW p \in All, Clean(w, p)
  PROVE  pc'["restart"] = "idle" /\ Resting'
<1>1. Resting
  BY PhaseFacts DEF Clean, Phases, Working, Undoing,
     Down, Finishing, NoWork, Worker
<1> QED
  BY <1>1, NameAssumption, BoundAssumption
     DEF TypeOK, Resting, Clean, dockerVars, postVars, counters, Version, All,
         Call, NoWork, Worker

LEMMA OutcomeNext ==
  ASSUME {"overlap", "slow"} \cap Faults = {}, TypeOK, OutcomeInv, [Next]_vars
  PROVE  OutcomeInv'
<1> SUFFICES ASSUME Uninterrupted'
             PROVE  pc'["restart"] = "idle" /\ Phases'
  BY DEF OutcomeInv
<1>1. CASE UNCHANGED vars
  BY <1>1
     DEF vars, diskVars, dockerVars, procVars, postVars, counters, OutcomeInv,
         Uninterrupted, Phases, Resting, Working, Busy, Undoing, Down, Replaced,
         Finishing, EndedWith
<1>2. CASE PlainRestart \/ Reboot \/ PostInspectFails
  \* none of them leaves the update uninterrupted
  BY <1>2 DEF PlainRestart, Reboot, PostInspectFails, Uninterrupted, TypeOK
<1>3. CASE Next /\ ~(PlainRestart \/ Reboot \/ PostInspectFails)
  <2>1. Uninterrupted
    BY <1>3
       DEF Next, CallStep, ScriptStep, PostStep, Uninterrupted, counters,
           WriteFiles, RunPackages, UpdateEnds, WaitEnds, RemoveOld, Launch,
           ShellFails, ShellResolves, ScriptStops, ScriptStarts, ScriptFails,
           ScriptFallsBack, ScriptExits, PostInspect, PostNothing,
           PostRollsBack, PostNotifies, PostRemoves, PostFinishes, UndoUp, Clean
  <2>2. Phases /\ pc["restart"] = "idle"
    BY <2>1 DEF OutcomeInv
  <2>3. CASE WriteFiles \/ RunPackages \/ UpdateEnds
    BY <2>2, <2>3, OutcomeWriteFiles, OutcomeRunPackages, OutcomeUpdateEnds
       DEF Phases
  <2>4. ASSUME NEW c \in Call, CallStep(c)
        PROVE  pc'["restart"] = "idle" /\ Phases'
    BY <2>2, <2>4, OutcomeWaitEnds, OutcomeRemoveOld, OutcomeLaunch,
       OutcomeShellFails, OutcomeShellResolves DEF CallStep, Phases
  <2>5. CASE ScriptStep
    BY <2>2, <2>5, OutcomeScriptStops, OutcomeScriptStarts, OutcomeScriptFails,
       OutcomeScriptFallsBack, OutcomeScriptExits DEF ScriptStep, Phases
  <2>6. CASE PostStep
    <3>1. ~PostNothing
      BY <2>2, PhaseFacts, NameAssumption, BoundAssumption
         DEF PostNothing, Finishing, Replaced, TypeOK, Version
    <3> QED
      BY <1>3, <2>2, <2>6, <3>1, OutcomePostInspect, OutcomePostNotifies,
         OutcomePostRollsBack, OutcomePostFinishes, OutcomePostRemoves
         DEF PostStep, Phases
  <2>7. ASSUME NEW w \in Worker, NEW p \in All,
               (p \in Pkg /\ UndoUp(w, p)) \/ Clean(w, p)
        PROVE  pc'["restart"] = "idle" /\ Phases'
    BY <2>2, <2>7, OutcomeUndoUp, OutcomeClean DEF Phases
  <2> QED
    BY <1>3, <2>3, <2>4, <2>5, <2>6, <2>7 DEF Next, All
<1> QED
  BY <1>1, <1>2, <1>3

LEMMA OutcomeImplies ==
  ASSUME TypeOK, OutcomeInv
  PROVE  AllOrNothing
BY NameAssumption
   DEF AllOrNothing, Quiet, OutcomeInv, Phases, Resting, Working, Busy,
       Undoing, Down, Finishing, NoWork, Worker, Call, All

\* Whatever fails in an update that nobody interrupts, it ends with the whole
\* core at one version.
THEOREM UpdateAllOrNothing ==
  {"overlap", "slow"} \cap Faults = {} => (Spec => []AllOrNothing)
<1> SUFFICES ASSUME {"overlap", "slow"} \cap Faults = {}
             PROVE  Spec => []AllOrNothing
  OBVIOUS
<1>1. Init => TypeOK /\ OutcomeInv
  BY TypeInit, OutcomeInit
<1>2. TypeOK /\ OutcomeInv /\ [Next]_vars => TypeOK' /\ OutcomeInv'
  BY TypeNext, OutcomeNext
<1>3. TypeOK /\ OutcomeInv => AllOrNothing
  BY OutcomeImplies
<1> QED
  BY <1>1, <1>2, <1>3, PTL DEF Spec

\* The script of an update always finds the backup it falls back to, the file
\* that ran before if nobody interrupted.
THEOREM UpdateFallsBack ==
  {"overlap", "slow"} \cap Faults = {} => (Spec => []FallbackHasBackup)
<1> SUFFICES ASSUME {"overlap", "slow"} \cap Faults = {}
             PROVE  Spec => []FallbackHasBackup
  OBVIOUS
<1>1. Init => BackupInv /\ OutcomeInv
  BY BackupInit, OutcomeInit
<1>2. BackupInv /\ OutcomeInv /\ [Next]_vars => BackupInv' /\ OutcomeInv'
  BY BackupNext, OutcomeNext DEF BackupInv
<1>3. BackupInv /\ OutcomeInv => FallbackHasBackup
  BY PhaseFacts
     DEF BackupInv, ScriptInv, OutcomeInv, FallbackHasBackup, Working, Down, All
<1> QED
  BY <1>1, <1>2, <1>3, PTL DEF Spec

-----------------------------------------------------------------------------
(* What the next process finds.  An update writes the files and ups the     *)
(* packages before it starts the restart container, and nothing touches     *)
(* them until the process the script starts has read the exit code.         *)

AtDappmanager == pc["update"] \in {"wait", "remove", "shell", "attached"}
Unsettled     == post \in {"wait", "decide", "notify"}
AllNew        == \A p \in All : cont[p] = tried

ReplacedInv ==
  /\ Busy \/ (owner = "update" /\ script = "start") => \A p \in All : file[p] = tried
  /\ AtDappmanager \/ (owner = "update" /\ script = "start") =>
       \A p \in Pkg : cont[p] = tried

ProcessInv ==
  /\ script = "up" => alive
  /\ script = "start" => ~alive
  /\ ~alive => post = "done"
  /\ Unsettled => undo = NoWork

ExitInv ==
  owner = "update" /\ reboots = 0 /\ Unsettled =>
    /\ post = "wait" /\ (script = "exit" \/ (box = "exited" /\ code = 0)) => AllNew
    /\ post # "wait" /\ seen = 0 => AllNew
    /\ post = "notify" => seen = 0

FinishInv == BackupInv /\ ReplacedInv /\ ProcessInv /\ ExitInv

LEMMA FinishWriteFiles ==
  ASSUME FinishInv, WriteFiles, "overlap" \notin Faults
  PROVE  ReplacedInv' /\ ProcessInv' /\ ExitInv'
BY NameAssumption, BoundAssumption
   DEF FinishInv, BackupInv, TypeOK, Alone, ScriptInv, ReplacedInv, ProcessInv,
       ExitInv, Busy, AtDappmanager, Unsettled, AllNew,
       WriteFiles, dockerVars, postVars, Version, All, Call, NoWork, Worker

LEMMA FinishRunPackages ==
  ASSUME FinishInv, RunPackages
  PROVE  ReplacedInv' /\ ProcessInv' /\ ExitInv'
BY NameAssumption, BoundAssumption
   DEF FinishInv, BackupInv, TypeOK, Alone, ScriptInv, ReplacedInv, ProcessInv,
       ExitInv, Busy, AtDappmanager, Unsettled, AllNew,
       RunPackages, diskVars, postVars, counters, All, Call

LEMMA FinishPlainRestart ==
  ASSUME FinishInv, PlainRestart
  PROVE  ReplacedInv' /\ ProcessInv' /\ ExitInv'
BY NameAssumption, BoundAssumption
   DEF FinishInv, BackupInv, TypeOK, Alone, ScriptInv, ReplacedInv, ProcessInv,
       ExitInv, Busy, AtDappmanager, Unsettled, AllNew,
       PlainRestart, diskVars, dockerVars, postVars, Call

LEMMA FinishUpdateEnds ==
  ASSUME FinishInv, UpdateEnds
  PROVE  ReplacedInv' /\ ProcessInv' /\ ExitInv'
BY NameAssumption, BoundAssumption
   DEF FinishInv, BackupInv, TypeOK, Alone, ScriptInv, ReplacedInv, ProcessInv,
       ExitInv, Busy, AtDappmanager, Unsettled, AllNew,
       UpdateEnds, diskVars, dockerVars, postVars, counters, Call

LEMMA FinishWaitEnds ==
  ASSUME FinishInv, NEW c \in Call, WaitEnds(c)
  PROVE  ReplacedInv' /\ ProcessInv' /\ ExitInv'
BY NameAssumption, BoundAssumption
   DEF FinishInv, BackupInv, TypeOK, Alone, ScriptInv, ReplacedInv, ProcessInv,
       ExitInv, Busy, AtDappmanager, Unsettled, AllNew,
       WaitEnds, HandOver, dockerVars, postVars, counters, Call

LEMMA FinishRemoveOld ==
  ASSUME FinishInv, NEW c \in Call, RemoveOld(c)
  PROVE  ReplacedInv' /\ ProcessInv' /\ ExitInv'
BY NameAssumption, BoundAssumption
   DEF FinishInv, BackupInv, TypeOK, Alone, ScriptInv, ReplacedInv, ProcessInv,
       ExitInv, Busy, AtDappmanager, Unsettled, AllNew,
       RemoveOld, HandOver, postVars, counters, Call

LEMMA FinishLaunch ==
  ASSUME FinishInv, NEW c \in Call, Launch(c)
  PROVE  ReplacedInv' /\ ProcessInv' /\ ExitInv'
BY NameAssumption, BoundAssumption
   DEF FinishInv, BackupInv, TypeOK, Alone, ScriptInv, ReplacedInv, ProcessInv,
       ExitInv, Busy, AtDappmanager, Unsettled, AllNew,
       Launch, diskVars, postVars, counters, Call

LEMMA FinishShellFails ==
  ASSUME FinishInv, NEW c \in Call, ShellFails(c)
  PROVE  ReplacedInv' /\ ProcessInv' /\ ExitInv'
BY NameAssumption, BoundAssumption
   DEF FinishInv, BackupInv, TypeOK, Alone, ScriptInv, ReplacedInv, ProcessInv,
       ExitInv, Busy, AtDappmanager, Unsettled, AllNew,
       ShellFails, RestoreFiles, dockerVars, postVars, counters, Call

LEMMA FinishShellResolves ==
  ASSUME FinishInv, NEW c \in Call, ShellResolves(c)
  PROVE  ReplacedInv' /\ ProcessInv' /\ ExitInv'
BY NameAssumption, BoundAssumption
   DEF FinishInv, BackupInv, TypeOK, Alone, ScriptInv, ReplacedInv, ProcessInv,
       ExitInv, Busy, AtDappmanager, Unsettled, AllNew,
       ShellResolves, dockerVars, postVars, counters, Call

LEMMA FinishScriptStops ==
  ASSUME FinishInv, ScriptStops
  PROVE  ReplacedInv' /\ ProcessInv' /\ ExitInv'
BY NameAssumption, BoundAssumption
   DEF FinishInv, BackupInv, TypeOK, Alone, ScriptInv, ReplacedInv, ProcessInv,
       ExitInv, Busy, AtDappmanager, Unsettled, AllNew,
       ScriptStops, diskVars, counters, All, Call

LEMMA FinishScriptStarts ==
  ASSUME FinishInv, ScriptStarts
  PROVE  ReplacedInv' /\ ProcessInv' /\ ExitInv'
BY NameAssumption, BoundAssumption
   DEF FinishInv, BackupInv, TypeOK, Alone, ScriptInv, ReplacedInv, ProcessInv,
       ExitInv, Busy, AtDappmanager, Unsettled, AllNew,
       ScriptStarts, FreshProcess, diskVars, counters, All, Call

LEMMA FinishScriptFails ==
  ASSUME FinishInv, ScriptFails
  PROVE  ReplacedInv' /\ ProcessInv' /\ ExitInv'
BY NameAssumption, BoundAssumption
   DEF FinishInv, BackupInv, TypeOK, Alone, ScriptInv, ReplacedInv, ProcessInv,
       ExitInv, Busy, AtDappmanager, Unsettled, AllNew,
       ScriptFails, diskVars, procVars, postVars, counters

LEMMA FinishScriptFallsBack ==
  ASSUME FinishInv, ScriptFallsBack
  PROVE  ReplacedInv' /\ ProcessInv' /\ ExitInv'
BY NameAssumption, BoundAssumption
   DEF FinishInv, BackupInv, TypeOK, Alone, ScriptInv, ReplacedInv, ProcessInv,
       ExitInv, Busy, AtDappmanager, Unsettled, AllNew,
       ScriptFallsBack, FreshProcess, diskVars, procVars, postVars, counters, All, Call

LEMMA FinishScriptExits ==
  ASSUME FinishInv, ScriptExits
  PROVE  ReplacedInv' /\ ProcessInv' /\ ExitInv'
BY NameAssumption, BoundAssumption
   DEF FinishInv, BackupInv, TypeOK, Alone, ScriptInv, ReplacedInv, ProcessInv,
       ExitInv, Busy, AtDappmanager, Unsettled, AllNew,
       ScriptExits, diskVars, procVars, postVars, counters

LEMMA FinishPostInspect ==
  ASSUME FinishInv, PostInspect, "slow" \notin Faults
  PROVE  ReplacedInv' /\ ProcessInv' /\ ExitInv'
BY NameAssumption, BoundAssumption
   DEF FinishInv, BackupInv, TypeOK, Alone, ScriptInv, ReplacedInv, ProcessInv,
       ExitInv, Busy, AtDappmanager, Unsettled, AllNew,
       PostInspect, diskVars, dockerVars, counters

LEMMA FinishPostRollsBack ==
  ASSUME FinishInv, PostRollsBack
  PROVE  ReplacedInv' /\ ProcessInv' /\ ExitInv'
BY NameAssumption, BoundAssumption
   DEF FinishInv, BackupInv, TypeOK, Alone, ScriptInv, ReplacedInv, ProcessInv,
       ExitInv, Busy, AtDappmanager, Unsettled, AllNew,
       PostRollsBack, RestoreFiles, dockerVars, counters, Worker

LEMMA FinishPostFinishes ==
  ASSUME FinishInv, NEW p \in All, PostFinishes(p)
  PROVE  ReplacedInv' /\ ProcessInv' /\ ExitInv'
BY NameAssumption, BoundAssumption
   DEF FinishInv, BackupInv, TypeOK, Alone, ScriptInv, ReplacedInv, ProcessInv,
       ExitInv, Busy, AtDappmanager, Unsettled, AllNew,
       PostFinishes, dockerVars, counters

LEMMA FinishPostOthers ==
  ASSUME FinishInv,
         PostInspectFails \/ PostNothing \/ PostNotifies \/ PostRemoves
  PROVE  ReplacedInv' /\ ProcessInv' /\ ExitInv'
BY NameAssumption, BoundAssumption
   DEF FinishInv, BackupInv, TypeOK, Alone, ScriptInv, ReplacedInv, ProcessInv,
       ExitInv, Busy, AtDappmanager, Unsettled, AllNew,
       PostInspectFails, PostNothing, PostNotifies, PostRemoves, diskVars,
       dockerVars, counters

LEMMA FinishUndoUp ==
  ASSUME FinishInv, NEW w \in Worker, NEW p \in Pkg, UndoUp(w, p)
  PROVE  ReplacedInv' /\ ProcessInv' /\ ExitInv'
BY NameAssumption, BoundAssumption
   DEF FinishInv, BackupInv, TypeOK, Alone, ScriptInv, ReplacedInv, ProcessInv,
       ExitInv, Busy, AtDappmanager, Unsettled, AllNew,
       UndoUp, diskVars, postVars, counters, All, NoWork

LEMMA FinishClean ==
  ASSUME FinishInv, NEW w \in Worker, NEW p \in All, Clean(w, p)
  PROVE  ReplacedInv' /\ ProcessInv' /\ ExitInv'
BY NameAssumption, BoundAssumption
   DEF FinishInv, BackupInv, TypeOK, Alone, ScriptInv, ReplacedInv, ProcessInv,
       ExitInv, Busy, AtDappmanager, Unsettled, AllNew,
       Clean, dockerVars, postVars, counters

LEMMA FinishReboot ==
  ASSUME FinishInv, Reboot
  PROVE  ReplacedInv' /\ ProcessInv' /\ ExitInv'
BY NameAssumption, BoundAssumption
   DEF FinishInv, BackupInv, TypeOK, Alone, ScriptInv, ReplacedInv, ProcessInv,
       ExitInv, Busy, AtDappmanager, Unsettled, AllNew,
       Reboot, FreshProcess, diskVars, procVars, postVars, Call

LEMMA FinishStutter ==
  ASSUME FinishInv, UNCHANGED vars
  PROVE  ReplacedInv' /\ ProcessInv' /\ ExitInv'
BY NameAssumption, BoundAssumption
   DEF FinishInv, BackupInv, TypeOK, Alone, ScriptInv, ReplacedInv, ProcessInv,
       ExitInv, Busy, AtDappmanager, Unsettled, AllNew,
       vars, diskVars, dockerVars, procVars, postVars, counters

LEMMA FinishNext ==
  ASSUME {"overlap", "slow"} \cap Faults = {}, FinishInv, [Next]_vars
  PROVE  FinishInv'
<1>1. BackupInv'
  BY BackupNext DEF FinishInv
<1>2. ReplacedInv' /\ ProcessInv' /\ ExitInv'
  <2>1. CASE UNCHANGED vars
    BY <2>1, FinishStutter
  <2>2. ASSUME NEW c \in Call, CallStep(c)
        PROVE  ReplacedInv' /\ ProcessInv' /\ ExitInv'
    BY <2>2, FinishWaitEnds, FinishRemoveOld, FinishLaunch, FinishShellFails,
       FinishShellResolves DEF CallStep
  <2>3. CASE ScriptStep
    BY <2>3, FinishScriptStops, FinishScriptStarts, FinishScriptFails,
       FinishScriptFallsBack, FinishScriptExits DEF ScriptStep
  <2>4. CASE PostStep
    BY <2>4, FinishPostInspect, FinishPostRollsBack, FinishPostFinishes,
       FinishPostOthers DEF PostStep
  <2>5. CASE WriteFiles \/ RunPackages \/ PlainRestart \/ UpdateEnds \/ Reboot
    BY <2>5, FinishWriteFiles, FinishRunPackages, FinishPlainRestart,
       FinishUpdateEnds, FinishReboot
  <2>6. ASSUME NEW w \in Worker, NEW p \in All,
               (p \in Pkg /\ UndoUp(w, p)) \/ Clean(w, p)
        PROVE  ReplacedInv' /\ ProcessInv' /\ ExitInv'
    BY <2>6, FinishUndoUp, FinishClean
  <2> QED
    BY <2>1, <2>2, <2>3, <2>4, <2>5, <2>6 DEF Next, All
<1> QED
  BY <1>1, <1>2 DEF FinishInv

\* What the user is told of an update is true of every container of the core,
\* however many plain restarts of the dappmanager came in between.
THEOREM UpdateFinishesNew ==
  {"overlap", "slow"} \cap Faults = {} => (Spec => []FinishedIsNew)
<1> SUFFICES ASSUME {"overlap", "slow"} \cap Faults = {}
             PROVE  Spec => []FinishedIsNew
  OBVIOUS
<1>1. Init => FinishInv
  BY BackupInit
     DEF Init, FinishInv, ReplacedInv, ProcessInv, ExitInv, Busy, AtDappmanager,
         Unsettled, Call
<1>2. FinishInv /\ [Next]_vars => FinishInv'
  BY FinishNext
<1>3. FinishInv => FinishedIsNew
  BY DEF FinishInv, ExitInv, FinishedIsNew, Unsettled, AllNew
<1> QED
  BY <1>1, <1>2, <1>3, PTL DEF Spec

-----------------------------------------------------------------------------
(* An update that is not interrupted (Uninterrupted) implements             *)
(* AtomicUpdate.  The phases of OutcomeInv say on which side of the decision *)
(* a state is; what they do not say is that an open update is of a version   *)
(* that the dappmanager does not run yet, so that its start is the decision. *)

Failed == Finishing /\ EndedWith("failed", 1)

Ahead ==
  /\ cont[DM] <= tried
  /\ Working \/ Down \/ Failed => cont[DM] < tried

\* Which phases are open.
Sides ==
  /\ Resting \/ Undoing => ~Undecided
  /\ Working \/ Down \/ Failed => Undecided
  /\ Finishing /\ ~Failed => ~Undecided

LEMMA OpenPhases == TypeOK /\ Ahead => Sides
BY NameAssumption, BoundAssumption
   DEF TypeOK, Ahead, Sides, Failed, Resting, Working, Busy, Undoing, Down,
       Replaced, Finishing, EndedWith, Undecided, Version, All

LEMMA OpenPhasesNext == TypeOK' /\ Ahead' => Sides'
BY OpenPhases, PTL

\* A step that leaves the containers and the version is a stutter, if it stays
\* on its side, or gives the update up.
LEMMA AtomicStutter ==
  ASSUME UNCHANGED <<cont, tried>>, Undecided' <=> Undecided
  PROVE  [Atomic!Next]_Atomic!vars
<1>1. Undecided' = Undecided
  BY DEF Undecided
<1> QED
  BY <1>1 DEF Atomic!vars

LEMMA AtomicAbort ==
  ASSUME UNCHANGED <<cont, tried>>, Undecided, ~Undecided'
  PROVE  [Atomic!Next]_Atomic!vars
<1>1. Undecided' = FALSE
  OBVIOUS
<1> QED
  BY <1>1 DEF Atomic!Next, Atomic!Abort

\* The phases a step leaves and reaches, and what it does to the containers.
LEMMA AtomicWriteFiles ==
  ASSUME TypeOK, TypeOK', Phases, Ahead, pc["restart"] = "idle",
         "overlap" \notin Faults, WriteFiles
  PROVE  Ahead' /\ [Atomic!Next]_Atomic!vars
<1>1. Resting /\ Working'
  BY PhaseFacts, OutcomeWriteFiles DEF WriteFiles
<1>2. cont' = cont /\ tried' = tried + 1
  BY DEF WriteFiles, dockerVars
<1>3. Ahead'
  BY <1>2, BoundAssumption DEF Ahead, TypeOK, Version, All
<1>4. ~Undecided /\ Undecided'
  BY <1>1, <1>3, OpenPhases, OpenPhasesNext DEF Sides
<1>5. Undecided' = TRUE
  BY <1>4 DEF Undecided
<1>6. Atomic!Begin
  BY <1>2, <1>4, <1>5 DEF Atomic!Begin
<1> QED
  BY <1>3, <1>6 DEF Atomic!Next

LEMMA AtomicRunPackages ==
  ASSUME TypeOK, TypeOK', Phases, Ahead, pc["restart"] = "idle", RunPackages
  PROVE  Ahead' /\ [Atomic!Next]_Atomic!vars
<1>1. Working /\ Working'
  BY PhaseFacts, OutcomeRunPackages DEF RunPackages
<1>2. /\ cont' = [p \in All |-> IF p \in Pkg THEN tried ELSE cont[p]]
      /\ tried' = tried /\ cont'[DM] = cont[DM]
  BY <1>1, NameAssumption DEF RunPackages, counters, Working, All
<1>3. Ahead'
  BY <1>1, <1>2 DEF Ahead
<1>4. Undecided /\ Undecided'
  BY <1>1, <1>3, OpenPhases, OpenPhasesNext DEF Sides
<1>5. Undecided' = Undecided
  BY <1>4 DEF Undecided
<1>6. Atomic!Advance
  <2>1. Pkg \in SUBSET Pkg
    OBVIOUS
  <2> QED
    BY <1>2, <1>4, <1>5, <2>1 DEF Atomic!Advance, All
<1> QED
  BY <1>3, <1>6 DEF Atomic!Next

\* The steps that leave the containers and the version, and stay on their side.
LEMMA AtomicSame ==
  ASSUME TypeOK, TypeOK', Ahead, UNCHANGED <<cont, tried>>,
         \/ (Resting \/ Undoing) /\ (Resting \/ Undoing)'
         \/ (Working \/ Down \/ Failed) /\ (Working \/ Down \/ Failed)'
         \/ (Finishing /\ ~Failed) /\ ((Finishing /\ ~Failed) \/ Resting)'
  PROVE  Ahead' /\ [Atomic!Next]_Atomic!vars
<1>1. cont[DM] <= tried
  BY DEF Ahead
<1>2. Ahead'
  <2>1. (Working \/ Down \/ Failed)' => cont[DM] < tried
    BY DEF Ahead, Failed, Resting, Undoing, Working, Busy, Down, Finishing,
           EndedWith
  <2> QED
    BY <1>1, <2>1 DEF Ahead
<1>3. Undecided' <=> Undecided
  BY <1>2, OpenPhases, OpenPhasesNext DEF Sides
<1> QED
  BY <1>2, <1>3, AtomicStutter

LEMMA AtomicUpdateEnds ==
  ASSUME TypeOK, TypeOK', Phases, Ahead, pc["restart"] = "idle", UpdateEnds
  PROVE  Ahead' /\ [Atomic!Next]_Atomic!vars
<1>1. Undoing /\ Resting'
  BY PhaseFacts, OutcomeUpdateEnds DEF UpdateEnds
<1>2. UNCHANGED <<cont, tried>>
  BY DEF UpdateEnds, dockerVars, counters
<1> QED
  BY <1>1, <1>2, AtomicSame

LEMMA AtomicCallStep ==
  ASSUME TypeOK, TypeOK', Phases, Ahead, pc["restart"] = "idle",
         NEW c \in Call, CallStep(c)
  PROVE  Ahead' /\ [Atomic!Next]_Atomic!vars
<1>1. c = "update"
  BY DEF CallStep, WaitEnds, RemoveOld, Launch, ShellFails, ShellResolves, Call
<1>2. Working
  BY <1>1, PhaseFacts
     DEF CallStep, WaitEnds, RemoveOld, Launch, ShellFails, ShellResolves
<1>3. UNCHANGED <<cont, tried>>
  BY DEF CallStep, WaitEnds, RemoveOld, Launch, ShellFails, ShellResolves,
         dockerVars, counters
<1>4. CASE ShellFails(c)
  \* the update is given up
  <2>1. Undoing'
    BY <1>4, OutcomeShellFails
  <2>2. Ahead'
    BY <1>3, <2>1
       DEF Ahead, Failed, Undoing, Working, Busy, Down, Finishing
  <2>3. Undecided /\ ~Undecided'
    BY <1>2, <2>1, <2>2, OpenPhases, OpenPhasesNext DEF Sides
  <2> QED
    BY <1>3, <2>2, <2>3, AtomicAbort
<1>5. CASE ~ShellFails(c)
  <2>1. Working'
    BY <1>5, OutcomeWaitEnds, OutcomeRemoveOld, OutcomeLaunch,
       OutcomeShellResolves DEF CallStep
  <2> QED
    BY <1>2, <1>3, <2>1, AtomicSame
<1> QED
  BY <1>4, <1>5

\* The new dappmanager starts: the decision.
LEMMA AtomicScriptStarts ==
  ASSUME TypeOK, TypeOK', Phases, Ahead, pc["restart"] = "idle", ScriptStarts
  PROVE  Ahead' /\ [Atomic!Next]_Atomic!vars
<1>1. Down /\ Finishing'
  BY PhaseFacts, OutcomeScriptStarts DEF ScriptStarts
<1>2. ~Failed'
  BY DEF Failed, EndedWith, ScriptStarts
<1>3. /\ cont' = [cont EXCEPT ![DM] = tried] /\ tried' = tried
      /\ \A p \in Pkg : cont[p] = tried
  BY <1>1 DEF Down, Replaced, ScriptStarts, counters, All
<1>4. Ahead'
  <2>1. cont'[DM] <= tried'
    BY <1>3, BoundAssumption DEF TypeOK, Version, All
  <2>2. ~(Working \/ Down)'
    BY <1>1 DEF Working, Busy, Down, Finishing
  <2> QED
    BY <1>2, <2>1, <2>2 DEF Ahead
<1>5. Undecided /\ ~Undecided'
  BY <1>1, <1>2, <1>4, OpenPhases, OpenPhasesNext DEF Sides
<1>6. Undecided' = FALSE
  BY <1>5
<1>7. Atomic!Commit
  BY <1>3, <1>5, <1>6 DEF Atomic!Commit
<1> QED
  BY <1>4, <1>7 DEF Atomic!Next

\* The other steps of the script leave the containers, or up the version that
\* runs, and the side of the decision.
LEMMA AtomicScriptStep ==
  ASSUME TypeOK, TypeOK', Phases, Ahead, pc["restart"] = "idle",
         ScriptStep, ~ScriptStarts
  PROVE  Ahead' /\ [Atomic!Next]_Atomic!vars
<1>1. CASE ScriptStops
  <2>1. Working /\ Down' /\ UNCHANGED <<cont, tried>>
    BY <1>1, PhaseFacts, OutcomeScriptStops DEF ScriptStops, counters
  <2> QED
    BY <2>1, AtomicSame
<1>2. CASE ScriptFails
  <2>1. (Working \/ Down) /\ UNCHANGED <<cont, tried>>
    BY <1>2, PhaseFacts DEF ScriptFails, counters
  <2>2. Phases' /\ script' = "fallback"
    BY <1>2, OutcomeScriptFails DEF ScriptFails
  <2>3. (Working \/ Down)'
    BY <2>2 DEF Phases, Resting, Undoing, Finishing, EndedWith
  <2> QED
    BY <2>1, <2>3, AtomicSame
<1>3. CASE ScriptFallsBack
  <2>1. Working \/ Down
    BY <1>3, PhaseFacts DEF ScriptFallsBack
  <2>2. backup[DM] = cont[DM]
    BY <2>1 DEF Working, Down, All
  <2>3. UNCHANGED <<cont, tried>>
    BY <1>3, <2>2 DEF ScriptFallsBack, TypeOK, counters, All
  <2>4. Phases' /\ script' = "failed"
    BY <1>3, OutcomeScriptFallsBack DEF ScriptFallsBack
  <2>5. (Working \/ Failed)'
    BY <2>4 DEF Phases, Resting, Undoing, Down, Failed, Finishing, EndedWith
  <2> QED
    BY <2>1, <2>3, <2>5, AtomicSame
<1>4. CASE ScriptExits
  <2>1. Working \/ Finishing
    BY <1>4, PhaseFacts DEF Phases, ScriptExits
  <2>2. Phases' /\ UNCHANGED <<cont, tried, pc, post, alive>>
    BY <1>4, OutcomeScriptExits DEF ScriptExits, procVars, postVars, counters
  <2>3. CASE Working
    <3>1. Working'
      BY <2>2, <2>3
         DEF Phases, Resting, Undoing, Down, Finishing, Working, Busy
    <3> QED
      BY <2>2, <2>3, <3>1, AtomicSame
  <2>4. CASE Finishing
    <3>1. Finishing'
      BY <2>2, <2>4
         DEF Phases, Resting, Undoing, Down, Finishing, Working, Busy
    <3>2. Failed <=> Failed'
      BY <1>4, <2>4, <3>1 DEF Failed, Finishing, EndedWith, ScriptExits
    <3> QED
      BY <2>2, <2>4, <3>1, <3>2, AtomicSame
  <2> QED
    BY <2>1, <2>3, <2>4
<1> QED
  BY <1>1, <1>2, <1>3, <1>4 DEF ScriptStep

LEMMA AtomicPostStep ==
  ASSUME TypeOK, TypeOK', Phases, Ahead, pc["restart"] = "idle",
         "slow" \notin Faults, PostStep, ~PostNothing, ~PostInspectFails
  PROVE  Ahead' /\ [Atomic!Next]_Atomic!vars
<1>1. UNCHANGED <<cont, tried>>
  BY DEF PostStep, PostInspect, PostNothing, PostRollsBack, PostNotifies,
         PostRemoves, PostFinishes, dockerVars, counters
<1>2. CASE PostInspect \/ PostNotifies
  <2>1. Finishing /\ Finishing'
    BY <1>2, PhaseFacts, OutcomePostInspect, OutcomePostNotifies
       DEF PostInspect, PostNotifies
  <2>2. Failed <=> Failed'
    BY <1>2, <2>1
       DEF Failed, EndedWith, PostInspect, PostNotifies, dockerVars
  <2> QED
    BY <1>1, <2>1, <2>2, AtomicSame
<1>3. CASE PostRollsBack
  \* the update is given up
  <2>1. Finishing /\ Resting'
    BY <1>3, PhaseFacts, OutcomePostRollsBack DEF PostRollsBack
  <2>2. Failed
    BY <1>3, <2>1 DEF Failed, Finishing, EndedWith, PostRollsBack
  <2>3. Ahead'
    BY <1>1, <2>1 DEF Ahead, Failed, Resting, Working, Busy, Down, Finishing
  <2>4. Undecided /\ ~Undecided'
    BY <2>1, <2>2, <2>3, OpenPhases, OpenPhasesNext DEF Sides
  <2> QED
    BY <1>1, <2>3, <2>4, AtomicAbort
<1>4. ASSUME NEW p \in All, PostFinishes(p)
      PROVE  Ahead' /\ [Atomic!Next]_Atomic!vars
  <2>1. Finishing /\ Resting'
    BY <1>4, PhaseFacts, OutcomePostFinishes DEF PostFinishes
  <2>2. ~Failed
    BY <1>4, <2>1 DEF Failed, Finishing, EndedWith, PostFinishes
  <2> QED
    BY <1>1, <2>1, <2>2, AtomicSame
<1>5. CASE PostRemoves
  <2>1. Resting /\ Resting'
    BY <1>5, PhaseFacts, OutcomePostRemoves DEF PostRemoves
  <2> QED
    BY <1>1, <2>1, AtomicSame
<1> QED
  BY <1>2, <1>3, <1>4, <1>5 DEF PostStep

\* A roll back takes a package to the version of the dappmanager, or, one that
\* was under way when the next update wrote its files, to the new version.
LEMMA AtomicUndoUp ==
  ASSUME TypeOK, TypeOK', Phases, Ahead, pc["restart"] = "idle",
         NEW w \in Worker, NEW p \in Pkg, UndoUp(w, p)
  PROVE  Ahead' /\ [Atomic!Next]_Atomic!vars
<1>1. /\ cont' = [cont EXCEPT ![p] = file[p]] /\ cont'[DM] = cont[DM]
      /\ tried' = tried /\ p # DM
  BY NameAssumption DEF UndoUp, counters, TypeOK, All
<1>2. Resting \/ Working \/ Undoing
  BY PhaseFacts DEF Phases, UndoUp, Down, Finishing, NoWork, Worker
<1>3. Phases' /\ UNCHANGED <<pc, post, alive, record, flagged>>
  BY OutcomeUndoUp DEF UndoUp, diskVars, postVars
<1>4. CASE Resting \/ Undoing
  <2>1. (Resting \/ Undoing)'
    BY <1>3, <1>4
       DEF Phases, Resting, Undoing, Working, Busy, Down, Finishing
  <2>2. Ahead'
    BY <1>1, <2>1
       DEF Ahead, Failed, Resting, Undoing, Working, Busy, Down, Finishing
  <2>3. ~Undecided /\ ~Undecided'
    BY <1>4, <2>1, <2>2, OpenPhases, OpenPhasesNext DEF Sides
  <2>4. Undecided' = Undecided
    BY <2>3 DEF Undecided
  <2>5. file[p] = cont[DM]
    BY <1>4 DEF Resting, Undoing, All
  <2>6. Atomic!Follow(p)
    BY <1>1, <2>3, <2>4, <2>5 DEF Atomic!Follow
  <2> QED
    BY <2>2, <2>6 DEF Atomic!Next
<1>5. CASE Working
  <2>1. Working'
    BY <1>3, <1>5
       DEF Phases, Resting, Undoing, Working, Busy, Down, Finishing
  <2>2. Ahead'
    BY <1>1, <1>5 DEF Ahead
  <2>3. Undecided /\ Undecided'
    BY <1>5, <2>1, <2>2, OpenPhases, OpenPhasesNext DEF Sides
  <2>4. Undecided' = Undecided
    BY <2>3 DEF Undecided
  <2>5. cont' = [q \in Pkg \cup {DM} |-> IF q \in {p} THEN tried ELSE cont[q]]
    BY <1>1, <1>5 DEF Working, TypeOK, All
  <2>6. {p} \in SUBSET Pkg
    OBVIOUS
  <2>7. Atomic!Advance
    BY <1>1, <2>3, <2>4, <2>5, <2>6 DEF Atomic!Advance
  <2> QED
    BY <2>2, <2>7 DEF Atomic!Next
<1> QED
  BY <1>2, <1>4, <1>5

LEMMA AtomicClean ==
  ASSUME TypeOK, TypeOK', Phases, Ahead, pc["restart"] = "idle",
         NEW w \in Worker, NEW p \in All, Clean(w, p)
  PROVE  Ahead' /\ [Atomic!Next]_Atomic!vars
<1>1. Resting'
  BY OutcomeClean
<1>2. Resting
  BY PhaseFacts DEF Clean, Phases, Working, Undoing, Down, Finishing, NoWork,
     Worker
<1>3. UNCHANGED <<cont, tried>>
  BY DEF Clean, dockerVars, counters
<1> QED
  BY <1>1, <1>2, <1>3, AtomicSame

\* What was interrupted stays so; a restart interrupts, and so does docker
\* when it does not answer postRestartPatch.
LEMMA InterruptedStays ==
  ASSUME TypeOK, [Next]_vars, Uninterrupted'
  PROVE  Uninterrupted /\ ~PlainRestart /\ ~Reboot /\ ~PostInspectFails
<1>1. ~PlainRestart /\ ~Reboot /\ ~PostInspectFails
  BY DEF PlainRestart, Reboot, PostInspectFails, TypeOK, Uninterrupted
<1>2. CASE UNCHANGED vars
  BY <1>1, <1>2 DEF vars, counters, Uninterrupted
<1>3. CASE Next
  BY <1>1, <1>3
     DEF Next, CallStep, ScriptStep, PostStep, WriteFiles, RunPackages, UpdateEnds,
         WaitEnds, RemoveOld, Launch, ShellFails, ShellResolves, ScriptStarts,
         ScriptFails, ScriptFallsBack, ScriptExits, PostInspect, PostNothing,
         PostRollsBack, PostNotifies, PostFinishes, PostRemoves, ScriptStops, UndoUp,
         Clean, counters,
         Uninterrupted
<1> QED
  BY <1>1, <1>2, <1>3

\* The part of the invariant the refinement adds, as long as it lasts.
AheadInv == Uninterrupted => Ahead

LEMMA AtomicNext ==
  ASSUME {"overlap", "slow"} \cap Faults = {},
         TypeOK, OutcomeInv, AheadInv, [Next]_vars
  PROVE  AheadInv' /\ [Atomic!Next \/ ~Uninterrupted']_Atomic!vars
<1> SUFFICES ASSUME Uninterrupted'
             PROVE  Ahead' /\ [Atomic!Next]_Atomic!vars
  BY DEF AheadInv
<1>1. TypeOK'
  BY TypeNext
<1>2. Uninterrupted /\ ~PlainRestart /\ ~Reboot /\ ~PostInspectFails
  BY InterruptedStays
<1>3. Phases /\ pc["restart"] = "idle" /\ Ahead
  BY <1>2 DEF OutcomeInv, AheadInv
<1>4. CASE UNCHANGED vars
  <2>1. UNCHANGED <<cont, tried>>
    BY <1>4 DEF vars, dockerVars, counters
  <2>2. Undecided' <=> Undecided
    BY <1>4 DEF vars, diskVars, dockerVars, procVars, Undecided
  <2>3. Ahead'
    BY <1>3, <1>4
       DEF vars, diskVars, dockerVars, procVars, postVars, counters, Ahead,
           Working, Busy, Down, Failed, Replaced, Finishing, EndedWith
  <2> QED
    BY <2>1, <2>2, <2>3, AtomicStutter
<1>5. ASSUME NEW c \in Call, CallStep(c)
      PROVE  Ahead' /\ [Atomic!Next]_Atomic!vars
  BY <1>1, <1>3, <1>5, AtomicCallStep
<1>6. CASE ScriptStep
  BY <1>1, <1>3, <1>6, AtomicScriptStarts, AtomicScriptStep
<1>7. CASE PostStep
  <2>1. ~PostNothing
    BY <1>3, PhaseFacts, NameAssumption, BoundAssumption
       DEF PostNothing, Finishing, Replaced, TypeOK, Version
  <2> QED
    BY <1>1, <1>2, <1>3, <1>7, <2>1, AtomicPostStep
<1>8. CASE WriteFiles \/ RunPackages \/ UpdateEnds
  BY <1>1, <1>3, <1>8, AtomicWriteFiles, AtomicRunPackages, AtomicUpdateEnds
<1>9. ASSUME NEW w \in Worker, NEW p \in Pkg, UndoUp(w, p)
      PROVE  Ahead' /\ [Atomic!Next]_Atomic!vars
  BY <1>1, <1>3, <1>9, AtomicUndoUp
<1>10. ASSUME NEW w \in Worker, NEW p \in All, Clean(w, p)
       PROVE  Ahead' /\ [Atomic!Next]_Atomic!vars
  BY <1>1, <1>3, <1>10, AtomicClean
<1> QED
  BY <1>2, <1>4, <1>5, <1>6, <1>7, <1>8, <1>9, <1>10 DEF Next

\* An update is decided by one step, whatever fails in it: the start of the new
\* dappmanager.  Only a restart of the dappmanager or of the host breaks it, or
\* a postRestartPatch that docker does not answer.
THEOREM UpdateIsAtomic ==
  ASSUME {"overlap", "slow"} \cap Faults = {}
  PROVE  Spec => ImplementsAtomicUpdate
<1>1. Init => TypeOK /\ OutcomeInv
  BY TypeInit, OutcomeInit
<1>2. Init => AheadInv /\ Atomic!Init
  <2> SUFFICES ASSUME Init
               PROVE  Ahead /\ Atomic!Init
    BY DEF AheadInv
  <2>1. ~(Working \/ Down \/ Failed) /\ cont[DM] <= tried
    BY DEF Init, Working, Busy, Down, Failed, Finishing, Call, All
  <2>2. ~Undecided
    BY DEF Init, Undecided, Call
  <2>3. Undecided = FALSE
    BY <2>2
  <2> QED
    BY <2>1, <2>3 DEF Ahead, Init, Atomic!Init, All
<1>3. TypeOK /\ OutcomeInv /\ [Next]_vars => TypeOK' /\ OutcomeInv'
  BY TypeNext, OutcomeNext
<1>4. TypeOK /\ OutcomeInv /\ AheadInv /\ [Next]_vars
        => AheadInv' /\ [Atomic!Next \/ ~Uninterrupted']_Atomic!vars
  BY AtomicNext
<1> QED
  BY <1>1, <1>2, <1>3, <1>4, PTL DEF Spec, ImplementsAtomicUpdate
=============================================================================

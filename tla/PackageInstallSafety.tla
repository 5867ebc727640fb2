------------------------ MODULE PackageInstallSafety ------------------------
(***************************************************************************)
(* Proofs that PackageInstall is safe: its locks, its flags and, on them,  *)
(* its backups; the stopped packages; what is left when all has ended.     *)
(***************************************************************************)
EXTENDS PackageInstallProofs

\* The history variables go unchanged together.
USE DEF history

\* A step of a request moves no other request and no call, and takes nothing
\* down to up it again.
LEMMA InstallFrame ==
  ASSUME IndType, NEW r \in Req, Install(r)
  PROVE  /\ \A q \in Req \ {r} :
              pc'[q] = pc[q] /\ idx'[q] = idx[q] /\ pkgs'[q] = pkgs[q]
         /\ UNCHANGED <<op, opDnp, recreated>>
<1> USE DEF planVars, reqVars, procVars, diskVars, opVars, Goto, IndType, TypeOK
<1>1. CASE Resolve(r) \/ DevCheck(r) \/ DevList(r) \/ Refuse(r) \/ Gather(r)
             \/ Flag(r) \/ Reject(r)
  BY <1>1 DEF Resolve, DevCheck, DevList, Refuse, Gather, Flag, Reject
<1>2. CASE Prepare(r) \/ PrepareFails(r) \/ Validate(r) \/ ValidateFails(r)
  BY <1>2 DEF Prepare, PrepareFails, Validate, ValidateFails, AfterInstall, Loop
<1>3. CASE Create(r) \/ CreateFails(r) \/ StartLock(r) \/ StartThrows(r)
             \/ Start(r) \/ StartFails(r) \/ Expose(r) \/ ExposeFails(r)
  BY <1>3 DEF Create, CreateFails, StartLock, StartThrows, Start, StartFails,
     Expose, ExposeFails, RollbackFiles, Loop
<1>4. CASE UndoLock(r) \/ UndoThrows(r) \/ Undo(r) \/ UndoRemove(r)
             \/ Clean(r) \/ CleanFails(r)
  BY <1>4 DEF UndoLock, UndoThrows, Undo, UndoRemove, Clean, CleanFails,
     UndoNext, AfterInstall
<1> QED
  BY <1>1, <1>2, <1>3, <1>4 DEF Install

\* What is taken down and upped again keeps its lock and the holder of it.
LEMMA RecreateFrame ==
  ASSUME IndType, NEW d \in Dnp, Recreate(d)
  PROVE  /\ UNCHANGED <<pc, idx, pkgs, isUpdate, asked, wasStopped, userSet, installing>>
         /\ UNCHANGED <<compose, composeBackup, manifest, manifestBackup>>
         /\ UNCHANGED <<op, opDnp, hadCompose>>
         /\ recreated' = recreated \cup {d}
         /\ container[d] # None /\ container' = [container EXCEPT ![d] = None]
         /\ upLock[d] # None /\ upLock'[d].by = upLock[d].by
         /\ upLock'[d].from = compose[d] /\ compose[d] # None
         /\ \A e \in Dnp : upLock'[e] # None <=> upLock[e] # None
         /\ \A e \in Dnp \ {d} : upLock'[e] = upLock[e]
<1> DEFINE h == [upLock[d] EXCEPT !.from = compose[d], !.start = TRUE,
                                  !.again = TRUE]
<1>1. upLock[d] \in Holder /\ upLock[d] # None /\ compose[d] \in Content
  BY DEF Recreate, IndType, TypeOK
<1>2. h \in Holder /\ h.by = upLock[d].by /\ h.from = compose[d]
  BY <1>1 DEF Holder
<1>3. upLock' = [upLock EXCEPT ![d] = h]
  BY DEF Recreate
<1> HIDE DEF h
<1>4. h # None
  BY <1>2, NoneAssumption
<1>5. upLock'[d] = h /\ \A e \in Dnp \ {d} : upLock'[e] = upLock[e]
  BY <1>3 DEF IndType, TypeOK
<1>6. /\ UNCHANGED <<pc, idx, pkgs, isUpdate, asked, wasStopped, userSet, installing>>
      /\ UNCHANGED <<compose, composeBackup, manifest, manifestBackup>>
      /\ UNCHANGED <<op, opDnp, hadCompose>>
      /\ recreated' = recreated \cup {d}
      /\ container[d] # None /\ container' = [container EXCEPT ![d] = None]
      /\ compose[d] # None
  BY DEF Recreate, reqVars, planVars, diskVars, opVars
<1> QED
  BY <1>1, <1>2, <1>4, <1>5, <1>6

-----------------------------------------------------------------------------
(***************************************************************************)
(* Locks: a step of a request leaves them, takes or gives back its own.    *)
(***************************************************************************)
LEMMA LockCases ==
  ASSUME IndType, NEW r \in Req, Install(r)
  PROVE  \/ upLock' = upLock /\ pc[r] \notin {"starting", "undoing"}
         \/ /\ pc'[r] \in {"starting", "undoing"}
            /\ Cur(r)' = Cur(r)
            /\ \E h : h.by = r /\ upLock' = [upLock EXCEPT ![Cur(r)] = h]
         \/ /\ pc[r] \in {"starting", "undoing"}
            /\ upLock' = [upLock EXCEPT ![Cur(r)] = None]
<1> USE DEF procVars, Goto, IndType, TypeOK
<1>1. CASE Resolve(r) \/ DevCheck(r) \/ DevList(r) \/ Refuse(r) \/ Gather(r)
             \/ Flag(r) \/ Reject(r)
  BY <1>1 DEF Resolve, DevCheck, DevList, Refuse, Gather, Flag, Reject, Gathered
<1>2. CASE Prepare(r) \/ PrepareFails(r) \/ Validate(r) \/ ValidateFails(r)
  BY <1>2 DEF Prepare, PrepareFails, Validate, ValidateFails
<1>3. CASE Create(r) \/ CreateFails(r) \/ StartThrows(r) \/ Expose(r) \/ ExposeFails(r)
  BY <1>3 DEF Create, CreateFails, StartThrows, Expose, ExposeFails
<1>4. CASE UndoThrows(r) \/ UndoRemove(r) \/ Clean(r) \/ CleanFails(r)
  BY <1>4 DEF UndoThrows, UndoRemove, Clean, CleanFails
<1>5. CASE Start(r) \/ StartFails(r) \/ Undo(r)
  BY <1>5 DEF Start, StartFails, Undo, Unlock
<1>6. CASE StartLock(r) \/ UndoLock(r)
  <2>1. PICK b \in BOOLEAN : Lock(Cur(r), r, b)
    BY <1>6 DEF StartLock, UndoLock
  <2>2. upLock' = [upLock EXCEPT ![Cur(r)] =
                     [by |-> r, from |-> compose[Cur(r)], start |-> b,
                      again |-> FALSE]]
    BY <2>1 DEF Lock
  <2>3. pc'[r] \in {"starting", "undoing"} /\ Cur(r)' = Cur(r)
    BY <1>6 DEF StartLock, UndoLock, Cur, planVars
  <2> QED
    BY <2>2, <2>3
<1> QED
  BY <1>1, <1>2, <1>3, <1>4, <1>5, <1>6 DEF Install

\* LockNotLeaked for one file
HeldWell(d) ==
  upLock[d] # None =>
    \/ /\ upLock[d].by \in Req
       /\ pc[upLock[d].by] \in {"starting", "undoing"}
       /\ Cur(upLock[d].by) = d
    \/ /\ upLock[d].by \notin Req
       /\ op[upLock[d].by] = "envUp"
       /\ opDnp[upLock[d].by] = d

LEMMA HeldWellSuffices == LockNotLeaked <=> \A d \in Dnp : HeldWell(d)
  BY DEF LockNotLeaked, HeldWell

LEMMA InstallKeepsLocks ==
  ASSUME IndType, LockNotLeaked, NEW r \in Req, Install(r)
  PROVE  LockNotLeaked'
<1> SUFFICES ASSUME NEW d \in Dnp
             PROVE  HeldWell(d)'
  BY DEF LockNotLeaked, HeldWell, Cur
<1>0. HeldWell(d)
  BY HeldWellSuffices
<1>1. ASSUME upLock'[d] = upLock[d], upLock[d].by # r
      PROVE  HeldWell(d)'
  BY <1>0, <1>1, InstallFrame DEF HeldWell, Cur
<1>2. CASE upLock' = upLock /\ pc[r] \notin {"starting", "undoing"}
  <2>1. CASE upLock[d].by = r
    BY <1>0, <1>2, <2>1 DEF HeldWell
  <2> QED
    BY <1>1, <1>2, <2>1
<1>3. CASE /\ pc'[r] \in {"starting", "undoing"}
           /\ Cur(r)' = Cur(r)
           /\ \E h : h.by = r /\ upLock' = [upLock EXCEPT ![Cur(r)] = h]
  <2>1. CASE d = Cur(r)
    <3>1. upLock'[d].by = r
      BY <1>3, <2>1 DEF IndType, TypeOK
    <3> QED
      BY <1>3, <2>1, <3>1 DEF HeldWell, Cur
  <2>2. CASE d # Cur(r)
    <3>1. upLock'[d] = upLock[d]
      BY <1>3, <2>2 DEF IndType, TypeOK
    <3>2. CASE upLock[d].by = r
      BY <1>0, <2>2, <3>1, <3>2 DEF HeldWell
    <3> QED
      BY <1>1, <3>1, <3>2
  <2> QED
    BY <2>1, <2>2
<1>4. CASE /\ pc[r] \in {"starting", "undoing"}
           /\ upLock' = [upLock EXCEPT ![Cur(r)] = None]
  <2>1. CASE d = Cur(r)
    BY <1>4, <2>1 DEF HeldWell, IndType, TypeOK
  <2>2. CASE d # Cur(r)
    <3>1. upLock'[d] = upLock[d]
      BY <1>4, <2>2 DEF IndType, TypeOK
    <3>2. CASE upLock[d].by = r
      BY <1>0, <2>2, <3>1, <3>2 DEF HeldWell
    <3> QED
      BY <1>1, <3>1, <3>2
  <2> QED
    BY <2>1, <2>2
<1> QED
  BY <1>2, <1>3, <1>4, LockCases

LEMMA CallKeepsLocks ==
  ASSUME IndType, LockNotLeaked, NEW o \in Op, Call(o)
  PROVE  LockNotLeaked'
<1> USE DEF reqVars, procVars, opVars
<1>0. UNCHANGED <<pc, pkgs, idx>> /\ \A u \in Req : Cur(u)' = Cur(u)
  BY DEF Call, SetEnvironment, SetEnvironmentUp, SetEnvironmentDone,
     SetEnvironmentFails, Remove, RemoveFiles, planVars, Cur
<1>1. CASE /\ upLock' = upLock /\ op[o] # "envUp"
           /\ \A u \in Op \ {o} : op'[u] = op[u] /\ opDnp'[u] = opDnp[u]
  BY <1>0, <1>1 DEF LockNotLeaked, IndType, TypeOK, Holder
<1>2. CASE SetEnvironmentUp(o) /\ CanLock(opDnp[o])
  <2>1. opDnp[o] \in Dnp /\ opDnp' = opDnp /\ op' = [op EXCEPT ![o] = "envUp"]
    BY <1>2 DEF SetEnvironmentUp, IndType, HolderOK
  <2>2. PICK h : h.by = o /\ upLock' = [upLock EXCEPT ![opDnp[o]] = h]
    BY <1>2 DEF SetEnvironmentUp, Lock
  <2> QED
    BY <1>0, <1>2, <2>1, <2>2, OpAssumption
    DEF LockNotLeaked, SetEnvironmentUp, IndType, TypeOK, Holder, Op
<1>3. CASE SetEnvironmentDone(o) \/ SetEnvironmentFails(o)
  <2>1. /\ upLock' = [upLock EXCEPT ![opDnp[o]] = None]
        /\ opDnp' = opDnp
        /\ \A u \in Op \ {o} : op'[u] = op[u]
    BY <1>3 DEF SetEnvironmentDone, SetEnvironmentFails, Unlock, IndType, TypeOK
  <2>2. ASSUME NEW d \in Dnp
        PROVE  HeldWell(d)'
    <3>1. CASE d = opDnp[o]
      BY <2>1, <3>1 DEF HeldWell, IndType, TypeOK
    <3>2. CASE d # opDnp[o]
      <4>1. upLock'[d] = upLock[d] /\ HeldWell(d)
        BY <2>1, <3>2, HeldWellSuffices DEF IndType, TypeOK
      <4>2. CASE upLock[d] # None
        <5>1. upLock[d].by \in Req \cup Op
          BY <4>2 DEF IndType, TypeOK, Holder
        <5> QED
          BY <1>0, <2>1, <3>2, <4>1, <5>1 DEF HeldWell
      <4> QED
        BY <4>1, <4>2 DEF HeldWell
    <3> QED
      BY <3>1, <3>2
  <2> QED
    BY <2>2 DEF LockNotLeaked, HeldWell, Cur
<1>4. CASE SetEnvironment(o) \/ Remove(o) \/ RemoveFiles(o)
             \/ (SetEnvironmentUp(o) /\ ~CanLock(opDnp[o]))
  BY <1>1, <1>4 DEF SetEnvironment, Remove, RemoveFiles, SetEnvironmentUp,
     IndType, TypeOK
<1> QED
  BY <1>2, <1>3, <1>4 DEF Call

\* Whatever fails, the lock of a compose file is held by a call that still
\* waits for docker: no path of dockerComposeUpPackage leaves it behind.
THEOREM LocksNotLeaked == Spec => []LockNotLeaked
<1>1. Init => LockNotLeaked
  BY DEF Init, Fresh, LockNotLeaked
<1>2. IndType /\ LockNotLeaked /\ [Next]_vars => LockNotLeaked'
  <2> SUFFICES ASSUME IndType, LockNotLeaked, [Next]_vars
               PROVE  LockNotLeaked'
    OBVIOUS
  <2>1. CASE FlagExpires
    BY <2>1 DEF FlagExpires, LockNotLeaked, Cur, reqVars, planVars, opVars
  <2>2. CASE Crash
    BY <2>2 DEF Crash, LockNotLeaked
  <2>3. CASE UNCHANGED vars
    BY <2>3 DEF vars, LockNotLeaked, Cur, reqVars, planVars, procVars, opVars
  <2>4. ASSUME NEW d \in Dnp, Recreate(d)
        PROVE  LockNotLeaked'
    <3>1. \A e \in Dnp : upLock'[e] # None => upLock[e] # None /\ upLock'[e].by = upLock[e].by
      BY <2>4, RecreateFrame
    <3> QED
      BY <2>4, <3>1, RecreateFrame DEF LockNotLeaked, Cur
  <2> QED
    BY <2>1, <2>2, <2>3, <2>4, InstallKeepsLocks, CallKeepsLocks DEF Next
<1> QED
  BY <1>1, <1>2, IndTypeInvariant, PTL DEF Spec

-----------------------------------------------------------------------------
(***************************************************************************)
(* Flags.  A step of a request is before its flag, sets it, is between the *)
(* flag and afterInstall, or is the step that unflags.                     *)
(***************************************************************************)
LEMMA FlagCases ==
  ASSUME IndType, NEW r \in Req, Install(r)
  PROVE  \/ Flag(r)
         \/ /\ pc[r] \notin Flagged /\ pc'[r] \notin Flagged
            /\ installing' = installing
         \/ /\ pc[r] \in Flagged /\ pc'[r] \in Flagged
            /\ UNCHANGED <<installing, pkgs>>
         \/ /\ pc[r] \in Flagged /\ pc'[r] \notin Flagged
            /\ pkgs' = pkgs
            /\ installing' = installing \ Range(pkgs[r])
<1> USE DEF Goto, Flagged, planVars, procVars, IndType, TypeOK
<1>1. CASE Resolve(r) \/ DevCheck(r) \/ DevList(r) \/ Refuse(r) \/ Gather(r) \/ Reject(r)
  BY <1>1 DEF Resolve, DevCheck, DevList, Refuse, Gather, Reject, Gathered
<1>2. CASE Flag(r)
  BY <1>2
<1>3. CASE Prepare(r) \/ Validate(r) \/ Create(r) \/ StartLock(r) \/ Start(r)
             \/ Expose(r) \/ UndoLock(r)
  BY <1>3 DEF Prepare, Validate, Create, StartLock, Start, Expose, UndoLock, Loop
<1>4. CASE CreateFails(r) \/ StartThrows(r) \/ StartFails(r) \/ ExposeFails(r)
  BY <1>4 DEF CreateFails, StartThrows, StartFails, ExposeFails, RollbackFiles
<1>5. CASE PrepareFails(r) \/ ValidateFails(r) \/ CleanFails(r)
  BY <1>5 DEF PrepareFails, ValidateFails, CleanFails, AfterInstall
<1>6. CASE UndoThrows(r) \/ Undo(r) \/ UndoRemove(r)
  BY <1>6 DEF UndoThrows, Undo, UndoRemove, UndoNext, AfterInstall
<1>7. CASE Clean(r)
  BY <1>7 DEF Clean, AfterInstall
<1> QED
  BY <1>1, <1>2, <1>3, <1>4, <1>5, <1>6, <1>7 DEF Install

\* The packages of a request between its flag and its afterInstall are flagged.
FlagsSet == \A r \in Req : pc[r] \in Flagged => Range(pkgs[r]) \subseteq installing

FlagInv == FlagsSet /\ NoDoubleInstall

LEMMA InstallKeepsFlags ==
  ASSUME DevReq = {}, IndType, FlagInv, NEW r \in Req, Install(r)
  PROVE  FlagInv'
<1>0. \A q \in Req \ {r} : pc'[q] = pc[q] /\ pkgs'[q] = pkgs[q]
  BY InstallFrame
<1>1. CASE Flag(r)
  <2>1. /\ Range(pkgs[r]) \cap installing = {}
        /\ installing' = installing \cup Range(pkgs[r])
        /\ pkgs' = pkgs
    BY <1>1 DEF Flag
  <2>2. FlagsSet'
    BY <1>0, <2>1 DEF FlagInv, FlagsSet
  <2>3. \A q \in Req \ {r} : pc'[q] \in Flagged => Range(pkgs[q]) \cap Range(pkgs[r]) = {}
    BY <1>0, <2>1 DEF FlagInv, FlagsSet
  <2>4. NoDoubleInstall'
    BY <1>0, <2>1, <2>3 DEF FlagInv, NoDoubleInstall
  <2> QED
    BY <2>2, <2>4 DEF FlagInv
<1>2. CASE /\ pc[r] \notin Flagged /\ pc'[r] \notin Flagged
           /\ installing' = installing
  BY <1>0, <1>2 DEF FlagInv, FlagsSet, NoDoubleInstall
<1>3. CASE /\ pc[r] \in Flagged /\ pc'[r] \in Flagged
           /\ UNCHANGED <<installing, pkgs>>
  BY <1>0, <1>3 DEF FlagInv, FlagsSet, NoDoubleInstall
<1>4. CASE /\ pc[r] \in Flagged /\ pc'[r] \notin Flagged
           /\ pkgs' = pkgs
           /\ installing' = installing \ Range(pkgs[r])
  <2>1. \A q \in Req \ {r} : pc'[q] \in Flagged =>
          /\ Range(pkgs[q]) \cap Range(pkgs[r]) = {}
          /\ Range(pkgs[q]) \subseteq installing
    BY <1>0, <1>4 DEF FlagInv, FlagsSet, NoDoubleInstall
  <2> QED
    BY <1>0, <1>4, <2>1 DEF FlagInv, FlagsSet, NoDoubleInstall
<1> QED
  BY <1>1, <1>2, <1>3, <1>4, FlagCases

LEMMA CallKeepsFlags ==
  ASSUME IndType, FlagInv, NEW o \in Op, Call(o)
  PROVE  FlagInv'
<1>1. UNCHANGED <<pc, pkgs, installing>>
  BY DEF Call, SetEnvironment, SetEnvironmentUp, SetEnvironmentDone,
     SetEnvironmentFails, Remove, RemoveFiles, reqVars, planVars, procVars
<1> QED
  BY <1>1 DEF FlagInv, FlagsSet, NoDoubleInstall

LEMMA FlagStep ==
  ASSUME DevReq = {}, "expire" \notin Faults
  PROVE  IndType /\ FlagInv /\ [Next]_vars => FlagInv'
<1> SUFFICES ASSUME IndType, FlagInv, [Next]_vars
             PROVE  FlagInv'
  OBVIOUS
<1>1. CASE FlagExpires
  BY <1>1 DEF FlagExpires
<1>2. CASE Crash
  BY <1>2 DEF Crash, FlagInv, FlagsSet, NoDoubleInstall, Flagged, Ended
<1>3. CASE UNCHANGED vars
  BY <1>3 DEF vars, FlagInv, FlagsSet, NoDoubleInstall, reqVars, planVars, procVars
<1>4. ASSUME NEW d \in Dnp, Recreate(d)
      PROVE  FlagInv'
  BY <1>4, RecreateFrame DEF FlagInv, FlagsSet, NoDoubleInstall
<1> QED
  BY <1>1, <1>2, <1>3, <1>4, InstallKeepsFlags, CallKeepsFlags DEF Next

THEOREM FlagInvariant ==
  ASSUME DevReq = {}, "expire" \notin Faults
  PROVE  Spec => []FlagInv
<1>1. Init => FlagInv
  BY DEF Init, Fresh, FlagInv, FlagsSet, NoDoubleInstall, Flagged
<1>2. IndType /\ FlagInv /\ [Next]_vars => FlagInv'
  BY FlagStep
<1> QED
  BY <1>1, <1>2, IndTypeInvariant, PTL DEF Spec

\* Two installs never work on the same package if there is no packageInstallDev
\* and installs end before their flags expire, or if there is only one install.
Guarded ==
  \/ DevReq = {} /\ "expire" \notin Faults
  \/ \A r, q \in Req : r = q

THEOREM NoDoubleInstalls ==
  ASSUME Guarded
  PROVE  Spec => []NoDoubleInstall
<1>1. CASE DevReq = {} /\ "expire" \notin Faults
  <2>1. FlagInv => NoDoubleInstall
    BY DEF FlagInv
  <2> QED
    BY <1>1, <2>1, FlagInvariant, PTL
<1>2. CASE \A r, q \in Req : r = q
  <2>1. NoDoubleInstall
    BY <1>2 DEF NoDoubleInstall
  <2> QED
    BY <2>1, PTL
<1> QED
  BY <1>1, <1>2 DEF Guarded

-----------------------------------------------------------------------------
(***************************************************************************)
(* The pipeline implements InstallGuard.                                   *)
(***************************************************************************)
LEMMA InstallImplements ==
  ASSUME DevReq = {}, IndType, FlagInv, NEW r \in Req, Install(r)
  PROVE  [Guard!Next]_heldBy
<1>0. \A q \in Req \ {r} : pc'[q] = pc[q] /\ pkgs'[q] = pkgs[q]
  BY InstallFrame
<1>1. CASE Flag(r)
  <2>1. pc[r] \in {"gather", "ask"} /\ pkgs[r] \in Plan
    BY <1>1, GatheredType DEF Flag
  <2>2. /\ pkgs' = pkgs /\ pc'[r] = "prepare"
        /\ Range(pkgs[r]) \cap installing = {}
    BY <1>1 DEF Flag, Goto, IndType, TypeOK
  <2>3. heldBy' = [heldBy EXCEPT ![r] = Range(pkgs[r])] /\ heldBy[r] = {}
    BY <1>0, <2>1, <2>2 DEF heldBy, Flagged
  <2>4. Range(pkgs[r]) \in (SUBSET Dnp) \ {{}}
    <3>1. Range(pkgs[r]) \subseteq Dnp
      BY <2>1, PlanFacts
    <3>2. pkgs[r][1] \in Range(pkgs[r])
      BY <2>1, PlanFacts
    <3> QED
      BY <3>1, <3>2
  <2>5. \A q \in Req : heldBy[q] \cap Range(pkgs[r]) = {}
    BY <2>1, <2>2 DEF heldBy, FlagInv, FlagsSet, Flagged
  <2>6. Guard!Take(r)
    BY <2>3, <2>4, <2>5 DEF Guard!Take
  <2> QED
    BY <2>6 DEF Guard!Next
<1>2. CASE pc[r] \notin Flagged /\ pc'[r] \notin Flagged
  BY <1>0, <1>2 DEF heldBy
<1>3. CASE pc[r] \in Flagged /\ pc'[r] \in Flagged /\ pkgs' = pkgs
  BY <1>0, <1>3 DEF heldBy
<1>4. CASE pc[r] \in Flagged /\ pc'[r] \notin Flagged /\ pkgs' = pkgs
  <2>1. heldBy' = [heldBy EXCEPT ![r] = {}]
    BY <1>0, <1>4 DEF heldBy
  <2>2. heldBy[r] # {}
    BY <1>4, CurFacts, PlanFacts DEF heldBy
  <2>3. Guard!Give(r)
    BY <2>1, <2>2 DEF Guard!Give
  <2> QED
    BY <2>3 DEF Guard!Next
<1> QED
  BY <1>1, <1>2, <1>3, <1>4, FlagCases

\* Each request takes all its packages in one step, only when nobody has one of
\* them, and gives all of them back in one step.
THEOREM PipelineImplementsGuard ==
  ASSUME DevReq = {}, "expire" \notin Faults
  PROVE  Spec => ImplementsGuard
<1>1. Init => Guard!Init
  BY DEF Init, Fresh, Guard!Init, heldBy, Flagged
<1>2. IndType /\ FlagInv /\ [Next]_vars => [Guard!Next]_heldBy
  <2> SUFFICES ASSUME IndType, FlagInv, [Next]_vars
               PROVE  [Guard!Next]_heldBy
    OBVIOUS
  <2>1. ASSUME NEW o \in Op, Call(o)
        PROVE  [Guard!Next]_heldBy
    <3>1. UNCHANGED <<pc, pkgs>>
      BY <2>1 DEF Call, SetEnvironment, SetEnvironmentUp, SetEnvironmentDone,
         SetEnvironmentFails, Remove, RemoveFiles, reqVars, planVars
    <3> QED
      BY <3>1 DEF heldBy
  <2>2. CASE FlagExpires
    BY <2>2 DEF FlagExpires, heldBy, reqVars, planVars
  <2>3. CASE Crash
    <3>1. heldBy' = [r \in Req |-> {}]
      BY <2>3 DEF Crash, heldBy, Flagged, Ended
    <3> QED
      BY <3>1 DEF Guard!Next, Guard!GiveAll
  <2>4. CASE UNCHANGED vars
    BY <2>4 DEF vars, heldBy, reqVars, planVars
  <2>5. ASSUME NEW d \in Dnp, Recreate(d)
        PROVE  [Guard!Next]_heldBy
    BY <2>5, RecreateFrame DEF heldBy
  <2> QED
    BY <2>1, <2>2, <2>3, <2>4, <2>5, InstallImplements DEF Next
<1> QED
  BY <1>1, <1>2, IndTypeInvariant, FlagInvariant, PTL
  DEF Spec, ImplementsGuard, Guard!Spec

-----------------------------------------------------------------------------
(***************************************************************************)
(* Backups.  What a request wrote at a package is in its compose file or   *)
(* in its backup only after it wrote there.                                *)
(***************************************************************************)
NoVer(r, d) ==
  /\ compose[d] # None => compose[d].ver # r
  /\ composeBackup[d] # None => composeBackup[d].ver # r

\* Before the first file, and, for the files still to be written, during the
\* loop of writeAndValidateFiles
Early == {"idle", "list", "gather", "ask", "prepare"}
Unwritten(r) ==
  pc[r] \in Early =>
    hadCompose[r] = {} /\ \A d \in Dnp : NoVer(r, d)
NotYet(r) ==
  pc[r] = "validate" =>
    \A j \in DOMAIN pkgs[r] :
      j > idx[r] => NoVer(r, pkgs[r][j]) /\ pkgs[r][j] \notin hadCompose[r]

\* After the first file: the backup of what was there is older than r.
BackedUp(r) ==
  pc[r] \in {"validate"} \cup Running =>
    \A d \in hadCompose[r] :
      /\ compose[d] # None => composeBackup[d] # None
      /\ composeBackup[d] # None => composeBackup[d].ver # r

RolledBack(r) ==
  pc[r] \in {"undo", "undoing", "rolledBack"} =>
    \A d \in hadCompose[r] : NoVer(r, d)

FilesOK(r) ==
  /\ hadCompose[r] \subseteq Range(pkgs[r])
  /\ Unwritten(r)
  /\ NotYet(r)
  /\ BackedUp(r)
  /\ RolledBack(r)

BackupInv == \A r \in Req : FilesOK(r)

\* The files of d after r has written or rolled back
LEMMA WriteComposeFiles ==
  ASSUME IndType, NEW r \in Req, NEW d \in Dnp, WriteCompose(r, d)
  PROVE  /\ \A e \in Dnp \ {d} : /\ compose'[e] = compose[e]
                                 /\ composeBackup'[e] = composeBackup[e]
         /\ compose'[d] # None /\ compose'[d].ver = r
         /\ composeBackup'[d] = IF compose[d] = None THEN composeBackup[d]
                                ELSE compose[d]
         /\ hadCompose'[r] = IF compose[d] = None THEN hadCompose[r]
                             ELSE hadCompose[r] \cup {d}
         /\ \A q \in Req \ {r} : hadCompose'[q] = hadCompose[q]
<1>1. [ver |-> r, env |-> userSet[r][d]] \in Content
  BY DEF IndType, TypeOK, Content, Version
<1>2. [ver |-> r, env |-> userSet[r][d]] # None
  BY <1>1, NoneAssumption
<1> QED
  BY <1>2 DEF WriteCompose, IndType, TypeOK

LEMMA RollbackFilesFiles ==
  ASSUME IndType, NEW r \in Req, RollbackFiles(r), NEW d \in Dnp
  PROVE  IF d \in Range(pkgs[r])
           THEN /\ compose'[d] = IF composeBackup[d] # None THEN composeBackup[d]
                                 ELSE compose[d]
                /\ composeBackup'[d] = None
           ELSE /\ compose'[d] = compose[d]
                /\ composeBackup'[d] = composeBackup[d]
  BY DEF RollbackFiles, Restored, Consumed

\* What a step of r does to the files
LEMMA InstallFiles ==
  ASSUME IndType, NEW r \in Req, Install(r)
  PROVE  \/ /\ UNCHANGED <<compose, composeBackup, hadCompose>>
            /\ pc'[r] # "validate"
            /\ pc'[r] \in {"undo", "undoing", "rolledBack"} =>
                 pc[r] \in {"undo", "undoing"}
         \/ /\ Prepare(r) /\ pc[r] = "prepare" /\ pc'[r] = "validate"
            /\ WriteCompose(r, Cur(r)) /\ UNCHANGED <<idx, pkgs>>
         \/ /\ Validate(r) /\ pc[r] = "validate" /\ pc'[r] = "validate"
            /\ More(r) /\ idx' = [idx EXCEPT ![r] = @ + 1] /\ pkgs' = pkgs
            /\ WriteCompose(r, pkgs[r][idx[r] + 1])
         \/ /\ pc[r] \in Running /\ RollbackFiles(r)
            /\ UNCHANGED <<pkgs, hadCompose>>
         \/ /\ pc[r] = "clean" /\ pc'[r] \in {"clean", "done", "unclean"}
            /\ \A d \in Dnp :
                 /\ compose'[d] = compose[d]
                 /\ \/ composeBackup'[d] = composeBackup[d]
                    \/ d \in Range(pkgs[r]) /\ composeBackup'[d] = None
            /\ UNCHANGED <<pkgs, hadCompose>>
<1> USE DEF planVars, procVars, diskVars, Goto, IndType, TypeOK
<1>1. CASE Resolve(r) \/ DevCheck(r) \/ DevList(r) \/ Refuse(r) \/ Gather(r)
             \/ Flag(r) \/ Reject(r)
  BY <1>1 DEF Resolve, DevCheck, DevList, Refuse, Gather, Flag, Reject
<1>2. CASE PrepareFails(r) \/ ValidateFails(r) \/ Create(r) \/ StartLock(r)
             \/ Start(r) \/ Expose(r)
  BY <1>2 DEF PrepareFails, ValidateFails, Create, StartLock, Start, Expose,
     AfterInstall, Loop
<1>3. CASE UndoLock(r) \/ UndoThrows(r) \/ Undo(r) \/ UndoRemove(r)
  BY <1>3 DEF UndoLock, UndoThrows, Undo, UndoRemove, UndoNext, AfterInstall
<1>4. CASE CreateFails(r) \/ StartThrows(r) \/ StartFails(r) \/ ExposeFails(r)
  BY <1>4 DEF CreateFails, StartThrows, StartFails, ExposeFails, Running
<1>5. CASE Prepare(r)
  BY <1>5 DEF Prepare, Goto, IndType, TypeOK
<1>6. CASE Validate(r)
  BY <1>6 DEF Validate, Loop, Goto, IndType, TypeOK
<1>7. CASE Clean(r) \/ CleanFails(r)
  <2>1. pc[r] \in Flagged
    BY <1>7 DEF Clean, CleanFails, Flagged
  <2>2. Cur(r) \in Range(pkgs[r]) /\ Cur(r) \in Dnp
    BY <2>1, CurFacts, PlanFacts DEF Cur
  <2>3. pc[r] = "clean" /\ pc'[r] \in {"clean", "done", "unclean"}
    BY <1>7 DEF Clean, CleanFails, AfterInstall, Goto, IndType, TypeOK
  <2>4. UNCHANGED <<pkgs, compose, hadCompose>>
    BY <1>7 DEF Clean, CleanFails
  <2>5. \A d \in Dnp :
          \/ composeBackup'[d] = composeBackup[d]
          \/ d \in Range(pkgs[r]) /\ composeBackup'[d] = None
    <3>1. CASE Clean(r)
      <4>1. /\ composeBackup' = [composeBackup EXCEPT ![Cur(r)] = None]
            /\ composeBackup \in [Dnp -> Content \cup {None}]
        BY <3>1 DEF Clean, IndType, TypeOK
      <4> QED
        BY <2>2, <4>1
    <3>2. CASE CleanFails(r)
      <4>1. PICK gone \in {<<{}, {}>>, <<{Cur(r)}, {}>>, <<{Cur(r)}, {Cur(r)}>>} :
              composeBackup' = [d \in Dnp |->
                IF d \in gone[1] THEN None ELSE composeBackup[d]]
        BY <3>2 DEF CleanFails
      <4>2. gone[1] \in {{}, {Cur(r)}}
        BY <4>1
      <4>3. CASE gone[1] = {}
        BY <4>1, <4>3
      <4>4. CASE gone[1] = {Cur(r)}
        BY <2>2, <4>1, <4>4
      <4> QED
        BY <4>2, <4>3, <4>4
    <3> QED
      BY <1>7, <3>1, <3>2
  <2> QED
    BY <2>3, <2>4, <2>5
<1> QED
  BY <1>1, <1>2, <1>3, <1>4, <1>5, <1>6, <1>7 DEF Install

\* A step of r changes, of the files, at most those of its own packages, and
\* leaves there what was there before, what r wrote, or nothing.
LEMMA OtherFiles ==
  ASSUME IndType, NEW r \in Req, Install(r), NEW d \in Dnp
  PROVE  /\ \/ compose'[d] \in {compose[d], composeBackup[d]}
            \/ compose'[d] # None /\ compose'[d].ver = r
         /\ composeBackup'[d] \in {compose[d], composeBackup[d], None}
         /\ \/ compose'[d] = compose[d] /\ composeBackup'[d] = composeBackup[d]
            \/ pc[r] \in Flagged /\ d \in Range(pkgs[r])
         /\ \A q \in Req \ {r} : hadCompose'[q] = hadCompose[q]
<1>1. CASE UNCHANGED <<compose, composeBackup, hadCompose>>
  BY <1>1
<1>2. ASSUME NEW e \in Dnp, WriteCompose(r, e), pc[r] \in Flagged, e \in Range(pkgs[r])
      PROVE  /\ \/ compose'[d] = compose[d]
                \/ compose'[d] # None /\ compose'[d].ver = r
             /\ composeBackup'[d] \in {compose[d], composeBackup[d]}
             /\ \/ compose'[d] = compose[d] /\ composeBackup'[d] = composeBackup[d]
                \/ pc[r] \in Flagged /\ d \in Range(pkgs[r])
             /\ \A q \in Req \ {r} : hadCompose'[q] = hadCompose[q]
  <2>1. CASE d = e
    BY <1>2, <2>1, WriteComposeFiles
  <2>2. CASE d # e
    BY <1>2, <2>2, WriteComposeFiles
  <2> QED
    BY <2>1, <2>2
<1>3. CASE Prepare(r) /\ pc[r] = "prepare" /\ WriteCompose(r, Cur(r))
  <2>1. pc[r] \in Flagged
    BY <1>3 DEF Flagged
  <2>2. Cur(r) \in Dnp /\ Cur(r) \in Range(pkgs[r])
    BY <2>1, CurFacts, PlanFacts DEF Cur
  <2> QED
    BY <1>2, <1>3, <2>1, <2>2
<1>4. CASE Validate(r) /\ pc[r] = "validate" /\ More(r)
             /\ WriteCompose(r, pkgs[r][idx[r] + 1])
  <2>1. pc[r] \in Flagged
    BY <1>4 DEF Flagged
  <2>2. pkgs[r][idx[r] + 1] \in Dnp /\ pkgs[r][idx[r] + 1] \in Range(pkgs[r])
    BY <1>4, <2>1, CurFacts, PlanFacts DEF More
  <2> QED
    BY <1>2, <1>4, <2>1, <2>2
<1>5. CASE pc[r] \in Running /\ RollbackFiles(r) /\ hadCompose' = hadCompose
  BY <1>5, RollbackFilesFiles DEF Running, Flagged
<1>6. CASE /\ pc[r] = "clean"
           /\ \A e \in Dnp :
                /\ compose'[e] = compose[e]
                /\ \/ composeBackup'[e] = composeBackup[e]
                   \/ e \in Range(pkgs[r]) /\ composeBackup'[e] = None
           /\ hadCompose' = hadCompose
  BY <1>6 DEF Flagged
<1> QED
  BY <1>1, <1>3, <1>4, <1>5, <1>6, InstallFiles

\* A step of another request keeps what is known of the files of q.
LEMMA OthersKeepFiles ==
  ASSUME IndType, NoDoubleInstall, NEW r \in Req, Install(r), NEW q \in Req \ {r}, FilesOK(q)
  PROVE  FilesOK(q)'
<1>1. /\ pc'[q] = pc[q] /\ idx'[q] = idx[q] /\ pkgs'[q] = pkgs[q]
      /\ hadCompose'[q] = hadCompose[q]
  <2>1. ASSUME NEW d \in Dnp
        PROVE  hadCompose'[q] = hadCompose[q]
    BY OtherFiles
  <2>2. CASE Dnp = {}
    BY <2>2, InstallFiles, InstallFrame, CurFacts, PlanFacts
    DEF Flagged, IndType, TypeOK, Running, WriteCompose
  <2> QED
    BY <2>1, <2>2, InstallFrame
<1>2. \A d \in Dnp : NoVer(q, d) => NoVer(q, d)'
  BY OtherFiles DEF NoVer
<1>3. hadCompose[q] \subseteq Dnp /\ \A j \in DOMAIN pkgs[q] : pkgs[q][j] \in Dnp
  <2>1. pkgs[q] \in Plan \/ pkgs[q] = <<>>
    BY DEF IndType, TypeOK
  <2>2. DOMAIN <<>> = {}
    OBVIOUS
  <2> QED
    BY <2>1, <2>2, PlanFacts DEF IndType, TypeOK
<1>4. Unwritten(q)'
  BY <1>1, <1>2 DEF FilesOK, Unwritten
<1>5. NotYet(q)'
  BY <1>1, <1>2, <1>3 DEF FilesOK, NotYet
<1>6. BackedUp(q)'
  <2> SUFFICES ASSUME pc[q] \in {"validate"} \cup Running, NEW d \in hadCompose[q]
               PROVE  compose'[d] = compose[d] /\ composeBackup'[d] = composeBackup[d]
    BY <1>1 DEF FilesOK, BackedUp
  <2>1. d \in Dnp /\ d \in Range(pkgs[q]) /\ pc[q] \in Flagged
    BY <1>3 DEF FilesOK, Running, Flagged
  <2>2. pc[r] \in Flagged => d \notin Range(pkgs[r])
    BY <2>1 DEF NoDoubleInstall
  <2> QED
    BY <2>1, <2>2, OtherFiles
<1>7. RolledBack(q)'
  BY <1>1, <1>2, <1>3 DEF FilesOK, RolledBack
<1> QED
  BY <1>1, <1>4, <1>5, <1>6, <1>7 DEF FilesOK

\* Where a step of r may lead
LEMMA InstallPhases ==
  ASSUME IndType, NEW r \in Req, Install(r)
  PROVE  /\ pc'[r] \in Early => pc[r] \in Early
         /\ pc'[r] \in Running => pc[r] \in {"validate"} \cup Running
         /\ pkgs'[r] = pkgs[r] \/ pc[r] = "idle"
<1> USE DEF Goto, planVars, Early, Running, IndType, TypeOK
<1>1. CASE Resolve(r) \/ DevCheck(r) \/ DevList(r) \/ Refuse(r) \/ Gather(r)
             \/ Flag(r) \/ Reject(r)
  BY <1>1 DEF Resolve, DevCheck, DevList, Refuse, Gather, Flag, Reject, Gathered
<1>2. CASE Prepare(r) \/ Validate(r) \/ Create(r) \/ StartLock(r) \/ Start(r)
             \/ Expose(r)
  BY <1>2 DEF Prepare, Validate, Create, StartLock, Start, Expose, Loop
<1>3. CASE CreateFails(r) \/ StartThrows(r) \/ StartFails(r) \/ ExposeFails(r)
  <2>1. RollbackFiles(r) /\ pkgs' = pkgs
    BY <1>3 DEF CreateFails, StartThrows, StartFails, ExposeFails
  <2> QED
    BY <2>1 DEF RollbackFiles
<1>4. CASE PrepareFails(r) \/ ValidateFails(r) \/ Clean(r) \/ CleanFails(r)
  BY <1>4 DEF PrepareFails, ValidateFails, Clean, CleanFails, AfterInstall
<1>5. CASE UndoLock(r) \/ UndoThrows(r) \/ Undo(r) \/ UndoRemove(r)
  BY <1>5 DEF UndoLock, UndoThrows, Undo, UndoRemove, UndoNext, AfterInstall
<1> QED
  BY <1>1, <1>2, <1>3, <1>4, <1>5 DEF Install

\* A step of r keeps what is known of its own files.
LEMMA OwnFiles ==
  ASSUME IndType, NEW r \in Req, Install(r), FilesOK(r)
  PROVE  FilesOK(r)'
<1> DEFINE d == Cur(r)
           e == pkgs[r][idx[r] + 1]
<1>0. hadCompose[r] \subseteq Dnp
  BY DEF IndType, TypeOK
<1>1. CASE pc[r] \in Early /\ pc'[r] \in Early
             /\ UNCHANGED <<compose, composeBackup, hadCompose>>
  BY <1>1 DEF FilesOK, Unwritten, NotYet, BackedUp, RolledBack, NoVer, Early, Running
<1>2. CASE /\ pc'[r] \notin Early /\ pc'[r] # "validate"
           /\ pc'[r] \in {"undo", "undoing", "rolledBack"} =>
                pc[r] \in {"undo", "undoing"}
           /\ UNCHANGED <<compose, composeBackup, hadCompose>>
  <2>1. hadCompose'[r] \subseteq Range(pkgs'[r])
    BY <1>2, InstallPhases DEF FilesOK, Unwritten, Early
  <2>2. BackedUp(r)'
    BY <1>2, InstallPhases DEF FilesOK, BackedUp
  <2>3. RolledBack(r)'
    BY <1>2 DEF FilesOK, RolledBack, NoVer
  <2> QED
    BY <1>2, <2>1, <2>2, <2>3 DEF FilesOK, Unwritten, NotYet
<1>3. CASE pc[r] = "prepare" /\ pc'[r] = "validate" /\ WriteCompose(r, d)
             /\ UNCHANGED <<idx, pkgs>>
  <2>1. /\ d \in Dnp /\ d \in Range(pkgs[r]) /\ idx[r] \in DOMAIN pkgs[r]
        /\ idx[r] \in Nat /\ DOMAIN pkgs[r] \subseteq Nat
        /\ \A j \in DOMAIN pkgs[r] : pkgs[r][j] \in Dnp
        /\ \A j \in DOMAIN pkgs[r] : pkgs[r][j] = d => j = idx[r]
    BY <1>3, CurFacts, PlanFacts DEF Cur, Flagged
  <2>2. hadCompose[r] = {} /\ \A x \in Dnp : NoVer(r, x)
    BY <1>3 DEF FilesOK, Unwritten, Early
  <2> HIDE DEF d
  <2>3. /\ \A x \in Dnp \ {d} : compose'[x] = compose[x]
                             /\ composeBackup'[x] = composeBackup[x]
        /\ composeBackup'[d] = IF compose[d] = None THEN composeBackup[d]
                               ELSE compose[d]
        /\ hadCompose'[r] = IF compose[d] = None THEN hadCompose[r]
                            ELSE hadCompose[r] \cup {d}
    BY <1>3, <2>1, WriteComposeFiles
  <2>4. NotYet(r)'
    <3> SUFFICES ASSUME NEW j \in DOMAIN pkgs[r], j > idx[r]
                 PROVE  NoVer(r, pkgs[r][j])' /\ pkgs[r][j] \notin hadCompose'[r]
      BY <1>3 DEF NotYet, NoVer
    <3>1. pkgs[r][j] \in Dnp \ {d}
      BY <2>1
    <3>2. NoVer(r, pkgs[r][j])'
      BY <1>3, <2>2, <2>3, <3>1 DEF NoVer
    <3> QED
      BY <2>2, <2>3, <3>1, <3>2
  <2>5. BackedUp(r)'
    BY <2>1, <2>2, <2>3 DEF BackedUp, NoVer
  <2>6. hadCompose'[r] \subseteq Range(pkgs'[r])
    BY <1>3, <2>1, <2>2, <2>3
  <2> QED
    BY <1>3, <2>4, <2>5, <2>6 DEF FilesOK, Unwritten, RolledBack, Early
<1>4. CASE pc[r] = "validate" /\ pc'[r] = "validate" /\ More(r)
             /\ idx' = [idx EXCEPT ![r] = @ + 1] /\ pkgs' = pkgs
             /\ WriteCompose(r, e)
  <2>1. /\ e \in Dnp /\ e \in Range(pkgs[r]) /\ idx[r] + 1 \in DOMAIN pkgs[r]
        /\ idx[r] \in Nat /\ DOMAIN pkgs[r] \subseteq Nat
        /\ \A j \in DOMAIN pkgs[r] : pkgs[r][j] \in Dnp
        /\ \A j \in DOMAIN pkgs[r] : pkgs[r][j] = e => j = idx[r] + 1
    BY <1>4, CurFacts, PlanFacts DEF More, Flagged
  <2>2. NoVer(r, e) /\ e \notin hadCompose[r]
    BY <1>4, <2>1 DEF FilesOK, NotYet
  <2>a. idx'[r] = idx[r] + 1
    BY <1>4 DEF IndType, TypeOK
  <2> HIDE DEF e
  <2>3. /\ \A x \in Dnp \ {e} : compose'[x] = compose[x]
                             /\ composeBackup'[x] = composeBackup[x]
        /\ composeBackup'[e] = IF compose[e] = None THEN composeBackup[e]
                               ELSE compose[e]
        /\ hadCompose'[r] = IF compose[e] = None THEN hadCompose[r]
                            ELSE hadCompose[r] \cup {e}
    BY <1>4, <2>1, WriteComposeFiles
  <2>4. NotYet(r)'
    <3> SUFFICES ASSUME NEW j \in DOMAIN pkgs[r], j > idx[r] + 1
                 PROVE  NoVer(r, pkgs[r][j])' /\ pkgs[r][j] \notin hadCompose'[r]
      BY <1>4, <2>a DEF NotYet, NoVer
    <3>1. pkgs[r][j] \in Dnp \ {e}
      BY <2>1
    <3>2. NoVer(r, pkgs[r][j]) /\ pkgs[r][j] \notin hadCompose[r]
      BY <1>4, <2>1 DEF FilesOK, NotYet
    <3>3. NoVer(r, pkgs[r][j])'
      BY <1>4, <2>3, <3>1, <3>2 DEF NoVer
    <3> QED
      BY <2>3, <3>1, <3>2, <3>3
  <2>5. BackedUp(r)'
    <3> SUFFICES ASSUME NEW x \in hadCompose'[r]
                 PROVE  /\ compose'[x] # None => composeBackup'[x] # None
                        /\ composeBackup'[x] # None => composeBackup'[x].ver # r
      BY DEF BackedUp
    <3>1. CASE x \in hadCompose[r]
      BY <1>0, <1>4, <2>2, <2>3, <3>1 DEF FilesOK, BackedUp
    <3>2. CASE x = e /\ compose[e] # None
      BY <2>2, <2>3, <3>2 DEF NoVer
    <3> QED
      BY <2>3, <3>1, <3>2
  <2>6. hadCompose'[r] \subseteq Range(pkgs'[r])
    BY <1>4, <2>1, <2>3 DEF FilesOK
  <2> QED
    BY <1>4, <2>4, <2>5, <2>6 DEF FilesOK, Unwritten, RolledBack, Early
<1>5. CASE pc[r] \in Running /\ RollbackFiles(r) /\ UNCHANGED <<pkgs, hadCompose>>
  <2>1. pc'[r] = "undo"
    BY <1>5 DEF RollbackFiles, Goto, IndType, TypeOK
  <2>2. ASSUME NEW x \in hadCompose[r]
        PROVE  NoVer(r, x)'
    <3>1. x \in Dnp /\ x \in Range(pkgs[r])
      BY <1>0 DEF FilesOK
    <3>2. /\ compose[x] # None => composeBackup[x] # None
          /\ composeBackup[x] # None => composeBackup[x].ver # r
      BY <1>5 DEF FilesOK, BackedUp
    <3>3. /\ compose'[x] = IF composeBackup[x] # None THEN composeBackup[x]
                           ELSE compose[x]
          /\ composeBackup'[x] = None
      BY <1>5, <3>1, RollbackFilesFiles
    <3> QED
      BY <1>5, <3>2, <3>3 DEF NoVer
  <2> QED
    BY <1>5, <2>1, <2>2 DEF FilesOK, Unwritten, NotYet, BackedUp, RolledBack, Running, Early
<1>6. CASE pc'[r] \in {"clean", "done", "unclean"} /\ UNCHANGED <<pkgs, hadCompose>>
  BY <1>6 DEF FilesOK, Unwritten, NotYet, BackedUp, RolledBack, Running, Early
<1> QED
  BY <1>1, <1>2, <1>3, <1>4, <1>5, <1>6, InstallFiles, InstallPhases

LEMMA InstallKeepsFiles ==
  ASSUME IndType, NoDoubleInstall, BackupInv, NEW r \in Req, Install(r)
  PROVE  BackupInv'
<1> SUFFICES ASSUME NEW q \in Req
             PROVE  FilesOK(q)'
  BY DEF BackupInv
<1>1. FilesOK(q)
  BY DEF BackupInv
<1>2. CASE q = r
  BY <1>1, <1>2, OwnFiles
<1>3. CASE q # r
  BY <1>1, <1>3, OthersKeepFiles
<1> QED
  BY <1>2, <1>3

\* A call edits a compose file in place or removes the files of a package.
LEMMA CallKeepsFiles ==
  ASSUME IndType, BackupInv, NEW o \in Op, Call(o)
  PROVE  BackupInv'
<1>1. UNCHANGED <<pc, idx, pkgs, hadCompose>>
  BY DEF Call, SetEnvironment, SetEnvironmentUp, SetEnvironmentDone,
     SetEnvironmentFails, Remove, RemoveFiles, reqVars, planVars
<1>2. ASSUME NEW d \in Dnp
      PROVE  \/ compose'[d] = compose[d] /\ composeBackup'[d] = composeBackup[d]
             \/ /\ composeBackup'[d] = composeBackup[d]
                /\ compose[d] # None /\ compose'[d].ver = compose[d].ver
             \/ compose'[d] = None /\ composeBackup'[d] = None
  <2>1. CASE SetEnvironment(o)
    <3>1. PICK e \in Dnp : /\ compose[e] # None
                         /\ compose' = [compose EXCEPT ![e].env = o]
      BY <2>1 DEF SetEnvironment
    <3>2. composeBackup' = composeBackup
      BY <2>1 DEF SetEnvironment
    <3>3. compose[e] \in Content
      BY <3>1 DEF IndType, TypeOK
    <3>4. compose'[e] = [compose[e] EXCEPT !.env = o]
      BY <3>1 DEF IndType, TypeOK
    <3>5. compose'[e].ver = compose[e].ver
      BY <3>3, <3>4 DEF Content
    <3>6. d # e => compose'[d] = compose[d]
      BY <3>1 DEF IndType, TypeOK
    <3> QED
      BY <3>1, <3>2, <3>5, <3>6
  <2>2. CASE RemoveFiles(o)
    BY <2>2 DEF RemoveFiles, IndType, TypeOK
  <2>3. CASE SetEnvironmentUp(o) \/ SetEnvironmentDone(o) \/ SetEnvironmentFails(o)
               \/ Remove(o)
    BY <2>3 DEF SetEnvironmentUp, SetEnvironmentDone, SetEnvironmentFails, Remove,
       diskVars
  <2> QED
    BY <2>1, <2>2, <2>3 DEF Call
<1> SUFFICES ASSUME NEW q \in Req
             PROVE  FilesOK(q)'
  BY DEF BackupInv
<1>3. FilesOK(q) /\ hadCompose[q] \subseteq Dnp
  BY DEF BackupInv, IndType, TypeOK
<1>4. \A d \in Dnp : NoVer(q, d) => NoVer(q, d)'
  BY <1>2 DEF NoVer
<1>5. Unwritten(q)'
  BY <1>1, <1>3, <1>4 DEF FilesOK, Unwritten
<1>6. NotYet(q)'
  <2> SUFFICES ASSUME pc[q] = "validate", NEW j \in DOMAIN pkgs[q], j > idx[q]
               PROVE  NoVer(q, pkgs[q][j])' /\ pkgs[q][j] \notin hadCompose[q]
    BY <1>1 DEF NotYet, NoVer
  <2>1. pkgs[q][j] \in Dnp
    BY CurFacts, PlanFacts DEF Flagged
  <2> QED
    BY <1>1, <1>3, <1>4, <2>1 DEF FilesOK, NotYet, NoVer
<1>7. BackedUp(q)'
  BY <1>1, <1>2, <1>3 DEF FilesOK, BackedUp
<1>8. RolledBack(q)'
  BY <1>1, <1>3, <1>4 DEF FilesOK, RolledBack
<1> QED
  BY <1>1, <1>3, <1>5, <1>6, <1>7, <1>8 DEF FilesOK

THEOREM BackupInvariant ==
  ASSUME Guarded
  PROVE  Spec => []BackupInv
<1>1. Init => BackupInv
  <2> SUFFICES ASSUME Init, NEW r \in Req
               PROVE  FilesOK(r)
    BY DEF BackupInv
  <2>1. PICK present \in SUBSET Dnp :
          compose = [d \in Dnp |-> IF d \in present
                                     THEN [ver |-> Installed, env |-> None]
                                     ELSE None]
    BY DEF Init, Fresh
  <2>2. \A d \in Dnp : NoVer(r, d)
    BY <2>1, VersionAssumption DEF Init, Fresh, NoVer
  <2>3. pc[r] = "idle" /\ hadCompose[r] = {}
    BY DEF Init, Fresh
  <2> QED
    BY <2>2, <2>3 DEF FilesOK, Unwritten, NotYet, BackedUp, RolledBack, Running
<1>2. IndType /\ NoDoubleInstall /\ BackupInv /\ [Next]_vars => BackupInv'
  <2> SUFFICES ASSUME IndType, NoDoubleInstall, BackupInv, [Next]_vars
               PROVE  BackupInv'
    OBVIOUS
  <2>1. CASE FlagExpires
    BY <2>1 DEF FlagExpires, BackupInv, FilesOK, Unwritten, NotYet, BackedUp,
       RolledBack, NoVer, reqVars, planVars, diskVars
  <2>2. CASE Crash
    <3>1. UNCHANGED <<pkgs, compose, composeBackup, hadCompose>>
      BY <2>2 DEF Crash, planVars, diskVars
    <3> SUFFICES ASSUME NEW r \in Req
                 PROVE  FilesOK(r)'
      BY DEF BackupInv
    <3>2. \/ pc[r] = pc'[r] /\ pc[r] \in Ended \cup {"idle"}
          \/ pc'[r] = "crashed"
      BY <2>2 DEF Crash
    <3>3. FilesOK(r)
      BY DEF BackupInv
    <3> QED
      BY <3>1, <3>2, <3>3 DEF FilesOK, Unwritten, NotYet, BackedUp, RolledBack,
         NoVer, Early, Running, Ended
  <2>3. CASE UNCHANGED vars
    BY <2>3 DEF vars, BackupInv, FilesOK, Unwritten, NotYet, BackedUp, RolledBack,
       NoVer, reqVars, planVars, diskVars
  <2>4. ASSUME NEW d \in Dnp, Recreate(d)
        PROVE  BackupInv'
    BY <2>4, RecreateFrame DEF BackupInv, FilesOK, Unwritten, NotYet, BackedUp,
       RolledBack, NoVer
  <2> QED
    BY <2>1, <2>2, <2>3, <2>4, InstallKeepsFiles, CallKeepsFiles DEF Next
<1> QED
  BY <1>1, <1>2, IndTypeInvariant, NoDoubleInstalls, PTL DEF Spec

\* While an install may still be rolled back, each compose file it replaced has
\* a backup, and that backup is an older version.
THEOREM BackupsSound ==
  ASSUME Guarded
  PROVE  Spec => []BackupSound
<1>1. BackupInv => BackupSound
  BY DEF BackupInv, FilesOK, BackedUp, BackupSound
<1> QED
  BY <1>1, BackupInvariant, PTL

\* A rollback leaves nothing of the failed install where there was a version
\* before, and nothing brings it back later.
THEOREM RollbacksRestore ==
  ASSUME Guarded
  PROVE  Spec => []RollbackRestores
<1>1. BackupInv => RollbackRestores
  BY DEF BackupInv, FilesOK, RolledBack, NoVer, RollbackRestores
<1> QED
  BY <1>1, BackupInvariant, PTL

-----------------------------------------------------------------------------
(***************************************************************************)
(* Stopped packages.  Every request that will touch a package stopped from *)
(* the start has listed it as an update and has read that it is stopped,   *)
(* and whoever waits for docker there does not ask it to start.            *)
(***************************************************************************)
KnowsStopped(r, d) ==
  d \in Range(pkgs[r]) =>
    /\ pc[r] \in {"gather", "ask"} \cup Flagged => d \in isUpdate[r]
    /\ pc[r] \in {"ask"} \cup Flagged => d \in wasStopped[r]

IsStopped(d) == container[d] # None /\ container[d].up = FALSE

StoppedInv(d) ==
  /\ IsStopped(d)
  /\ upLock[d] # None => upLock[d].start = FALSE
  /\ \A r \in Req : KnowsStopped(r, d)

\* docker compose up that does not start leaves a stopped container stopped.
LEMMA UppedStopped ==
  ASSUME NEW f \in Content, NEW c, NEW b, c # None, c.up = FALSE, b = FALSE
  PROVE  Upped(f, c, b) # None /\ Upped(f, c, b).up = FALSE
<1>0. [from |-> f, up |-> FALSE] \in Container
  BY DEF Container
<1>1. [from |-> f, up |-> FALSE] # None
  BY <1>0, NoneAssumption
<1>2. (c.up \/ b) = FALSE
  OBVIOUS
<1>3. Upped(f, c, b) = [from |-> f, up |-> FALSE]
  BY <1>2 DEF Upped
<1> QED
  BY <1>1, <1>3

LEMMA ResolutionKnowsStopped ==
  ASSUME IndType, NEW d \in Dnp, StoppedInv(d), NEW r \in Req,
         Resolve(r) \/ DevCheck(r) \/ DevList(r) \/ Refuse(r) \/ Gather(r)
           \/ Flag(r) \/ Reject(r)
  PROVE  /\ KnowsStopped(r, d)'
         /\ UNCHANGED <<upLock, container>>
<1> USE DEF Goto, procVars, planVars, IndType, TypeOK
<1>0. KnowsStopped(r, d) /\ container[d] # None /\ ~container[d].up
  BY DEF StoppedInv, IsStopped
<1>1. CASE Resolve(r) \/ DevList(r)
  BY <1>0, <1>1 DEF Resolve, DevList, KnowsStopped, Flagged
<1>2. CASE DevCheck(r) \/ Refuse(r)
  BY <1>0, <1>2 DEF DevCheck, Refuse, KnowsStopped, Flagged
<1>3. CASE Gather(r)
  <2>1. wasStopped'[r] = wasStopped[r] \cup
          {x \in Range(pkgs[r]) \ Unlisted(r) : container[x] # None /\ ~container[x].up}
    BY <1>3 DEF Gather, Snapshot
  <2>2. d \in Range(pkgs[r]) => d \in wasStopped'[r]
    BY <1>0, <2>1 DEF Unlisted
  <2> QED
    BY <1>0, <1>3, <2>2 DEF Gather, KnowsStopped, Flagged
<1>4. CASE Flag(r) \/ Reject(r)
  <2>1. CASE pc[r] = "gather" /\ Unlisted(r) = {} /\ Snapshot(r, Range(pkgs[r]))
    <3>1. wasStopped'[r] = wasStopped[r] \cup
            {x \in Range(pkgs[r]) : container[x] # None /\ ~container[x].up}
      BY <2>1 DEF Snapshot
    <3> QED
      BY <1>0, <1>4, <2>1, <3>1 DEF Flag, Reject, KnowsStopped, Flagged
  <2>2. CASE pc[r] = "ask" /\ Snapshot(r, asked[r])
    <3>1. wasStopped[r] \subseteq wasStopped'[r]
      BY <2>2 DEF Snapshot
    <3> QED
      BY <1>0, <1>4, <2>2, <3>1 DEF Flag, Reject, KnowsStopped, Flagged
  <2> QED
    BY <1>4, <2>1, <2>2 DEF Flag, Reject, Gathered
<1> QED
  BY <1>1, <1>2, <1>3, <1>4

\* After the flags the plan and what was read of it stay.
LEMMA FlaggedReads ==
  ASSUME IndType, NEW r \in Req, Install(r), pc[r] \in Flagged
  PROVE  UNCHANGED <<pkgs, isUpdate, wasStopped>>
<1> USE DEF planVars
<1>1. CASE Resolve(r) \/ DevCheck(r) \/ DevList(r) \/ Refuse(r) \/ Gather(r)
             \/ Flag(r) \/ Reject(r)
  BY <1>1 DEF Resolve, DevCheck, DevList, Refuse, Gather, Flag, Reject, Gathered,
     Flagged
<1>2. CASE Prepare(r) \/ PrepareFails(r) \/ Validate(r) \/ ValidateFails(r)
             \/ Create(r) \/ CreateFails(r) \/ StartLock(r) \/ StartThrows(r)
  BY <1>2 DEF Prepare, PrepareFails, Validate, ValidateFails, Create, CreateFails,
     StartLock, StartThrows
<1>3. CASE Start(r) \/ StartFails(r) \/ Expose(r) \/ ExposeFails(r) \/ UndoLock(r)
             \/ UndoThrows(r) \/ Undo(r) \/ UndoRemove(r) \/ Clean(r) \/ CleanFails(r)
  BY <1>3 DEF Start, StartFails, Expose, ExposeFails, UndoLock, UndoThrows, Undo,
     UndoRemove, Clean, CleanFails
<1> QED
  BY <1>1, <1>2, <1>3 DEF Install

\* ... and so does what the other requests have read.
LEMMA OtherReads ==
  ASSUME IndType, NEW r \in Req, Install(r)
  PROVE  \A q \in Req \ {r} : isUpdate'[q] = isUpdate[q] /\ wasStopped'[q] = wasStopped[q]
<1>1. CASE pc[r] \in Flagged
  BY <1>1, FlaggedReads
<1>2. CASE pc[r] \notin Flagged
  <2>1. Resolve(r) \/ DevCheck(r) \/ DevList(r) \/ Refuse(r) \/ Gather(r)
          \/ Flag(r) \/ Reject(r)
    BY <1>2 DEF Install, Prepare, PrepareFails, Validate, ValidateFails, Create,
       CreateFails, StartLock, StartThrows, Start, StartFails, Expose, ExposeFails,
       UndoLock, UndoThrows, Undo, UndoRemove, Clean, CleanFails, Flagged
  <2> QED
    BY <2>1 DEF Resolve, DevCheck, DevList, Refuse, Gather, Flag, Reject, Gathered,
       Snapshot, planVars, IndType, TypeOK
<1> QED
  BY <1>1, <1>2

LEMMA LockKeepsStopped ==
  ASSUME IndType, NEW d \in Dnp, StoppedInv(d), NEW r \in Req,
         StartLock(r) \/ UndoLock(r)
  PROVE  (upLock[d] # None => upLock[d].start = FALSE)'
<1>1. pc[r] \in Flagged
  BY DEF StartLock, UndoLock, Flagged
<1>2. Cur(r) \in Dnp /\ Cur(r) \in Range(pkgs[r])
  BY <1>1, CurFacts, PlanFacts DEF Cur
<1>3. upLock' = [upLock EXCEPT ![Cur(r)] =
        [by |-> r, from |-> compose[Cur(r)], start |-> Cur(r) \notin wasStopped[r],
         again |-> FALSE]]
  BY DEF StartLock, UndoLock, Lock
<1>4. CASE d = Cur(r)
  <2>1. d \in wasStopped[r]
    BY <1>1, <1>2, <1>4 DEF StoppedInv, KnowsStopped
  <2>2. upLock'[d].start = (d \notin wasStopped[r])
    BY <1>3, <1>4 DEF IndType, TypeOK
  <2> QED
    BY <2>1, <2>2
<1>5. CASE d # Cur(r)
  BY <1>3, <1>5 DEF StoppedInv, IndType, TypeOK
<1> QED
  BY <1>4, <1>5

\* The containers of d: docker is only asked to make them as they are.
LEMMA ContainerKeepsStopped ==
  ASSUME {"create", "start", "rollback"} \cap Faults = {},
         IndType, NEW d \in Dnp \ PidDnp, StoppedInv(d), NEW r \in Req, Install(r)
  PROVE  IsStopped(d)'
<1> USE DEF IsStopped
<1>0. /\ container[d] # None /\ container[d].up = FALSE
      /\ upLock[d] # None => upLock[d].start = FALSE /\ upLock[d].from \in Content
      /\ compose[d] # None => compose[d] \in Content
  BY DEF StoppedInv, IndType, TypeOK, Holder
<1>1. CASE container'[d] = container[d]
  BY <1>0, <1>1
<1>2. ASSUME NEW c, container' = [container EXCEPT ![Cur(r)] = c],
             d = Cur(r) => c # None /\ c.up = FALSE
      PROVE  IsStopped(d)'
  <2>1. d = Cur(r) => container'[d] = c
    BY <1>2 DEF IndType, TypeOK
  <2>2. d # Cur(r) => container'[d] = container[d]
    BY <1>2 DEF IndType, TypeOK
  <2> QED
    BY <1>0, <1>2, <2>1, <2>2
<1>3. CASE Create(r)
  <2>1. compose[Cur(r)] # None
    BY <1>3 DEF Create
  <2>2. container' = [container EXCEPT ![Cur(r)] =
                        Upped(compose[Cur(r)], container[Cur(r)], Cur(r) \in PidDnp)]
    BY <1>3 DEF Create
  <2>3. d = Cur(r) => /\ Upped(compose[d], container[d], d \in PidDnp) # None
                      /\ Upped(compose[d], container[d], d \in PidDnp).up = FALSE
    <3> SUFFICES ASSUME d = Cur(r)
                 PROVE  /\ Upped(compose[d], container[d], d \in PidDnp) # None
                        /\ Upped(compose[d], container[d], d \in PidDnp).up = FALSE
      OBVIOUS
    <3>1. compose[d] \in Content /\ (d \in PidDnp) = FALSE
      BY <1>0, <2>1
    <3> QED
      BY <1>0, <3>1, UppedStopped, Zenon
  <2> QED
    BY <1>2, <2>2, <2>3
<1>4. CASE Start(r) \/ Undo(r)
  <2>1. upLock[Cur(r)] # None
    BY <1>4 DEF Start, Undo, IndType, HolderOK
  <2>2. container' = [container EXCEPT ![Cur(r)] =
           Upped(upLock[Cur(r)].from, container[Cur(r)], upLock[Cur(r)].start)]
    BY <1>4 DEF Start, Undo
  <2>3. d = Cur(r) =>
          /\ Upped(upLock[d].from, container[d], upLock[d].start) # None
          /\ Upped(upLock[d].from, container[d], upLock[d].start).up = FALSE
    <3> SUFFICES ASSUME d = Cur(r)
                 PROVE  /\ Upped(upLock[d].from, container[d], upLock[d].start) # None
                        /\ Upped(upLock[d].from, container[d], upLock[d].start).up = FALSE
      OBVIOUS
    <3>1. upLock[d].from \in Content /\ upLock[d].start = FALSE
      BY <1>0, <2>1
    <3> QED
      BY <1>0, <3>1, UppedStopped, Zenon
  <2> QED
    BY <1>2, <2>2, <2>3
<1>5. CASE UndoRemove(r)
  <2>1. pc[r] \in Flagged /\ Cur(r) \notin isUpdate[r]
    BY <1>5 DEF UndoRemove, Flagged
  <2>2. Cur(r) \in Range(pkgs[r])
    BY <2>1, CurFacts, PlanFacts DEF Cur
  <2>3. d # Cur(r)
    BY <2>1, <2>2 DEF StoppedInv, KnowsStopped
  <2>4. \E c : container' = [container EXCEPT ![Cur(r)] = c]
    BY <1>5 DEF UndoRemove
  <2> QED
    BY <1>1, <2>3, <2>4 DEF IndType, TypeOK
<1>6. CASE CreateFails(r) \/ StartFails(r)
  BY <1>0, <1>6 DEF CreateFails, StartFails
<1>7. CASE Resolve(r) \/ DevCheck(r) \/ DevList(r) \/ Refuse(r) \/ Gather(r)
             \/ Flag(r) \/ Reject(r) \/ Prepare(r) \/ PrepareFails(r) \/ Validate(r)
             \/ ValidateFails(r)
  BY <1>0, <1>7 DEF Resolve, DevCheck, DevList, Refuse, Gather, Flag, Reject, Prepare,
     PrepareFails, Validate, ValidateFails
<1>8. CASE StartLock(r) \/ StartThrows(r) \/ Expose(r) \/ ExposeFails(r)
             \/ UndoLock(r) \/ UndoThrows(r) \/ Clean(r) \/ CleanFails(r)
  BY <1>0, <1>8 DEF StartLock, StartThrows, Expose, ExposeFails, UndoLock, UndoThrows,
     Clean, CleanFails
<1> QED
  BY <1>3, <1>4, <1>5, <1>6, <1>7, <1>8 DEF Install

\* Locks that a step does not take
LEMMA LockOrLess ==
  ASSUME IndType, NEW r \in Req, Install(r), NEW d \in Dnp
  PROVE  upLock'[d] \in {upLock[d], None} \/ StartLock(r) \/ UndoLock(r)
<1> USE DEF procVars, IndType, TypeOK
<1>1. CASE Resolve(r) \/ DevCheck(r) \/ DevList(r) \/ Refuse(r) \/ Gather(r)
             \/ Flag(r) \/ Reject(r) \/ Prepare(r) \/ PrepareFails(r) \/ Validate(r)
             \/ ValidateFails(r)
  BY <1>1 DEF Resolve, DevCheck, DevList, Refuse, Gather, Flag, Reject, Prepare,
     PrepareFails, Validate, ValidateFails
<1>2. CASE Create(r) \/ CreateFails(r) \/ StartThrows(r) \/ Expose(r) \/ ExposeFails(r)
             \/ UndoThrows(r) \/ UndoRemove(r) \/ Clean(r) \/ CleanFails(r)
  BY <1>2 DEF Create, CreateFails, StartThrows, Expose, ExposeFails, UndoThrows,
     UndoRemove, Clean, CleanFails
<1>3. CASE Start(r) \/ StartFails(r) \/ Undo(r)
  BY <1>3 DEF Start, StartFails, Undo, Unlock
<1> QED
  BY <1>1, <1>2, <1>3 DEF Install

LEMMA InstallKeepsStopped ==
  ASSUME {"create", "start", "rollback"} \cap Faults = {},
         IndType, NEW d \in Dnp \ PidDnp, StoppedInv(d), NEW r \in Req, Install(r)
  PROVE  StoppedInv(d)'
<1>1. IsStopped(d)'
  BY ContainerKeepsStopped
<1>2. (upLock[d] # None => upLock[d].start = FALSE)'
  BY LockOrLess, LockKeepsStopped DEF StoppedInv
<1>3. KnowsStopped(r, d)'
  <2>1. CASE pc[r] \in Flagged
    <3>1. pc'[r] \notin {"gather", "ask"}
      <4>1. CASE Prepare(r) \/ PrepareFails(r)
        BY <4>1 DEF Prepare, PrepareFails, AfterInstall, Goto, IndType, TypeOK
      <4>2. CASE pc[r] # "prepare"
        BY <2>1, <4>2, InstallPhases DEF Early, Flagged
      <4>3. pc[r] = "prepare" => Prepare(r) \/ PrepareFails(r)
        BY DEF Install, Resolve, DevCheck, DevList, Refuse, Gather, Flag, Reject, Gathered,
           Validate, ValidateFails, Create, CreateFails, StartLock, StartThrows, Start,
           StartFails, Expose, ExposeFails, UndoLock, UndoThrows, Undo, UndoRemove, Clean,
           CleanFails
      <4> QED
        BY <4>1, <4>2, <4>3
    <3> QED
      BY <2>1, <3>1, FlaggedReads DEF StoppedInv, KnowsStopped
  <2>2. CASE pc[r] \notin Flagged
    <3>1. Resolve(r) \/ DevCheck(r) \/ DevList(r) \/ Refuse(r) \/ Gather(r)
            \/ Flag(r) \/ Reject(r)
      BY <2>2 DEF Install, Prepare, PrepareFails, Validate, ValidateFails, Create,
         CreateFails, StartLock, StartThrows, Start, StartFails, Expose, ExposeFails,
         UndoLock, UndoThrows, Undo, UndoRemove, Clean, CleanFails, Flagged
    <3> QED
      BY <3>1, ResolutionKnowsStopped
  <2> QED
    BY <2>1, <2>2
<1>4. ASSUME NEW q \in Req \ {r}
      PROVE  KnowsStopped(q, d)'
  BY InstallFrame, OtherReads DEF StoppedInv, KnowsStopped
<1> QED
  BY <1>1, <1>2, <1>3, <1>4 DEF StoppedInv

\* packageSetEnvironment creates a stopped package again and leaves it stopped.
LEMMA CallKeepsStopped ==
  ASSUME RemoveOp = {}, {"create", "start", "rollback"} \cap Faults = {},
         IndType, NEW d \in Dnp \ PidDnp, StoppedInv(d), NEW o \in Op, Call(o)
  PROVE  StoppedInv(d)'
<1>0. /\ container[d] # None /\ container[d].up = FALSE
      /\ upLock[d] # None => upLock[d].start = FALSE /\ upLock[d].from \in Content
  BY DEF StoppedInv, IsStopped, IndType, TypeOK, Holder
<1>1. \A r \in Req : KnowsStopped(r, d)'
  <2>1. UNCHANGED reqVars
    BY DEF Call, SetEnvironment, SetEnvironmentUp, SetEnvironmentDone,
       SetEnvironmentFails, Remove, RemoveFiles
  <2> QED
    BY <2>1 DEF reqVars, planVars, StoppedInv, KnowsStopped
<1>2. CASE SetEnvironment(o) \/ RemoveFiles(o)
  BY <1>0, <1>1, <1>2 DEF SetEnvironment, RemoveFiles, procVars, StoppedInv, IsStopped
<1>3. CASE SetEnvironmentUp(o)
  <2>1. container' = container
    BY <1>3 DEF SetEnvironmentUp
  <2>2. (upLock[d] # None => upLock[d].start = FALSE)'
    <3>1. CASE CanLock(opDnp[o])
      <4>1. upLock' = [upLock EXCEPT ![opDnp[o]] =
              [by |-> o, from |-> compose[opDnp[o]],
               start |-> container[opDnp[o]] = None \/ container[opDnp[o]].up,
               again |-> FALSE]]
        BY <1>3, <3>1 DEF SetEnvironmentUp, Lock
      <4>2. CASE d = opDnp[o]
        <5>1. upLock'[d].start = (container[d] = None \/ container[d].up)
          BY <4>1, <4>2 DEF IndType, TypeOK
        <5> QED
          BY <1>0, <5>1
      <4>3. CASE d # opDnp[o]
        BY <1>0, <4>1, <4>3 DEF IndType, TypeOK
      <4> QED
        BY <4>2, <4>3
    <3>2. CASE ~CanLock(opDnp[o])
      BY <1>0, <1>3, <3>2 DEF SetEnvironmentUp
    <3> QED
      BY <3>1, <3>2
  <2> QED
    BY <1>0, <1>1, <2>1, <2>2 DEF StoppedInv, IsStopped
<1>4. CASE SetEnvironmentDone(o)
  <2> DEFINE c == Upped(upLock[opDnp[o]].from, container[opDnp[o]],
                        upLock[opDnp[o]].start)
  <2>1. /\ container' = [container EXCEPT ![opDnp[o]] = c]
        /\ upLock' = [upLock EXCEPT ![opDnp[o]] = None]
    BY <1>4 DEF SetEnvironmentDone, Unlock
  <2>2. upLock[opDnp[o]] # None
    BY <1>4 DEF SetEnvironmentDone, IndType, HolderOK
  <2>3. d = opDnp[o] => c # None /\ c.up = FALSE
    <3> SUFFICES ASSUME d = opDnp[o]
                 PROVE  c # None /\ c.up = FALSE
      OBVIOUS
    <3>1. upLock[d].from \in Content /\ upLock[d].start = FALSE
      BY <1>0, <2>2
    <3>2. /\ Upped(upLock[d].from, container[d], upLock[d].start) # None
          /\ Upped(upLock[d].from, container[d], upLock[d].start).up = FALSE
      BY <1>0, <3>1, UppedStopped, Zenon
    <3> QED
      BY <3>2
  <2> HIDE DEF c
  <2>4. IsStopped(d)'
    <3>1. d = opDnp[o] => container'[d] = c
      BY <2>1 DEF IndType, TypeOK
    <3>2. d # opDnp[o] => container'[d] = container[d]
      BY <2>1 DEF IndType, TypeOK
    <3> QED
      BY <1>0, <2>3, <3>1, <3>2 DEF IsStopped
  <2>5. (upLock[d] # None => upLock[d].start = FALSE)'
    BY <1>0, <2>1 DEF IndType, TypeOK
  <2> QED
    BY <1>1, <2>4, <2>5 DEF StoppedInv
<1>5. ~SetEnvironmentFails(o) /\ ~Remove(o)
  BY DEF SetEnvironmentFails, Remove
<1> QED
  BY <1>2, <1>3, <1>4, <1>5 DEF Call

\* An install or a rollback, also one that overlaps others, is restarted or
\* races packageSetEnvironment, starts no package that was stopped unless it
\* takes it down first to up it again, as long as docker does not fail in
\* another way: a failed command may leave no container, and a call that reads
\* the containers then takes the package for one that was not stopped.
THEOREM StoppedStay ==
  ASSUME RemoveOp = {}, {"create", "start", "rollback"} \cap Faults = {}
  PROVE  Spec => StoppedStaysStopped
<1> SUFFICES ASSUME NEW d \in Dnp \ PidDnp
             PROVE  Spec => (container[d] # None /\ ~IsUp(d) => [](IsUp(d) => d \in recreated))
  BY DEF StoppedStaysStopped
<1> DEFINE Kept == StoppedInv(d) \/ d \in recreated
<1>1. Init /\ container[d] # None /\ ~IsUp(d) => StoppedInv(d)
  <2> SUFFICES ASSUME Init, container[d] # None, ~IsUp(d)
               PROVE  StoppedInv(d)
    OBVIOUS
  <2>1. container[d].up \in BOOLEAN
    BY InitType DEF IndType, TypeOK, Container
  <2>2. IsStopped(d)
    BY <2>1 DEF IsUp, IsStopped
  <2> QED
    BY <2>2 DEF Init, Fresh, StoppedInv, KnowsStopped, Flagged
<1>2. IndType /\ Kept /\ [Next]_vars => Kept'
  <2> SUFFICES ASSUME IndType, Kept, [Next]_vars
               PROVE  Kept'
    OBVIOUS
  <2>1. CASE FlagExpires
    BY <2>1 DEF FlagExpires, reqVars, planVars, StoppedInv, IsStopped, KnowsStopped
  <2>2. CASE Crash
    BY <2>2 DEF Crash, planVars, Flagged, Ended, StoppedInv, IsStopped, KnowsStopped
  <2>3. CASE UNCHANGED vars
    BY <2>3 DEF vars, reqVars, planVars, procVars, StoppedInv, IsStopped, KnowsStopped
  <2>4. ASSUME NEW e \in Dnp, Recreate(e)
        PROVE  Kept'
    <3>1. CASE e = d \/ d \in recreated
      BY <2>4, <3>1, RecreateFrame
    <3>2. CASE e # d /\ StoppedInv(d)
      <4>1. container'[d] = container[d]
        BY <2>4, <3>2, RecreateFrame DEF IndType, TypeOK
      <4> QED
        BY <2>4, <3>2, <4>1, RecreateFrame DEF StoppedInv, IsStopped, KnowsStopped
    <3> QED
      BY <3>1, <3>2
  <2>5. ASSUME NEW r \in Req, Install(r)
        PROVE  Kept'
    BY <2>5, InstallFrame, InstallKeepsStopped
  <2>6. ASSUME NEW o \in Op, Call(o)
        PROVE  Kept'
    <3>1. recreated' = recreated
      BY <2>6 DEF Call, SetEnvironment, SetEnvironmentUp, SetEnvironmentDone,
         SetEnvironmentFails, Remove, RemoveFiles
    <3> QED
      BY <2>6, <3>1, CallKeepsStopped
  <2> HIDE DEF Kept
  <2> QED
    BY <2>1, <2>2, <2>3, <2>4, <2>5, <2>6 DEF Next
<1>3. Kept => (IsUp(d) => d \in recreated)
  BY DEF StoppedInv, IsStopped, IsUp
<1> QED
  BY <1>1, <1>2, <1>3, IndTypeInvariant, PTL DEF Spec

-----------------------------------------------------------------------------
(***************************************************************************)
(* What is left when everything has ended.  A package may differ from its  *)
(* compose file only while a request that has written the file, or put it  *)
(* back, still has to bring its containers up or to take them down.        *)
(***************************************************************************)

\* packageInstall alone, in a process that is not restarted, with compose files
\* that docker accepts and rollbacks that docker carries out
Undisturbed ==
  /\ DevReq = {} /\ EnvOp = {} /\ RemoveOp = {}
  /\ {"validate", "rollback", "expire", "crash"} \cap Faults = {}

\* r has written the file of its package i, or has put it back.
FilePut(r, i) ==
  \/ pc[r] = "validate" /\ i <= idx[r]
  \/ pc[r] \in Running \cup {"undo", "undoing", "clean"}
\* r still has to make the containers of its package i follow the file.
Behind(r, i) ==
  \/ pc[r] = "validate" /\ i <= idx[r]
  \/ pc[r] \in {"create", "undo", "undoing"} /\ i >= idx[r]
  \/ pc[r] \in {"start", "starting", "expose"} /\ i > idx[r]

Matches(d) ==
  container[d] # None => compose[d] # None /\ container[d].from = compose[d]
Settled(d) ==
  \/ Matches(d)
  \/ \E r \in Req : \E i \in DOMAIN pkgs[r] : pkgs[r][i] = d /\ Behind(r, i)
HasFile(d) == container[d] # None => compose[d] # None

\* The loops write the files from the first one on; a lock is on the file as it
\* is; an update had a file, and that file was backed up when r wrote its own.
FilesPut(r) ==
  /\ pc[r] = "prepare" => idx[r] = 1
  /\ \A i \in DOMAIN pkgs[r] : FilePut(r, i) => compose[pkgs[r][i]] # None
LockedFile(r) ==
  pc[r] \in {"starting", "undoing"} => upLock[Cur(r)].from = compose[Cur(r)]
ListedFile(r) == \A d \in isUpdate[r] : compose[d] # None
UpdateKept(r) ==
  \A i \in DOMAIN pkgs[r] :
    pkgs[r][i] \in isUpdate[r] /\ (FilePut(r, i) \/ pc[r] = "rolledBack")
      => pkgs[r][i] \in hadCompose[r]

\* An update whose containers are gone is one that q took down and ups again,
\* that q will bring up again, or that q took for a new package and removes.
Undone(q, d) ==
  \E i \in DOMAIN pkgs[q] :
    /\ pkgs[q][i] = d
    /\ \/ pc[q] = "starting" /\ i = idx[q]
       \/ pc[q] \in {"undo", "undoing"} /\ i >= idx[q]
       \/ pc[q] \in {"undo", "undoing", "rolledBack"} /\ d \notin isUpdate[q]
GoneUndone(d) ==
  container[d] = None /\ (\E r \in Req : d \in isUpdate[r])
    => \E q \in Req : Undone(q, d)

RequestOK(r) == FilesPut(r) /\ LockedFile(r) /\ ListedFile(r) /\ UpdateKept(r)
PackageOK(d) == Settled(d) /\ HasFile(d) /\ GoneUndone(d)
OutcomeInv ==
  /\ \A r \in Req : RequestOK(r)
  /\ \A d \in Dnp : PackageOK(d)

\* The loops of a plan end at its last package.
LEMMA PlanEnd ==
  ASSUME NEW p \in Plan, NEW i \in DOMAIN p, NEW j \in DOMAIN p, i + 1 \notin DOMAIN p
  PROVE  j <= i
<1>0. Cardinality(Dnp) \in Nat
  BY DnpAssumption, FS_CardinalityType
<1>1. PICK n \in 1 .. Cardinality(Dnp) : p \in Injection(1 .. n, Dnp)
  BY DEF Plan
<1>2. n \in Nat /\ DOMAIN p = 1 .. n
  BY <1>0, <1>1 DEF Injection
<1> QED
  BY <1>2

\* No step of a request removes a compose file.
LEMMA FilesStay ==
  ASSUME IndType, NEW r \in Req, Install(r), NEW d \in Dnp, compose[d] # None
  PROVE  compose'[d] # None
<1>1. ASSUME NEW e \in Dnp, WriteCompose(r, e)
      PROVE  compose'[d] # None
  BY <1>1, WriteComposeFiles
<1>2. CASE Prepare(r) /\ pc[r] = "prepare" /\ WriteCompose(r, Cur(r))
  BY <1>1, <1>2, CurFacts DEF Flagged
<1>3. CASE Validate(r) /\ pc[r] = "validate" /\ More(r)
             /\ WriteCompose(r, pkgs[r][idx[r] + 1])
  BY <1>1, <1>3, CurFacts DEF Flagged, More
<1>4. CASE RollbackFiles(r)
  BY <1>4, RollbackFilesFiles
<1> QED
  BY <1>2, <1>3, <1>4, InstallFiles

\* A request is alone on its packages and docker compose runs for nobody else
\* there, so its rollback is never refused.
LEMMA UndoFree ==
  ASSUME Undisturbed, IndType, FlagInv, LockNotLeaked,
         NEW r \in Req, RequestOK(r), pc[r] = "undo"
  PROVE  CanLock(Cur(r))
<1>1. /\ pkgs[r] \in Plan /\ idx[r] \in DOMAIN pkgs[r] /\ Cur(r) \in Dnp
      /\ Cur(r) \in Range(pkgs[r])
  BY CurFacts, PlanFacts DEF Flagged, Cur
<1>2. compose[Cur(r)] # None
  BY <1>1 DEF RequestOK, FilesPut, FilePut, Cur
<1>3. ASSUME upLock[Cur(r)] # None
      PROVE  FALSE
  <2>1. upLock[Cur(r)].by \in Req
    BY <1>1, <1>3 DEF IndType, TypeOK, Holder, Op, Undisturbed
  <2> DEFINE q == upLock[Cur(r)].by
  <2>2. pc[q] \in {"starting", "undoing"} /\ Cur(q) = Cur(r)
    BY <1>1, <1>3, <2>1 DEF LockNotLeaked
  <2> HIDE DEF q
  <2>3. q \in Req /\ pc[q] \in Flagged
    BY <2>1, <2>2 DEF q, Flagged
  <2>4. Cur(q) \in Range(pkgs[q])
    BY <2>3, CurFacts, PlanFacts DEF Cur
  <2> QED
    BY <1>1, <2>2, <2>3, <2>4 DEF FlagInv, NoDoubleInstall, Flagged
<1> QED
  BY <1>2, <1>3 DEF CanLock

LEMMA UppedFrom ==
  ASSUME NEW f \in Content, NEW c \in Container \cup {None}, NEW b \in BOOLEAN
  PROVE  Upped(f, c, b) # None /\ Upped(f, c, b).from = f
<1>1. [from |-> f, up |-> b] \in Container
  BY DEF Container
<1>2. c # None => [from |-> f, up |-> c.up \/ b] \in Container
  BY DEF Container
<1>3. [from |-> f, up |-> b] # None /\ (c # None => [from |-> f, up |-> c.up \/ b] # None)
  BY <1>1, <1>2, NoneAssumption
<1> QED
  BY <1>3 DEF Upped

-----------------------------------------------------------------------------
(***************************************************************************)
(* What the steps of a request with its flags do, as far as the outcome    *)
(* goes.                                                                   *)
(***************************************************************************)
Last(r) == \A i \in DOMAIN pkgs[r] : i <= idx[r]
FilesSame == UNCHANGED <<compose, hadCompose>>

StepWrites(r) ==
  /\ \/ pc[r] = "prepare" /\ idx'[r] = idx[r]
     \/ pc[r] = "validate" /\ idx'[r] = idx[r] + 1
  /\ pc'[r] = "validate"
  /\ idx'[r] \in DOMAIN pkgs[r]
  /\ \A k \in DOMAIN pkgs[r] : k = idx'[r] => WriteCompose(r, pkgs[r][k])
  /\ container' = container
StepChecked(r) ==
  /\ pc[r] = "validate" /\ Last(r) /\ pc'[r] = "create" /\ idx'[r] = 1
  /\ FilesSame /\ container' = container
StepCreates(r) ==
  /\ pc[r] = "create" /\ pc'[r] = "start" /\ idx'[r] = idx[r] /\ FilesSame
  /\ \E c : /\ container' = [container EXCEPT ![Cur(r)] = c]
            /\ c # None /\ c.from = compose[Cur(r)]
StepLocks(r) ==
  /\ \/ pc[r] = "start" /\ pc'[r] = "starting"
     \/ pc[r] = "undo" /\ pc'[r] = "undoing"
  /\ idx'[r] = idx[r] /\ FilesSame /\ container' = container
  /\ upLock'[Cur(r)].from = compose[Cur(r)]
StepStarts(r) ==
  /\ pc[r] = "starting" /\ pc'[r] = "expose" /\ idx'[r] = idx[r] /\ FilesSame
  /\ \E c : /\ container' = [container EXCEPT ![Cur(r)] = c]
            /\ c # None /\ c.from = compose[Cur(r)]
StepExposes(r) ==
  /\ pc[r] = "expose" /\ FilesSame /\ container' = container
  /\ \/ pc'[r] = "create" /\ idx'[r] = idx[r] + 1
     \/ pc'[r] = "clean" /\ Last(r)
StepRollsBack(r) ==
  /\ pc[r] \in Running /\ pc'[r] = "undo" /\ idx'[r] = 1
  /\ hadCompose' = hadCompose
  /\ \A d \in Dnp : d # Cur(r) => container'[d] = container[d]
StepUndoes(r) ==
  /\ FilesSame
  /\ \/ pc'[r] = "undo" /\ idx'[r] = idx[r] + 1
     \/ pc'[r] = "rolledBack" /\ Last(r)
  /\ \/ /\ pc[r] = "undoing"
        /\ \E c : /\ container' = [container EXCEPT ![Cur(r)] = c]
                  /\ c # None /\ c.from = compose[Cur(r)]
     \/ /\ pc[r] = "undo"
        /\ Cur(r) \notin isUpdate[r]
        /\ container' = [container EXCEPT ![Cur(r)] = None]
StepEnds(r) ==
  /\ \/ pc[r] = "prepare" /\ pc'[r] = "aborted"
     \/ pc[r] = "clean" /\ pc'[r] \in {"clean", "done", "unclean"}
  /\ FilesSame /\ container' = container

\* The files and the lock, and what docker makes of them
LEMMA WriteSteps ==
  ASSUME Undisturbed, IndType, NEW r \in Req, RequestOK(r), pc[r] \in Flagged,
         Prepare(r) \/ PrepareFails(r) \/ Validate(r) \/ ValidateFails(r)
           \/ Clean(r) \/ CleanFails(r)
  PROVE  StepWrites(r) \/ StepChecked(r) \/ StepEnds(r)
<1> USE DEF Goto, FilesSame
<1>0. /\ pkgs[r] \in Plan /\ idx[r] \in DOMAIN pkgs[r] /\ idx[r] \in Nat \ {0}
      /\ pc \in [Req -> Phase] /\ idx \in [Req -> Nat \ {0}]
  BY CurFacts DEF IndType, TypeOK
<1>1. CASE Prepare(r)
  BY <1>0, <1>1 DEF Prepare, StepWrites, Cur
<1>2. CASE PrepareFails(r)
  BY <1>0, <1>2 DEF PrepareFails, AfterInstall, StepEnds, diskVars
<1>3. CASE Validate(r) /\ More(r)
  BY <1>0, <1>3 DEF Validate, Loop, More, StepWrites
<1>4. CASE Validate(r) /\ ~More(r)
  <2>1. Last(r)
    BY <1>0, <1>4, PlanEnd DEF More, Last
  <2> QED
    BY <1>0, <1>4, <2>1 DEF Validate, Loop, StepChecked
<1>5. ~ValidateFails(r)
  BY <1>0 DEF ValidateFails, Undisturbed, RequestOK, FilesPut, FilePut, Cur
<1>6. CASE Clean(r) \/ CleanFails(r)
  BY <1>0, <1>6 DEF Clean, CleanFails, AfterInstall, StepEnds
<1> QED
  BY <1>1, <1>2, <1>3, <1>4, <1>5, <1>6

LEMMA RunSteps ==
  ASSUME Undisturbed, IndType, NEW r \in Req, RequestOK(r), pc[r] \in Flagged,
         Create(r) \/ CreateFails(r) \/ StartLock(r) \/ StartThrows(r)
           \/ Start(r) \/ StartFails(r) \/ Expose(r) \/ ExposeFails(r)
  PROVE  StepCreates(r) \/ StepLocks(r) \/ StepStarts(r) \/ StepExposes(r)
           \/ StepRollsBack(r)
<1> USE DEF Goto, FilesSame
<1>0. /\ pkgs[r] \in Plan /\ idx[r] \in DOMAIN pkgs[r] /\ idx[r] \in Nat \ {0}
      /\ pc \in [Req -> Phase] /\ idx \in [Req -> Nat \ {0}]
      /\ Cur(r) \in Dnp
      /\ container[Cur(r)] \in Container \cup {None}
      /\ compose[Cur(r)] # None => compose[Cur(r)] \in Content
      /\ container \in [Dnp -> Container \cup {None}]
      /\ upLock \in [Dnp -> Holder \cup {None}]
  BY CurFacts DEF IndType, TypeOK
<1>1. CASE Create(r)
  <2>1. compose[Cur(r)] \in Content
    BY <1>0, <1>1 DEF Create
  <2>2. /\ Upped(compose[Cur(r)], container[Cur(r)], Cur(r) \in PidDnp) # None
        /\ Upped(compose[Cur(r)], container[Cur(r)], Cur(r) \in PidDnp).from
             = compose[Cur(r)]
    <3>1. (Cur(r) \in PidDnp) \in BOOLEAN
      OBVIOUS
    <3> QED
      BY <1>0, <2>1, <3>1, UppedFrom, Zenon
  <2>3. container' = [container EXCEPT ![Cur(r)] =
                        Upped(compose[Cur(r)], container[Cur(r)], Cur(r) \in PidDnp)]
    BY <1>1 DEF Create
  <2>4. \E c : /\ container' = [container EXCEPT ![Cur(r)] = c]
               /\ c # None /\ c.from = compose[Cur(r)]
    BY <2>2, <2>3, Zenon
  <2> QED
    BY <1>0, <1>1, <2>4 DEF Create, diskVars, StepCreates
<1>2. CASE StartLock(r)
  <2>1. upLock'[Cur(r)].from = compose[Cur(r)]
    BY <1>0, <1>2 DEF StartLock, Lock
  <2> QED
    BY <1>0, <1>2, <2>1 DEF StartLock, diskVars, StepLocks
<1>3. CASE Start(r)
  <2>1. /\ upLock[Cur(r)] \in Holder /\ upLock[Cur(r)].from = compose[Cur(r)]
    BY <1>0, <1>3 DEF Start, IndType, HolderOK, RequestOK, LockedFile
  <2>2. compose[Cur(r)] \in Content /\ upLock[Cur(r)].start \in BOOLEAN
    BY <2>1 DEF Holder
  <2>3. container' = [container EXCEPT ![Cur(r)] =
                        Upped(compose[Cur(r)], container[Cur(r)], upLock[Cur(r)].start)]
    BY <1>3, <2>1 DEF Start
  <2>4. \E c : /\ container' = [container EXCEPT ![Cur(r)] = c]
               /\ c # None /\ c.from = compose[Cur(r)]
    <3>1. /\ Upped(compose[Cur(r)], container[Cur(r)], upLock[Cur(r)].start) # None
          /\ Upped(compose[Cur(r)], container[Cur(r)], upLock[Cur(r)].start).from
               = compose[Cur(r)]
      BY <1>0, <2>2, UppedFrom, Zenon
    <3> QED
      BY <2>3, <3>1, Zenon
  <2> QED
    BY <1>0, <1>3, <2>4 DEF Start, diskVars, StepStarts
<1>4. CASE Expose(r)
  <2>1. ~More(r) => Last(r)
    BY <1>0, PlanEnd DEF More, Last
  <2> QED
    BY <1>0, <1>4, <2>1 DEF Expose, Loop, diskVars, StepExposes
<1>5. CASE CreateFails(r) \/ StartThrows(r) \/ StartFails(r) \/ ExposeFails(r)
  <2>1. \A d \in Dnp : d # Cur(r) => container'[d] = container[d]
    BY <1>0, <1>5 DEF CreateFails, StartThrows, StartFails, ExposeFails
  <2> QED
    BY <1>0, <1>5, <2>1 DEF CreateFails, StartThrows, StartFails, ExposeFails,
       RollbackFiles, StepRollsBack, Running
<1> QED
  BY <1>1, <1>2, <1>3, <1>4, <1>5

LEMMA UndoSteps ==
  ASSUME Undisturbed, IndType, FlagInv, LockNotLeaked, NEW r \in Req, RequestOK(r),
         pc[r] \in Flagged,
         UndoLock(r) \/ UndoThrows(r) \/ Undo(r) \/ UndoRemove(r)
  PROVE  StepLocks(r) \/ StepUndoes(r)
<1> USE DEF Goto, FilesSame
<1>0. /\ pkgs[r] \in Plan /\ idx[r] \in DOMAIN pkgs[r] /\ idx[r] \in Nat \ {0}
      /\ pc \in [Req -> Phase] /\ idx \in [Req -> Nat \ {0}]
      /\ Cur(r) \in Dnp
      /\ container[Cur(r)] \in Container \cup {None}
      /\ compose[Cur(r)] # None => compose[Cur(r)] \in Content
      /\ container \in [Dnp -> Container \cup {None}]
      /\ upLock \in [Dnp -> Holder \cup {None}]
  BY CurFacts DEF IndType, TypeOK
<1>1. CASE UndoLock(r)
  <2>1. upLock'[Cur(r)].from = compose[Cur(r)]
    BY <1>0, <1>1 DEF UndoLock, Lock
  <2> QED
    BY <1>0, <1>1, <2>1 DEF UndoLock, diskVars, StepLocks
<1>2. ~UndoThrows(r)
  BY UndoFree DEF UndoThrows
<1>a. ASSUME UndoNext(r)
      PROVE  \/ pc'[r] = "undo" /\ idx'[r] = idx[r] + 1
             \/ pc'[r] = "rolledBack" /\ Last(r)
  <2>1. ~More(r) => Last(r)
    BY <1>0, PlanEnd DEF More, Last
  <2> QED
    BY <1>0, <1>a, <2>1 DEF UndoNext, AfterInstall
<1>3. CASE Undo(r)
  <2>1. /\ upLock[Cur(r)] \in Holder /\ upLock[Cur(r)].from = compose[Cur(r)]
    BY <1>0, <1>3 DEF Undo, IndType, HolderOK, RequestOK, LockedFile
  <2>2. compose[Cur(r)] \in Content /\ upLock[Cur(r)].start \in BOOLEAN
    BY <2>1 DEF Holder
  <2>3. container' = [container EXCEPT ![Cur(r)] =
                        Upped(compose[Cur(r)], container[Cur(r)], upLock[Cur(r)].start)]
    BY <1>3, <2>1 DEF Undo, Undisturbed
  <2>4. \E c : /\ container' = [container EXCEPT ![Cur(r)] = c]
               /\ c # None /\ c.from = compose[Cur(r)]
    <3>1. /\ Upped(compose[Cur(r)], container[Cur(r)], upLock[Cur(r)].start) # None
          /\ Upped(compose[Cur(r)], container[Cur(r)], upLock[Cur(r)].start).from
               = compose[Cur(r)]
      BY <1>0, <2>2, UppedFrom, Zenon
    <3> QED
      BY <2>3, <3>1, Zenon
  <2> QED
    BY <1>3, <1>a, <2>4 DEF Undo, diskVars, StepUndoes
<1>4. CASE UndoRemove(r)
  <2>1. compose[Cur(r)] # None
    BY <1>0, <1>4 DEF UndoRemove, RequestOK, FilesPut, FilePut, Cur
  <2>2. container' = [container EXCEPT ![Cur(r)] = None]
    BY <1>4, <2>1 DEF UndoRemove, Undisturbed
  <2> QED
    BY <1>4, <1>a, <2>2 DEF UndoRemove, diskVars, StepUndoes
<1> QED
  BY <1>1, <1>2, <1>3, <1>4

LEMMA FlaggedSteps ==
  ASSUME Undisturbed, IndType, FlagInv, LockNotLeaked, NEW r \in Req, RequestOK(r),
         pc[r] \in Flagged, Install(r)
  PROVE  \/ StepWrites(r) \/ StepChecked(r) \/ StepCreates(r) \/ StepLocks(r)
         \/ StepStarts(r) \/ StepExposes(r) \/ StepRollsBack(r) \/ StepUndoes(r)
         \/ StepEnds(r)
<1>1. ~(Resolve(r) \/ DevCheck(r) \/ DevList(r) \/ Refuse(r) \/ Gather(r)
          \/ Flag(r) \/ Reject(r))
  BY DEF Resolve, DevCheck, DevList, Refuse, Gather, Flag, Reject, Gathered, Flagged
<1> QED
  BY <1>1, WriteSteps, RunSteps, UndoSteps DEF Install

-----------------------------------------------------------------------------
(***************************************************************************)
(* What is known of a request with its flags survives its own steps, what  *)
(* is known of the others survives too: they have other packages.          *)
(***************************************************************************)
LEMMA OwnRequest ==
  ASSUME Undisturbed, IndType, FlagInv, LockNotLeaked, NEW r \in Req, RequestOK(r),
         pc[r] \in Flagged, Install(r)
  PROVE  RequestOK(r)'
<1>0. /\ pkgs[r] \in Plan /\ idx[r] \in DOMAIN pkgs[r] /\ idx[r] \in Nat \ {0}
      /\ DOMAIN pkgs[r] \subseteq Nat \ {0}
      /\ \A i \in DOMAIN pkgs[r] : pkgs[r][i] \in Dnp
      /\ UNCHANGED <<pkgs, isUpdate>>
      /\ isUpdate[r] \subseteq Dnp
  BY CurFacts, PlanFacts, FlaggedReads DEF IndType, TypeOK
<1>1. ListedFile(r)'
  BY <1>0, FilesStay DEF RequestOK, ListedFile
<1>2. \A i \in DOMAIN pkgs[r] : compose[pkgs[r][i]] # None => compose'[pkgs[r][i]] # None
  BY <1>0, FilesStay
<1> USE DEF RequestOK, FilesPut, LockedFile, UpdateKept, FilePut, Running, Flagged
<1>3. CASE StepWrites(r)
  <2>1. PICK k \in DOMAIN pkgs[r] : k = idx'[r]
    BY <1>3 DEF StepWrites
  <2>2. /\ compose'[pkgs[r][k]] # None
        /\ hadCompose'[r] = IF compose[pkgs[r][k]] = None THEN hadCompose[r]
                            ELSE hadCompose[r] \cup {pkgs[r][k]}
    BY <1>0, <1>3, <2>1, WriteComposeFiles DEF StepWrites
  <2>3. pc'[r] = "validate"
    BY <1>3 DEF StepWrites
  <2>4. ASSUME NEW i \in DOMAIN pkgs[r], i <= k
        PROVE  i = k \/ (pc[r] = "validate" /\ i <= idx[r])
    BY <1>0, <1>3, <2>1, <2>4 DEF StepWrites
  <2>5. \A i \in DOMAIN pkgs[r] : i <= k => compose'[pkgs[r][i]] # None
    BY <1>2, <2>2, <2>4
  <2>6. ASSUME NEW i \in DOMAIN pkgs[r], i <= k, pkgs[r][i] \in isUpdate[r]
        PROVE  pkgs[r][i] \in hadCompose'[r]
    <3>1. CASE i = k
      BY <2>2, <2>6, <3>1 DEF ListedFile
    <3>2. CASE pc[r] = "validate" /\ i <= idx[r]
      BY <2>2, <2>6, <3>2
    <3> QED
      BY <2>4, <2>6, <3>1, <3>2
  <2>7. FilesPut(r)'
    BY <1>0, <2>1, <2>3, <2>5
  <2>8. UpdateKept(r)'
    BY <1>0, <2>1, <2>3, <2>6
  <2> QED
    BY <1>1, <2>3, <2>7, <2>8
<1>4. CASE StepChecked(r)
  BY <1>0, <1>1, <1>4 DEF StepChecked, FilesSame, Last
<1>5. CASE StepCreates(r) \/ StepStarts(r) \/ StepExposes(r)
  BY <1>0, <1>1, <1>5 DEF StepCreates, StepStarts, StepExposes, FilesSame
<1>6. CASE StepLocks(r)
  <2>1. FilesPut(r)' /\ UpdateKept(r)'
    BY <1>0, <1>6 DEF StepLocks, FilesSame
  <2>2. LockedFile(r)'
    BY <1>0, <1>6 DEF StepLocks, FilesSame, Cur
  <2> QED
    BY <1>1, <2>1, <2>2
<1>7. CASE StepRollsBack(r)
  BY <1>0, <1>1, <1>2, <1>7 DEF StepRollsBack
<1>8. CASE StepUndoes(r)
  BY <1>0, <1>1, <1>8 DEF StepUndoes, FilesSame
<1>9. CASE StepEnds(r)
  BY <1>0, <1>1, <1>9 DEF StepEnds, FilesSame
<1> QED
  BY <1>3, <1>4, <1>5, <1>6, <1>7, <1>8, <1>9, FlaggedSteps

LEMMA OwnPackages ==
  ASSUME Undisturbed, IndType, FlagInv, LockNotLeaked, NEW r \in Req, RequestOK(r),
         pc[r] \in Flagged, Install(r), NEW i \in DOMAIN pkgs[r],
         Matches(pkgs[r][i]) \/ Behind(r, i), HasFile(pkgs[r][i])
  PROVE  /\ Matches(pkgs[r][i])' \/ Behind(r, i)'
         /\ HasFile(pkgs[r][i])'
<1>0. /\ pkgs[r] \in Plan /\ idx[r] \in DOMAIN pkgs[r] /\ idx[r] \in Nat \ {0}
      /\ i \in Nat \ {0}
      /\ pkgs[r][i] \in Dnp /\ Cur(r) \in Dnp /\ Cur(r) = pkgs[r][idx[r]]
      /\ pkgs[r][i] = Cur(r) => i = idx[r]
      /\ pkgs' = pkgs
  BY CurFacts, PlanFacts, FlaggedReads DEF Cur
<1>c. ASSUME NEW w \in Dnp, WriteCompose(r, w)
      PROVE  compose'[w] # None /\ \A e \in Dnp \ {w} : compose'[e] = compose[e]
  BY <1>c, WriteComposeFiles
<1>1. PICK d \in Dnp : d = pkgs[r][i]
  BY <1>0
<1>2. compose[d] # None => compose'[d] # None
  BY FilesStay
<1>3. Matches(d) \/ Behind(r, i)
  BY <1>1
<1>4. FilePut(r, i) => compose[d] # None
  BY <1>1 DEF RequestOK, FilesPut
<1>a. container \in [Dnp -> Container \cup {None}]
  BY DEF IndType, TypeOK
<1> SUFFICES /\ Matches(d)' \/ Behind(r, i)'
             /\ HasFile(d)'
  BY <1>0, <1>1 DEF Matches, HasFile
<1> USE DEF Behind, Matches, HasFile
<1>5. CASE StepWrites(r)
  <2>1. PICK k \in DOMAIN pkgs[r] : k = idx'[r]
    BY <1>5 DEF StepWrites
  <2>2. PICK w \in Dnp : w = pkgs[r][k] /\ WriteCompose(r, w)
    BY <1>0, <1>5, <2>1, PlanFacts DEF StepWrites
  <2>a. compose'[w] # None /\ \A e \in Dnp \ {w} : compose'[e] = compose[e]
    BY <1>c, <2>2
  <2>b. k \in Nat
    BY <1>0, <2>1, PlanFacts
  <2>3. CASE i = k
    <3>1. compose'[d] # None
      BY <1>1, <2>2, <2>3, <2>a
    <3>2. Behind(r, i)'
      BY <1>5, <2>1, <2>3, <2>b DEF StepWrites
    <3> QED
      BY <3>1, <3>2
  <2>4. CASE i # k
    <3>1. w # d
      BY <1>0, <1>1, <2>2, <2>4, PlanFacts
    <3>2. compose'[d] = compose[d]
      BY <2>a, <3>1
    <3>3. container' = container
      BY <1>5 DEF StepWrites
    <3>4. Behind(r, i) => Behind(r, i)'
      BY <1>0, <1>5 DEF StepWrites
    <3>5. HasFile(d)
      BY <1>1
    <3> QED
      BY <1>3, <3>2, <3>3, <3>4, <3>5
  <2> QED
    BY <2>3, <2>4
<1>6. ASSUME FilesSame, container'[d] = container[d], Behind(r, i) => Behind(r, i)'
      PROVE  /\ Matches(d)' \/ Behind(r, i)'
             /\ HasFile(d)'
  BY <1>1, <1>3, <1>6 DEF FilesSame
<1>7. ASSUME FilesSame, NEW c, container' = [container EXCEPT ![Cur(r)] = c],
             c # None => c.from = compose[Cur(r)] /\ compose[Cur(r)] # None,
             i # idx[r] /\ Behind(r, i) => Behind(r, i)'
      PROVE  /\ Matches(d)' \/ Behind(r, i)'
             /\ HasFile(d)'
  <2>1. CASE i = idx[r]
    BY <1>0, <1>1, <1>7, <1>a, <2>1 DEF FilesSame
  <2>2. CASE i # idx[r]
    <3>1. container'[d] = container[d]
      BY <1>0, <1>1, <1>7, <1>a, <2>2
    <3> QED
      BY <1>6, <1>7, <2>2, <3>1
  <2> QED
    BY <2>1, <2>2
<1>b. pc[r] \in Running \cup {"undo", "undoing"} => compose[Cur(r)] # None
  BY <1>0 DEF RequestOK, FilesPut, FilePut
<1>8. CASE StepChecked(r)
  BY <1>0, <1>6, <1>8 DEF StepChecked
<1>9. CASE StepCreates(r)
  <2>1. i # idx[r] /\ Behind(r, i) => Behind(r, i)'
    BY <1>0, <1>9 DEF StepCreates
  <2> QED
    BY <1>7, <1>9, <1>b, <2>1 DEF StepCreates, Running
<1>10. CASE StepLocks(r)
  BY <1>6, <1>10 DEF StepLocks
<1>11. CASE StepStarts(r)
  <2>1. i # idx[r] /\ Behind(r, i) => Behind(r, i)'
    BY <1>0, <1>11 DEF StepStarts
  <2> QED
    BY <1>7, <1>11, <1>b, <2>1 DEF StepStarts, Running
<1>12. CASE StepExposes(r)
  <2>1. Behind(r, i) => Behind(r, i)'
    BY <1>0, <1>12 DEF StepExposes, Last
  <2> QED
    BY <1>6, <1>12, <2>1 DEF StepExposes
<1>13. CASE StepRollsBack(r)
  <2>1. Behind(r, i)'
    BY <1>0, <1>13 DEF StepRollsBack
  <2>2. compose'[d] # None
    BY <1>2, <1>4, <1>13 DEF StepRollsBack, FilePut
  <2> QED
    BY <2>1, <2>2
<1>14. CASE StepUndoes(r)
  <2>1. i # idx[r] /\ Behind(r, i) => Behind(r, i)'
    BY <1>0, <1>14 DEF StepUndoes, Last
  <2> QED
    BY <1>7, <1>14, <1>b, <2>1 DEF StepUndoes
<1>15. CASE StepEnds(r)
  BY <1>6, <1>15 DEF StepEnds
<1> QED
  BY <1>5, <1>8, <1>9, <1>10, <1>11, <1>12, <1>13, <1>14, <1>15, FlaggedSteps

\* Before its flags a request reads, and only its list of updates matters here.
LEMMA UnflaggedSteps ==
  ASSUME IndType, NEW r \in Req, Install(r), pc[r] \notin Flagged
  PROVE  /\ pc[r] \in {"idle", "list", "gather", "ask"}
         /\ pc'[r] \in {"rejected", "list", "gather", "ask", "prepare"}
         /\ idx[r] = 1
         /\ UNCHANGED <<idx, compose, hadCompose, container, upLock>>
         /\ \/ isUpdate'[r] = isUpdate[r]
            \/ \A d \in isUpdate'[r] : container[d] # None
<1>1. Resolve(r) \/ DevCheck(r) \/ DevList(r) \/ Refuse(r) \/ Gather(r)
        \/ Flag(r) \/ Reject(r)
  BY DEF Install, Prepare, PrepareFails, Validate, ValidateFails, Create,
     CreateFails, StartLock, StartThrows, Start, StartFails, Expose, ExposeFails,
     UndoLock, UndoThrows, Undo, UndoRemove, Clean, CleanFails, Flagged
<1> USE DEF Goto, procVars, diskVars, planVars, IndType, TypeOK
<1>2. pc[r] \in {"idle", "list", "gather", "ask"}
  BY <1>1 DEF Resolve, DevCheck, DevList, Refuse, Gather, Flag, Reject, Gathered
<1>3. idx[r] = 1
  BY <1>2 DEF IdxOK
<1>4. /\ pc'[r] \in {"rejected", "list", "gather", "ask", "prepare"}
      /\ UNCHANGED <<idx, compose, hadCompose, container, upLock>>
  BY <1>1 DEF Resolve, DevCheck, DevList, Refuse, Gather, Flag, Reject
<1>5. \/ isUpdate'[r] = isUpdate[r]
      \/ \A d \in isUpdate'[r] : container[d] # None
  BY <1>1 DEF Resolve, DevCheck, DevList, Refuse, Gather, Flag, Reject
<1> QED
  BY <1>2, <1>3, <1>4, <1>5

LEMMA OtherPackage ==
  ASSUME Undisturbed, IndType, FlagInv, LockNotLeaked, NEW r \in Req, RequestOK(r),
         Install(r), NEW d \in Dnp, pc[r] \in Flagged => d \notin Range(pkgs[r])
  PROVE  container'[d] = container[d] /\ compose'[d] = compose[d]
<1>1. CASE pc[r] \notin Flagged
  BY <1>1, UnflaggedSteps
<1>2. CASE pc[r] \in Flagged
  <2>1. Cur(r) \in Dnp /\ d # Cur(r)
    BY <1>2, CurFacts, PlanFacts DEF Cur
  <2>2. compose'[d] = compose[d]
    BY <1>2, OtherFiles
  <2>3. container \in [Dnp -> Container \cup {None}]
    BY DEF IndType, TypeOK
  <2>4. container'[d] = container[d]
    BY <1>2, <2>1, <2>3, FlaggedSteps DEF StepWrites, StepChecked, StepCreates, StepLocks,
       StepStarts, StepExposes, StepRollsBack, StepUndoes, StepEnds
  <2> QED
    BY <2>2, <2>4
<1> QED
  BY <1>1, <1>2

LEMMA OtherRequest ==
  ASSUME Undisturbed, IndType, FlagInv, NEW r \in Req, Install(r),
         NEW q \in Req \ {r}, RequestOK(q)
  PROVE  RequestOK(q)'
<1>1. /\ pc'[q] = pc[q] /\ idx'[q] = idx[q] /\ pkgs'[q] = pkgs[q]
      /\ isUpdate'[q] = isUpdate[q] /\ isUpdate[q] \subseteq Dnp
  BY InstallFrame, OtherReads DEF IndType, TypeOK
<1>2. pc[q] # "idle" => \A i \in DOMAIN pkgs[q] : pkgs[q][i] \in Dnp
  BY PlanFacts DEF IndType, PlanOK
<1>3. ListedFile(q)'
  BY <1>1, FilesStay DEF RequestOK, ListedFile
<1>4. FilesPut(q)'
  BY <1>1, <1>2, FilesStay DEF RequestOK, FilesPut, FilePut, Running
<1>5. UpdateKept(q)'
  <2> SUFFICES ASSUME NEW i \in DOMAIN pkgs[q], pkgs[q][i] \in isUpdate[q],
                      FilePut(q, i) \/ pc[q] = "rolledBack"
               PROVE  pkgs[q][i] \in hadCompose'[q]
    BY <1>1 DEF UpdateKept, FilePut
  <2>1. pkgs[q][i] \in Dnp
    BY <1>1
  <2>2. hadCompose'[q] = hadCompose[q]
    BY <2>1, OtherFiles
  <2> QED
    BY <2>2 DEF RequestOK, UpdateKept
<1>6. LockedFile(q)'
  <2> SUFFICES ASSUME pc[q] \in {"starting", "undoing"}
               PROVE  upLock'[Cur(q)].from = compose'[Cur(q)]
    BY <1>1 DEF LockedFile, Cur
  <2>1. Cur(q) \in Dnp /\ Cur(q) \in Range(pkgs[q]) /\ pc[q] \in Flagged
    BY CurFacts, PlanFacts DEF Cur, Flagged
  <2>2. pc[r] \in Flagged => Cur(q) \notin Range(pkgs[r])
    BY <2>1 DEF FlagInv, NoDoubleInstall
  <2>3. compose'[Cur(q)] = compose[Cur(q)]
    BY <2>1, <2>2, OtherFiles
  <2>4. upLock'[Cur(q)] = upLock[Cur(q)]
    <3>1. CASE upLock' = upLock
      BY <3>1
    <3>2. CASE /\ pc[r] \in Flagged
               /\ \E h : upLock' = [upLock EXCEPT ![Cur(r)] = h]
      <4>1. Cur(r) # Cur(q)
        BY <2>1, <2>2, <3>2, CurFacts, PlanFacts DEF Cur
      <4> QED
        BY <2>1, <3>2, <4>1 DEF IndType, TypeOK
    <3>3. pc'[r] \in {"starting", "undoing"} => pc[r] \in Flagged
      BY FlagCases DEF Flag, Goto, IndType, TypeOK, Flagged
    <3>4. pc[r] \in {"starting", "undoing"} => pc[r] \in Flagged
      BY DEF Flagged
    <3> QED
      BY <3>1, <3>2, <3>3, <3>4, LockCases
  <2> QED
    BY <2>3, <2>4 DEF RequestOK, LockedFile
<1> QED
  BY <1>3, <1>4, <1>5, <1>6 DEF RequestOK

LEMMA InstallKeepsRequests ==
  ASSUME Undisturbed, IndType, FlagInv, LockNotLeaked, OutcomeInv, NEW r \in Req,
         Install(r)
  PROVE  \A q \in Req : RequestOK(q)'
<1>0. \A q \in Req : RequestOK(q)
  BY DEF OutcomeInv
<1>1. CASE pc[r] \in Flagged
  BY <1>0, <1>1, OwnRequest, OtherRequest
<1>2. CASE pc[r] \notin Flagged
  <2>1. FilesPut(r)' /\ LockedFile(r)' /\ UpdateKept(r)'
    BY <1>2, UnflaggedSteps DEF FilesPut, LockedFile, UpdateKept, FilePut, Running
  <2>2. ListedFile(r)'
    <3>1. /\ \A d \in isUpdate[r] : compose[d] # None
          /\ \A d \in Dnp : container[d] # None => compose[d] # None
      BY <1>0 DEF RequestOK, ListedFile, OutcomeInv, PackageOK, HasFile
    <3>2. isUpdate'[r] \subseteq Dnp
      BY TypeStep DEF Next, IndType, TypeOK
    <3> QED
      BY <1>2, <3>1, <3>2, UnflaggedSteps DEF ListedFile
  <2> QED
    BY <1>0, <2>1, <2>2, OtherRequest DEF RequestOK
<1> QED
  BY <1>1, <1>2

LEMMA InstallKeepsPackages ==
  ASSUME Undisturbed, IndType, FlagInv, LockNotLeaked, OutcomeInv, NEW r \in Req,
         Install(r), NEW d \in Dnp
  PROVE  Settled(d)' /\ HasFile(d)'
<1>0. RequestOK(r) /\ Settled(d) /\ HasFile(d)
  BY DEF OutcomeInv, PackageOK
<1>1. \A q \in Req \ {r} : pc'[q] = pc[q] /\ idx'[q] = idx[q] /\ pkgs'[q] = pkgs[q]
  BY InstallFrame
<1>2. CASE pc[r] \in Flagged /\ d \in Range(pkgs[r])
  <2>1. pkgs' = pkgs /\ pkgs[r] \in Plan
    BY <1>2, FlaggedReads, CurFacts
  <2>2. PICK i \in DOMAIN pkgs[r] : d = pkgs[r][i]
    BY <1>2, <2>1, PlanFacts
  <2>3. Matches(d) \/ Behind(r, i)
    <3> SUFFICES ASSUME NEW q \in Req, NEW j \in DOMAIN pkgs[q],
                        pkgs[q][j] = d, Behind(q, j)
                 PROVE  Behind(r, i)
      BY <1>0 DEF Settled
    <3>1. pc[q] \in Flagged
      BY DEF Behind, Flagged
    <3>2. d \in Range(pkgs[q])
      BY <3>1, CurFacts, PlanFacts
    <3>3. q = r
      BY <1>2, <3>1, <3>2 DEF FlagInv, NoDoubleInstall
    <3> QED
      BY <2>1, <2>2, <3>3, PlanFacts
  <2>4. (Matches(pkgs[r][i]) \/ Behind(r, i)) /\ HasFile(pkgs[r][i])
    BY <1>0, <2>2, <2>3
  <2>5. (Matches(pkgs[r][i])' \/ Behind(r, i)') /\ HasFile(pkgs[r][i])'
    BY <1>0, <1>2, <2>4, OwnPackages
  <2> QED
    BY <2>1, <2>2, <2>5 DEF Settled, Matches, HasFile
<1>3. CASE pc[r] \in Flagged => d \notin Range(pkgs[r])
  <2>1. container'[d] = container[d] /\ compose'[d] = compose[d]
    BY <1>0, <1>3, OtherPackage
  <2>2. ASSUME NEW q \in Req, NEW j \in DOMAIN pkgs[q], pkgs[q][j] = d, Behind(q, j)
        PROVE  Settled(d)'
    <3>1. pc[q] \in Flagged
      BY <2>2 DEF Behind, Flagged
    <3>2. d \in Range(pkgs[q])
      BY <2>2, <3>1, CurFacts, PlanFacts
    <3>3. q # r
      BY <1>3, <3>1, <3>2
    <3> QED
      BY <1>1, <2>2, <3>3 DEF Settled, Behind
  <2>3. Matches(d) => Settled(d)'
    BY <2>1 DEF Settled, Matches
  <2> QED
    BY <1>0, <2>1, <2>2, <2>3 DEF Settled, HasFile
<1> QED
  BY <1>2, <1>3

\* Containers go in a rollback, which brings them up again when it comes to
\* them unless they were new to the request.
LEMMA InstallKeepsUndone ==
  ASSUME Undisturbed, IndType, FlagInv, LockNotLeaked, OutcomeInv, NEW r \in Req,
         Install(r), NEW d \in Dnp
  PROVE  GoneUndone(d)'
<1>0. RequestOK(r) /\ GoneUndone(d)
  BY DEF OutcomeInv, PackageOK
<1>1. \A q \in Req \ {r} : /\ pc'[q] = pc[q] /\ idx'[q] = idx[q] /\ pkgs'[q] = pkgs[q]
                           /\ isUpdate'[q] = isUpdate[q]
  BY InstallFrame, OtherReads
<1>2. ASSUME NEW q \in Req \ {r}, Undone(q, d)
      PROVE  Undone(q, d)'
  BY <1>1, <1>2 DEF Undone
<1>3. CASE pc[r] \notin Flagged
  <2>1. ~Undone(r, d)
    BY <1>3, UnflaggedSteps DEF Undone, Flagged
  <2>2. container'[d] = None => \A q \in Req : d \in isUpdate'[q] => d \in isUpdate[q]
    BY <1>1, <1>3, UnflaggedSteps
  <2>3. container' = container
    BY <1>3, UnflaggedSteps
  <2>4. ASSUME container'[d] = None, NEW q \in Req, d \in isUpdate'[q]
        PROVE  \E u \in Req : Undone(u, d)'
    BY <1>0, <1>2, <2>1, <2>2, <2>3, <2>4 DEF GoneUndone
  <2> QED
    BY <2>4 DEF GoneUndone
<1>4. CASE pc[r] \in Flagged
  <2>1. /\ pkgs[r] \in Plan /\ idx[r] \in DOMAIN pkgs[r] /\ idx[r] \in Nat \ {0}
        /\ DOMAIN pkgs[r] \subseteq Nat \ {0}
        /\ UNCHANGED <<pkgs, isUpdate>>
        /\ Cur(r) \in Dnp /\ Cur(r) = pkgs[r][idx[r]]
        /\ container \in [Dnp -> Container \cup {None}]
    BY <1>4, CurFacts, PlanFacts, FlaggedReads DEF Cur, IndType, TypeOK
  <2> SUFFICES ASSUME container'[d] = None, NEW u \in Req, d \in isUpdate[u]
               PROVE  \E q \in Req : Undone(q, d)'
    BY <2>1 DEF GoneUndone
  <2>a. CASE pc[r] = "starting" /\ Cur(r) = d
    <3>1. StepStarts(r) \/ StepRollsBack(r)
      BY <1>0, <1>4, <2>a, FlaggedSteps DEF StepWrites, StepChecked, StepCreates,
         StepLocks, StepExposes, StepUndoes, StepEnds
    <3>2. ~StepStarts(r)
      BY <2>1, <2>a DEF StepStarts
    <3>3. pc'[r] = "undo" /\ idx'[r] = 1
      BY <3>1, <3>2 DEF StepRollsBack
    <3>4. pkgs'[r] = pkgs[r] /\ pkgs[r][idx[r]] = d /\ idx[r] >= 1
      BY <2>1, <2>a
    <3>5. Undone(r, d)'
      BY <2>1, <3>3, <3>4 DEF Undone
    <3> QED
      BY <3>5
  <2>2. ASSUME Undone(r, d), ~(pc[r] = "starting" /\ Cur(r) = d)
        PROVE  Undone(r, d)'
    <3>1. PICK i \in DOMAIN pkgs[r] :
            /\ pkgs[r][i] = d
            /\ \/ pc[r] \in {"undo", "undoing"} /\ i >= idx[r]
               \/ pc[r] \in {"undo", "undoing", "rolledBack"} /\ d \notin isUpdate[r]
      BY <2>1, <2>2 DEF Undone
    <3>2. pc[r] \in {"undo", "undoing"} /\ i \in Nat
      BY <1>4, <2>1, <3>1 DEF Flagged
    <3>3. StepLocks(r) \/ StepUndoes(r)
      BY <1>0, <1>4, <3>2, FlaggedSteps DEF StepWrites, StepChecked, StepCreates,
         StepStarts, StepExposes, StepRollsBack, StepEnds, Running
    <3>4. CASE StepLocks(r)
      BY <2>1, <3>1, <3>2, <3>4 DEF StepLocks, Undone
    <3>5. CASE StepUndoes(r)
      <4>1. pc'[r] \in {"undo", "rolledBack"}
        BY <3>5 DEF StepUndoes
      <4>2. CASE d \notin isUpdate[r]
        BY <2>1, <3>1, <4>1, <4>2 DEF Undone
      <4>3. CASE d \in isUpdate[r]
        <5>1. i >= idx[r]
          BY <3>1, <4>3
        <5>2. i # idx[r]
          <6>1. CASE pc[r] = "undoing"
            BY <2>1, <3>1, <3>5, <6>1 DEF StepUndoes
          <6>2. CASE pc[r] = "undo"
            BY <2>1, <3>1, <3>5, <4>3, <6>2 DEF StepUndoes
          <6> QED
            BY <3>2, <6>1, <6>2
        <5>3. pc'[r] = "undo" /\ idx'[r] = idx[r] + 1
          BY <2>1, <3>2, <3>5, <5>1, <5>2 DEF StepUndoes, Last
        <5> QED
          BY <2>1, <3>1, <3>2, <5>1, <5>2, <5>3 DEF Undone
      <4> QED
        BY <4>2, <4>3
    <3> QED
      BY <3>3, <3>4, <3>5
  <2>3. CASE container[d] = None
    <3>1. PICK q \in Req : Undone(q, d)
      BY <1>0, <2>3 DEF GoneUndone
    <3> QED
      BY <1>2, <2>a, <2>2, <3>1
  <2>4. CASE container[d] # None
    <3>1. d = Cur(r)
      <4>1. CASE d # Cur(r)
        BY <1>0, <1>4, <2>1, <2>4, <4>1, FlaggedSteps DEF StepWrites, StepChecked,
           StepCreates, StepLocks, StepStarts, StepExposes, StepRollsBack, StepUndoes,
           StepEnds
      <4> QED
        BY <4>1
    <3>2. CASE StepRollsBack(r)
      BY <2>1, <3>1, <3>2 DEF StepRollsBack, Undone
    <3>3. CASE StepUndoes(r)
      <4>1. pc'[r] \in {"undo", "rolledBack"} /\ Cur(r) \notin isUpdate[r]
        BY <2>1, <3>1, <3>3 DEF StepUndoes
      <4> QED
        BY <2>1, <3>1, <4>1 DEF Undone
    <3>4. ~(StepWrites(r) \/ StepChecked(r) \/ StepCreates(r) \/ StepLocks(r)
              \/ StepStarts(r) \/ StepExposes(r) \/ StepEnds(r))
      BY <2>1, <2>4, <3>1 DEF StepWrites, StepChecked, StepCreates, StepLocks, StepStarts,
         StepExposes, StepEnds
    <3> QED
      BY <1>0, <1>4, <3>2, <3>3, <3>4, FlaggedSteps
  <2> QED
    BY <2>3, <2>4
<1> QED
  BY <1>3, <1>4

\* What is taken down to be upped again is of a request that still waits for it.
LEMMA RecreateKeepsOutcome ==
  ASSUME Undisturbed, IndType, LockNotLeaked, OutcomeInv, NEW d \in Dnp, Recreate(d)
  PROVE  OutcomeInv'
<1>1. /\ UNCHANGED <<pc, idx, pkgs, isUpdate, compose, hadCompose>>
      /\ upLock'[d].from = compose[d]
      /\ \A e \in Dnp \ {d} : upLock'[e] = upLock[e]
  BY RecreateFrame
<1>2. container'[d] = None /\ \A e \in Dnp \ {d} : container'[e] = container[e]
  BY RecreateFrame DEF IndType, TypeOK
<1>3. ASSUME NEW q \in Req
      PROVE  RequestOK(q)'
  <2>1. RequestOK(q)
    BY DEF OutcomeInv
  <2>2. LockedFile(q)'
    <3>1. pc[q] \in {"starting", "undoing"} => Cur(q) \in Dnp
      BY CurFacts DEF Flagged
    <3> QED
      BY <1>1, <2>1, <3>1 DEF RequestOK, LockedFile, Cur
  <2> QED
    BY <1>1, <2>1, <2>2 DEF RequestOK, FilesPut, FilePut, ListedFile, UpdateKept
<1>4. PICK q \in Req : pc[q] \in {"starting", "undoing"} /\ Cur(q) = d
  <2>1. upLock[d] # None
    BY RecreateFrame
  <2>2. upLock[d].by \in Req
    BY <2>1 DEF IndType, TypeOK, Holder, Op, Undisturbed
  <2> QED
    BY <2>1, <2>2 DEF LockNotLeaked
<1>5. idx[q] \in DOMAIN pkgs[q] /\ pkgs[q][idx[q]] = d /\ idx[q] \in Nat
  BY <1>4, CurFacts DEF Cur, Flagged
<1>6. Undone(q, d)'
  BY <1>1, <1>4, <1>5 DEF Undone
<1>7. PackageOK(d)'
  BY <1>2, <1>6 DEF PackageOK, Settled, Matches, HasFile, GoneUndone
<1>8. ASSUME NEW e \in Dnp \ {d}
      PROVE  PackageOK(e)'
  <2>1. PackageOK(e) /\ container'[e] = container[e] /\ compose' = compose
    BY <1>1, <1>2 DEF OutcomeInv
  <2>2. Settled(e)' /\ HasFile(e)'
    BY <1>1, <2>1 DEF PackageOK, Settled, Matches, HasFile, Behind
  <2>3. GoneUndone(e)'
    BY <1>1, <2>1 DEF PackageOK, GoneUndone, Undone
  <2> QED
    BY <2>2, <2>3 DEF PackageOK
<1> QED
  BY <1>3, <1>7, <1>8 DEF OutcomeInv

THEOREM OutcomeInvariant ==
  ASSUME Undisturbed
  PROVE  Spec => []OutcomeInv
<1>0. DevReq = {} /\ "expire" \notin Faults
  BY DEF Undisturbed
<1>1. Init => OutcomeInv
  <2> SUFFICES ASSUME Init
               PROVE  OutcomeInv
    OBVIOUS
  <2>1. PICK present \in SUBSET Dnp : \E up \in SUBSET present :
          /\ compose = [d \in Dnp |-> IF d \in present
                                        THEN [ver |-> Installed, env |-> None]
                                        ELSE None]
          /\ container = [d \in Dnp |->
               IF d \in present
                 THEN [from |-> [ver |-> Installed, env |-> None], up |-> d \in up]
                 ELSE None]
    BY DEF Init, Fresh
  <2>2. [ver |-> Installed, env |-> None] # None
    <3>1. [ver |-> Installed, env |-> None] \in Content
      BY DEF Content, Version
    <3> QED
      BY <3>1, NoneAssumption
  <2>3. \A d \in Dnp : Matches(d)
    BY <2>1, <2>2 DEF Matches
  <2>4. \A r \in Req : pc[r] = "idle" /\ idx[r] = 1 /\ isUpdate[r] = {}
    BY DEF Init, Fresh
  <2>5. ASSUME NEW d \in Dnp
        PROVE  PackageOK(d)
    BY <2>3, <2>4 DEF PackageOK, Settled, HasFile, Matches, GoneUndone
  <2>6. ASSUME NEW r \in Req
        PROVE  RequestOK(r)
    BY <2>4 DEF RequestOK, FilesPut, FilePut, LockedFile, ListedFile, UpdateKept, Running
  <2> QED
    BY <2>5, <2>6 DEF OutcomeInv
<1>2. IndType /\ FlagInv /\ LockNotLeaked /\ OutcomeInv /\ [Next]_vars => OutcomeInv'
  <2> SUFFICES ASSUME IndType, FlagInv, LockNotLeaked, OutcomeInv, [Next]_vars
               PROVE  OutcomeInv'
    OBVIOUS
  <2>1. ASSUME NEW r \in Req, Install(r)
        PROVE  OutcomeInv'
    <3>1. \A q \in Req : RequestOK(q)'
      BY <2>1, InstallKeepsRequests
    <3>2. \A d \in Dnp : PackageOK(d)'
      BY <2>1, InstallKeepsPackages, InstallKeepsUndone DEF PackageOK
    <3> QED
      BY <3>1, <3>2 DEF OutcomeInv
  <2>2. CASE UNCHANGED vars
    BY <2>2 DEF vars, reqVars, planVars, procVars, diskVars, OutcomeInv, RequestOK,
       PackageOK, Settled, HasFile, Matches, Behind, GoneUndone, Undone, FilesPut,
       FilePut, LockedFile, ListedFile, UpdateKept, Cur
  <2>3. ~FlagExpires /\ ~Crash /\ Op = {}
    BY DEF FlagExpires, Crash, Op, Undisturbed
  <2>4. ASSUME NEW d \in Dnp, Recreate(d)
        PROVE  OutcomeInv'
    BY <2>4, RecreateKeepsOutcome
  <2> QED
    BY <2>1, <2>2, <2>3, <2>4 DEF Next
<1> QED
  BY <1>0, <1>1, <1>2, IndTypeInvariant, FlagInvariant, LocksNotLeaked, PTL DEF Spec

\* However installs overlap and fail, by docker or before it, what is left when
\* they have ended are containers made from the compose file in use.
THEOREM QuietlyConsistent ==
  ASSUME Undisturbed
  PROVE  Spec => []QuietConsistent
<1>1. OutcomeInv => QuietConsistent
  <2> SUFFICES ASSUME OutcomeInv, Quiet, NEW d \in Dnp
               PROVE  Matches(d)
    BY DEF QuietConsistent, Matches
  <2>1. \A r \in Req : \A i \in DOMAIN pkgs[r] : ~Behind(r, i)
    BY DEF Quiet, Ended, Behind
  <2> QED
    BY <2>1 DEF OutcomeInv, PackageOK, Settled
<1> QED
  BY <1>1, OutcomeInvariant, PTL

\* A rolled back update runs an earlier version again, unless an install that
\* took the package for a new one was rolled back too and removed it.
THEOREM RollbacksUpPrevious ==
  ASSUME Undisturbed
  PROVE  Spec => []RollbackUpsPrevious
<1>0. Guarded
  BY DEF Undisturbed, Guarded
<1>1. IndType /\ BackupInv /\ OutcomeInv /\ QuietConsistent => RollbackUpsPrevious
  <2> SUFFICES ASSUME IndType, BackupInv, OutcomeInv, QuietConsistent, Quiet,
                      NEW r \in Req, pc[r] = "rolledBack",
                      NEW d \in Range(pkgs[r]) \cap isUpdate[r]
               PROVE  \/ container[d] # None /\ container[d].from.ver # r
                      \/ \E q \in Req : /\ pc[q] = "rolledBack"
                                        /\ d \in Range(pkgs[q]) \ isUpdate[q]
    BY DEF RollbackUpsPrevious
  <2>1. d \in Dnp /\ pkgs[r] \in Plan
    BY DEF IndType, TypeOK, PlanOK
  <2>2. CASE container[d] # None
    <3>1. container[d].from = compose[d] /\ compose[d] # None
      BY <2>1, <2>2 DEF QuietConsistent
    <3>2. PICK i \in DOMAIN pkgs[r] : pkgs[r][i] = d
      BY <2>1, PlanFacts
    <3>3. d \in hadCompose[r]
      BY <3>2 DEF OutcomeInv, RequestOK, UpdateKept
    <3>4. compose[d].ver # r
      BY <3>1, <3>3 DEF BackupInv, FilesOK, RolledBack, NoVer
    <3> QED
      BY <2>2, <3>1, <3>4
  <2>3. CASE container[d] = None
    <3>1. PICK q \in Req : Undone(q, d)
      BY <2>1, <2>3 DEF OutcomeInv, PackageOK, GoneUndone
    <3>2. PICK i \in DOMAIN pkgs[q] :
            pkgs[q][i] = d /\ pc[q] = "rolledBack" /\ d \notin isUpdate[q]
      BY <3>1 DEF Undone, Quiet, Ended
    <3>3. pkgs[q] \in Plan
      BY <3>2 DEF IndType, PlanOK
    <3>4. d \in Range(pkgs[q])
      BY <3>2, <3>3, PlanFacts
    <3> QED
      BY <3>2, <3>4
  <2> QED
    BY <2>2, <2>3
<1> QED
  BY <1>0, <1>1, IndTypeInvariant, BackupInvariant, OutcomeInvariant, QuietlyConsistent,
     PTL
=============================================================================

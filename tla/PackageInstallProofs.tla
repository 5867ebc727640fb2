------------------------ MODULE PackageInstallProofs ------------------------
(***************************************************************************)
(* Proofs about PackageInstall, for any requests, packages, calls and      *)
(* failures.                                                               *)
(***************************************************************************)
EXTENDS PackageInstall, FiniteSetTheorems, TLAPS

\* The history variables go unchanged together.
USE DEF history

\* A plan lists different packages from position 1 on.
LEMMA PlanFacts ==
  ASSUME NEW p \in Plan
  PROVE  /\ DOMAIN p \subseteq Nat \ {0}
         /\ 1 \in DOMAIN p
         /\ \A i \in DOMAIN p : p[i] \in Dnp
         /\ \A i, j \in DOMAIN p : p[i] = p[j] => i = j
         /\ Range(p) = {p[i] : i \in DOMAIN p}
         /\ Range(p) \subseteq Dnp
<1>0. Cardinality(Dnp) \in Nat
  BY DnpAssumption, FS_CardinalityType
<1>1. PICK n \in 1 .. Cardinality(Dnp) : p \in Injection(1 .. n, Dnp)
  BY DEF Plan
<1>2. n \in Nat \ {0}
  BY <1>0
<1>3. /\ p \in [1 .. n -> Dnp]
      /\ \A i, j \in DOMAIN p : p[i] = p[j] => i = j
  BY <1>1 DEF Injection, IsInjective
<1> QED
  BY <1>2, <1>3 DEF Range

\* The list of packageInstallDev is a plan.
LEMMA OnePackagePlan ==
  ASSUME NEW d \in Dnp
  PROVE  [i \in 1 .. 1 |-> d] \in Plan
<1>0. Cardinality(Dnp) \in Nat \ {0}
  BY DnpAssumption, FS_CardinalityType, FS_EmptySet
<1>1. [i \in 1 .. 1 |-> d] \in Injection(1 .. 1, Dnp)
  BY DEF Injection, IsInjective
<1>2. 1 \in 1 .. Cardinality(Dnp)
  BY <1>0
<1>3. Injection(1 .. 1, Dnp) \in {Injection(1 .. n, Dnp) : n \in 1 .. Cardinality(Dnp)}
  BY <1>2
<1> QED
  BY <1>1, <1>3, Zenon DEF Plan

-----------------------------------------------------------------------------
(***************************************************************************)
(* Types.  The type invariant needs to know where a request is in its plan *)
(* and who holds the locks.                                                *)
(***************************************************************************)

\* A request has a plan from the moment it is resolved.
PlanOK == \A r \in Req : pc[r] # "idle" => pkgs[r] \in Plan

\* The loops of a request stay in its plan.
IdxOK ==
  \A r \in Req : /\ pc[r] \in Flagged => idx[r] \in DOMAIN pkgs[r]
                 /\ pc[r] \in {"idle", "list", "gather", "ask"} => idx[r] = 1

\* Who waits for dockerComposeUpPackage holds the lock of that package.
HolderOK ==
  /\ \A r \in Req : pc[r] \in {"starting", "undoing"} =>
       upLock[Cur(r)] # None /\ upLock[Cur(r)].by = r
  /\ \A o \in Op : /\ op[o] \in {"env", "envUp", "removing"} => opDnp[o] \in Dnp
                   /\ op[o] = "envUp" =>
                        upLock[opDnp[o]] # None /\ upLock[opDnp[o]].by = o

IndType == TypeOK /\ PlanOK /\ IdxOK /\ HolderOK

LEMMA CurFacts ==
  ASSUME IndType, NEW r \in Req, pc[r] \in Flagged
  PROVE  /\ pkgs[r] \in Plan
         /\ idx[r] \in DOMAIN pkgs[r]
         /\ idx[r] \in Nat \ {0}
         /\ 1 \in DOMAIN pkgs[r]
         /\ Cur(r) \in Dnp
         /\ \A i \in DOMAIN pkgs[r] : pkgs[r][i] \in Dnp
<1>1. pkgs[r] \in Plan /\ idx[r] \in DOMAIN pkgs[r] /\ idx[r] \in Nat \ {0}
  BY DEF IndType, PlanOK, IdxOK, Flagged, TypeOK
<1> QED
  BY <1>1, PlanFacts DEF Cur

LEMMA InitType == Init => IndType
  BY OpAssumption DEF Init, Fresh, IndType, TypeOK, PlanOK, IdxOK, HolderOK, Phase, Flagged,
     Ended, OpPhase, Content, Container, Version, Op

\* What a request reads before it flags its packages
LEMMA SnapshotType ==
  ASSUME TypeOK, NEW r \in Req, NEW S \in SUBSET Dnp, Snapshot(r, S)
  PROVE  /\ wasStopped' \in [Req -> SUBSET Dnp]
         /\ userSet' \in [Req -> [Dnp -> EnvOp \cup {None}]]
<1>1. wasStopped' \in [Req -> SUBSET Dnp]
  BY DEF Snapshot, TypeOK
<1>2. ASSUME NEW d \in Dnp
      PROVE  (IF d \in S /\ compose[d] # None THEN compose[d].env ELSE userSet[r][d])
               \in EnvOp \cup {None}
  BY DEF TypeOK, Content
<1>3. userSet' \in [Req -> [Dnp -> EnvOp \cup {None}]]
  BY <1>2 DEF Snapshot, TypeOK
<1> QED
  BY <1>1, <1>3

LEMMA GatheredType ==
  ASSUME IndType, NEW r \in Req, Gathered(r)
  PROVE  /\ wasStopped' \in [Req -> SUBSET Dnp]
         /\ userSet' \in [Req -> [Dnp -> EnvOp \cup {None}]]
         /\ pc[r] \in {"gather", "ask"}
         /\ pkgs[r] \in Plan
         /\ Range(pkgs[r]) \subseteq Dnp
<1>1. pc[r] \in {"gather", "ask"}
  BY DEF Gathered
<1>2. pkgs[r] \in Plan /\ Range(pkgs[r]) \in SUBSET Dnp /\ asked[r] \in SUBSET Dnp
  BY <1>1, PlanFacts DEF IndType, PlanOK, TypeOK
<1>3. Snapshot(r, Range(pkgs[r])) \/ Snapshot(r, asked[r])
  BY DEF Gathered
<1> QED
  BY <1>1, <1>2, <1>3, SnapshotType DEF IndType

LEMMA ResolutionType ==
  ASSUME IndType, NEW r \in Req,
         Resolve(r) \/ DevCheck(r) \/ DevList(r) \/ Refuse(r) \/ Gather(r)
           \/ Flag(r) \/ Reject(r)
  PROVE  IndType'
<1> USE DEF IndType, planVars, procVars, diskVars, opVars, Goto
<1>1. CASE Resolve(r)
  <2>1. TypeOK'
    BY <1>1, PlanFacts DEF Resolve, TypeOK, Phase
  <2>2. PlanOK' /\ IdxOK'
    BY <1>1 DEF Resolve, TypeOK, PlanOK, IdxOK, Flagged
  <2>3. HolderOK'
    BY <1>1 DEF Resolve, TypeOK, HolderOK, Cur
  <2> QED
    BY <2>1, <2>2, <2>3
<1>2. CASE DevCheck(r)
  <2>1. PICK p \in Plan, end \in {"rejected", "list"} :
          /\ pkgs' = [pkgs EXCEPT ![r] = p]
          /\ pc' = [pc EXCEPT ![r] = end]
    BY <1>2, OnePackagePlan DEF DevCheck
  <2>2. UNCHANGED <<isUpdate, asked, wasStopped, userSet, idx, procVars,
                    diskVars, container, opVars, history>>
    BY <1>2 DEF DevCheck
  <2>3. TypeOK'
    BY <2>1, <2>2 DEF TypeOK, Phase, Ended
  <2>4. PlanOK' /\ IdxOK'
    BY <1>2, <2>1, <2>2 DEF DevCheck, TypeOK, PlanOK, IdxOK, Flagged
  <2>5. HolderOK'
    BY <1>2, <2>1, <2>2 DEF TypeOK, HolderOK, Cur, DevCheck
  <2> QED
    BY <2>3, <2>4, <2>5
<1>3. CASE DevList(r)
  <2>1. pkgs[r] \in Plan /\ Range(pkgs[r]) \subseteq Dnp
    BY <1>3, PlanFacts DEF DevList, PlanOK
  <2>2. isUpdate' \in [Req -> SUBSET Dnp]
    BY <1>3, <2>1 DEF DevList, TypeOK
  <2>3. TypeOK'
    BY <1>3, <2>2 DEF DevList, TypeOK, Phase
  <2>4. PlanOK' /\ IdxOK'
    BY <1>3 DEF DevList, TypeOK, PlanOK, IdxOK, Flagged
  <2>5. HolderOK'
    BY <1>3 DEF DevList, TypeOK, HolderOK, Cur
  <2> QED
    BY <2>3, <2>4, <2>5
<1>4. CASE Refuse(r)
  <2>1. TypeOK'
    BY <1>4 DEF Refuse, TypeOK, Phase, Ended
  <2>2. PlanOK' /\ IdxOK'
    BY <1>4 DEF Refuse, TypeOK, PlanOK, IdxOK, Flagged
  <2>3. HolderOK'
    BY <1>4 DEF Refuse, TypeOK, HolderOK, Cur
  <2> QED
    BY <2>1, <2>2, <2>3
<1>5. CASE Gather(r)
  <2>1. pkgs[r] \in Plan /\ Range(pkgs[r]) \subseteq Dnp
    BY <1>5, PlanFacts DEF Gather, PlanOK
  <2>2. Unlisted(r) \in SUBSET Dnp /\ Range(pkgs[r]) \ Unlisted(r) \in SUBSET Dnp
    BY <2>1 DEF Unlisted
  <2>3. Snapshot(r, Range(pkgs[r]) \ Unlisted(r))
    BY <1>5 DEF Gather
  <2>4. TypeOK'
    BY <1>5, <2>2, <2>3, SnapshotType DEF Gather, TypeOK, Phase
  <2>5. PlanOK' /\ IdxOK'
    BY <1>5 DEF Gather, TypeOK, PlanOK, IdxOK, Flagged
  <2>6. HolderOK'
    BY <1>5 DEF Gather, TypeOK, HolderOK, Cur
  <2> QED
    BY <2>4, <2>5, <2>6
<1>6. CASE Flag(r)
  <2>1. Gathered(r)
    BY <1>6 DEF Flag
  <2>2. TypeOK'
    BY <1>6, <2>1, GatheredType DEF Flag, TypeOK, Phase, Flagged
  <2>3. PlanOK' /\ IdxOK'
    BY <1>6, <2>1, GatheredType, PlanFacts DEF Flag, TypeOK, PlanOK, IdxOK, Flagged
  <2>4. HolderOK'
    BY <1>6 DEF Flag, TypeOK, HolderOK, Cur
  <2> QED
    BY <2>2, <2>3, <2>4
<1>7. CASE Reject(r)
  <2>1. Gathered(r)
    BY <1>7 DEF Reject
  <2>2. TypeOK'
    BY <1>7, <2>1, GatheredType DEF Reject, TypeOK, Phase, Ended
  <2>3. PlanOK' /\ IdxOK'
    BY <1>7, <2>1, GatheredType DEF Reject, TypeOK, PlanOK, IdxOK, Flagged
  <2>4. HolderOK'
    BY <1>7 DEF Reject, TypeOK, HolderOK, Cur
  <2> QED
    BY <2>2, <2>3, <2>4
<1> QED
  BY <1>1, <1>2, <1>3, <1>4, <1>5, <1>6, <1>7

-----------------------------------------------------------------------------
(***************************************************************************)
(* What the steps of a flagged request have in common.                     *)
(***************************************************************************)

\* A request moves in its plan or ends.
LEMMA MoveType ==
  ASSUME IndType, NEW r \in Req, pc[r] \in Flagged,
         NEW ph \in Flagged \cup Ended, NEW i \in DOMAIN pkgs[r],
         pc' = [pc EXCEPT ![r] = ph], idx' = [idx EXCEPT ![r] = i],
         pkgs' = pkgs
  PROVE  /\ pc' \in [Req -> Phase]
         /\ idx' \in [Req -> Nat \ {0}]
         /\ PlanOK'
         /\ IdxOK'
<1>1. pkgs[r] \in Plan /\ i \in Nat \ {0}
  BY CurFacts, PlanFacts
<1>2. pc' \in [Req -> Phase] /\ idx' \in [Req -> Nat \ {0}]
  BY <1>1 DEF IndType, TypeOK, Phase
<1>3. PlanOK'
  BY DEF IndType, TypeOK, PlanOK, Flagged
<1>4. IdxOK'
  BY DEF IndType, TypeOK, IdxOK, Flagged, Ended
<1> QED
  BY <1>2, <1>3, <1>4

LEMMA GotoType ==
  ASSUME IndType, NEW r \in Req, pc[r] \in Flagged,
         NEW ph \in Flagged \cup Ended, Goto(r, ph), UNCHANGED <<idx, pkgs>>
  PROVE  /\ pc' \in [Req -> Phase]
         /\ idx' \in [Req -> Nat \ {0}]
         /\ PlanOK'
         /\ IdxOK'
<1>1. idx' = [idx EXCEPT ![r] = idx[r]]
  BY DEF IndType, TypeOK
<1>2. idx[r] \in DOMAIN pkgs[r]
  BY CurFacts
<1> QED
  BY <1>1, <1>2, MoveType DEF Goto

LEMMA AfterInstallType ==
  ASSUME IndType, NEW r \in Req, pc[r] \in Flagged,
         NEW ph \in Flagged \cup Ended, AfterInstall(r, ph), pkgs' = pkgs
  PROVE  /\ pc' \in [Req -> Phase]
         /\ idx' \in [Req -> Nat \ {0}]
         /\ installing' \in SUBSET Dnp
         /\ PlanOK'
         /\ IdxOK'
<1>1. 1 \in DOMAIN pkgs[r]
  BY CurFacts
<1>2. pc' = [pc EXCEPT ![r] = ph] /\ idx' = [idx EXCEPT ![r] = 1]
  BY DEF AfterInstall, Goto
<1>3. installing' \in SUBSET Dnp
  BY DEF AfterInstall, IndType, TypeOK
<1> QED
  BY <1>1, <1>2, <1>3, MoveType

LEMMA LoopType ==
  ASSUME IndType, NEW r \in Req, pc[r] \in Flagged, NEW next \in Flagged,
         NEW out \in Flagged, Loop(r, next, out), pkgs' = pkgs
  PROVE  /\ pc' \in [Req -> Phase]
         /\ idx' \in [Req -> Nat \ {0}]
         /\ PlanOK'
         /\ IdxOK'
<1>1. CASE More(r)
  <2>1. pc' = [pc EXCEPT ![r] = next]
    BY <1>1 DEF Loop, Goto
  <2>2. idx' = [idx EXCEPT ![r] = idx[r] + 1]
    BY <1>1 DEF Loop, IndType, TypeOK
  <2>3. idx[r] + 1 \in DOMAIN pkgs[r]
    BY <1>1 DEF More
  <2> QED
    BY <2>1, <2>2, <2>3, MoveType
<1>2. CASE ~More(r)
  <2>1. pc' = [pc EXCEPT ![r] = out] /\ idx' = [idx EXCEPT ![r] = 1]
    BY <1>2 DEF Loop, Goto
  <2>2. 1 \in DOMAIN pkgs[r]
    BY CurFacts
  <2> QED
    BY <2>1, <2>2, MoveType
<1> QED
  BY <1>1, <1>2

LEMMA UndoNextType ==
  ASSUME IndType, NEW r \in Req, pc[r] \in Flagged, UndoNext(r), pkgs' = pkgs
  PROVE  /\ pc' \in [Req -> Phase]
         /\ idx' \in [Req -> Nat \ {0}]
         /\ installing' \in SUBSET Dnp
         /\ PlanOK'
         /\ IdxOK'
<1>1. CASE More(r)
  <2>1. pc' = [pc EXCEPT ![r] = "undo"] /\ installing' = installing
    BY <1>1 DEF UndoNext, Goto
  <2>2. idx' = [idx EXCEPT ![r] = idx[r] + 1]
    BY <1>1 DEF UndoNext, IndType, TypeOK
  <2>3. idx[r] + 1 \in DOMAIN pkgs[r] /\ "undo" \in Flagged
    BY <1>1 DEF More, Flagged
  <2> QED
    BY <2>1, <2>2, <2>3, MoveType DEF IndType, TypeOK
<1>2. CASE ~More(r)
  <2>1. AfterInstall(r, "rolledBack") /\ "rolledBack" \in Ended
    BY <1>2 DEF UndoNext, Ended
  <2> QED
    BY <2>1, AfterInstallType
<1> QED
  BY <1>1, <1>2

\* A request that neither takes nor gives a lock
LEMMA HolderKept ==
  ASSUME IndType, NEW r \in Req, pkgs' = pkgs,
         \A q \in Req \ {r} : pc'[q] = pc[q] /\ idx'[q] = idx[q],
         pc'[r] \notin {"starting", "undoing"},
         UNCHANGED <<op, opDnp, upLock>>
  PROVE  HolderOK'
  BY DEF IndType, TypeOK, HolderOK, Cur

LEMMA HolderLock ==
  ASSUME IndType, NEW r \in Req, pc[r] \in Flagged, pkgs' = pkgs, idx' = idx,
         \A q \in Req \ {r} : pc'[q] = pc[q],
         NEW b \in BOOLEAN, CanLock(Cur(r)), Lock(Cur(r), r, b),
         UNCHANGED <<op, opDnp>>
  PROVE  HolderOK' /\ upLock' \in [Dnp -> Holder \cup {None}]
<1>1. Cur(r) \in Dnp /\ upLock[Cur(r)] = None /\ compose[Cur(r)] \in Content
  BY CurFacts DEF CanLock, IndType, TypeOK
<1>2. upLock' \in [Dnp -> Holder \cup {None}]
  BY <1>1 DEF Lock, Holder, IndType, TypeOK
<1>3. /\ upLock'[Cur(r)] = [by |-> r, from |-> compose[Cur(r)], start |-> b,
                          again |-> FALSE]
      /\ \A d \in Dnp \ {Cur(r)} : upLock'[d] = upLock[d]
  BY <1>1 DEF Lock, IndType, TypeOK
<1>4. [by |-> r, from |-> compose[Cur(r)], start |-> b,
                          again |-> FALSE] # None
  <2>1. [by |-> r, from |-> compose[Cur(r)], start |-> b,
                          again |-> FALSE] \in Holder
    BY <1>1 DEF Holder
  <2> QED
    BY <2>1, NoneAssumption
<1>5. ASSUME NEW q \in Req, pc'[q] \in {"starting", "undoing"}
      PROVE  upLock'[Cur(q)'] # None /\ upLock'[Cur(q)'].by = q
  <2>1. CASE q = r
    BY <1>3, <1>4, <2>1 DEF Cur
  <2>2. CASE q # r
    BY <1>1, <1>3, <1>5, <2>2, CurFacts DEF Cur, IndType, HolderOK, Flagged
  <2> QED
    BY <2>1, <2>2
<1>6. ASSUME NEW o \in Op
      PROVE  /\ op'[o] \in {"env", "envUp", "removing"} => opDnp'[o] \in Dnp
             /\ op'[o] = "envUp" =>
                  upLock'[opDnp'[o]] # None /\ upLock'[opDnp'[o]].by = o
  BY <1>1, <1>3, <1>6 DEF IndType, HolderOK
<1> QED
  BY <1>2, <1>5, <1>6 DEF HolderOK, Cur

LEMMA HolderUnlock ==
  ASSUME IndType, NEW r \in Req, pc[r] \in {"starting", "undoing"}, pkgs' = pkgs,
         \A q \in Req \ {r} : pc'[q] = pc[q] /\ idx'[q] = idx[q],
         pc'[r] \notin {"starting", "undoing"},
         Unlock(Cur(r)), UNCHANGED <<op, opDnp>>
  PROVE  HolderOK' /\ upLock' \in [Dnp -> Holder \cup {None}]
<1>1. Cur(r) \in Dnp /\ upLock[Cur(r)].by = r
  BY CurFacts DEF IndType, HolderOK, Flagged
<1>2. upLock' \in [Dnp -> Holder \cup {None}]
  BY DEF Unlock, IndType, TypeOK
<1>3. \A d \in Dnp \ {Cur(r)} : upLock'[d] = upLock[d]
  BY <1>1 DEF Unlock, IndType, TypeOK
<1>4. ASSUME NEW q \in Req, pc'[q] \in {"starting", "undoing"}
      PROVE  upLock'[Cur(q)'] # None /\ upLock'[Cur(q)'].by = q
  <2>1. q # r /\ pc[q] \in {"starting", "undoing"} /\ Cur(q)' = Cur(q)
    BY <1>4 DEF Cur
  <2>2. Cur(q) \in Dnp /\ upLock[Cur(q)] # None /\ upLock[Cur(q)].by = q
    BY <2>1, CurFacts DEF IndType, HolderOK, Flagged
  <2> QED
    BY <1>1, <1>3, <2>1, <2>2
<1>5. ASSUME NEW o \in Op
      PROVE  /\ op'[o] \in {"env", "envUp", "removing"} => opDnp'[o] \in Dnp
             /\ op'[o] = "envUp" =>
                  upLock'[opDnp'[o]] # None /\ upLock'[opDnp'[o]].by = o
  BY <1>1, <1>3, <1>5, OpAssumption DEF IndType, HolderOK, Op
<1> QED
  BY <1>2, <1>4, <1>5 DEF HolderOK, Cur

\* The files a request writes, restores and removes, and the containers that
\* docker makes of them
LEMMA WriteComposeType ==
  ASSUME IndType, NEW r \in Req, NEW d \in Dnp, WriteCompose(r, d)
  PROVE  /\ compose' \in [Dnp -> Content \cup {None}]
         /\ composeBackup' \in [Dnp -> Content \cup {None}]
         /\ hadCompose' \in [Req -> SUBSET Dnp]
<1>1. [ver |-> r, env |-> userSet[r][d]] \in Content
  BY DEF IndType, TypeOK, Content, Version
<1>2. compose' \in [Dnp -> Content \cup {None}]
  BY <1>1 DEF WriteCompose, IndType, TypeOK
<1>3. composeBackup' \in [Dnp -> Content \cup {None}]
  BY DEF WriteCompose, IndType, TypeOK
<1>4. hadCompose' \in [Req -> SUBSET Dnp]
  BY DEF WriteCompose, IndType, TypeOK
<1> QED
  BY <1>2, <1>3, <1>4

LEMMA UppedType ==
  ASSUME IndType, NEW d \in Dnp, NEW f \in Content, NEW b \in BOOLEAN
  PROVE  /\ Upped(f, container[d], b) \in Container
         /\ HalfUpped(f, container[d]) \subseteq Container \cup {None}
<1>1. container[d] \in Container \cup {None}
  BY DEF IndType, TypeOK
<1>2. [from |-> f, up |-> b] \in Container /\ [from |-> f, up |-> FALSE] \in Container
  BY DEF Container
<1>3. CASE container[d] # None
  <2>1. container[d].up \in BOOLEAN
    BY <1>1, <1>3 DEF Container
  <2>2. [from |-> f, up |-> container[d].up \/ b] \in Container
    BY <2>1 DEF Container
  <2>3. [container[d] EXCEPT !.up = FALSE] \in Container
    BY <1>1, <1>3 DEF Container
  <2>4. Upped(f, container[d], b) \in Container
    BY <1>2, <2>2, Zenon DEF Upped
  <2>5. HalfUpped(f, container[d]) \subseteq Container \cup {None}
    BY <1>1, <1>2, <1>3, <2>3, Zenon DEF HalfUpped
  <2> QED
    BY <2>4, <2>5
<1>4. CASE container[d] = None
  BY <1>1, <1>2, <1>4 DEF Upped, HalfUpped
<1> QED
  BY <1>3, <1>4

LEMMA RollbackFilesType ==
  ASSUME IndType, NEW r \in Req, pc[r] \in Flagged, RollbackFiles(r), pkgs' = pkgs
  PROVE  /\ pc' \in [Req -> Phase]
         /\ idx' \in [Req -> Nat \ {0}]
         /\ compose' \in [Dnp -> Content \cup {None}]
         /\ composeBackup' \in [Dnp -> Content \cup {None}]
         /\ manifest' \in [Dnp -> Version \cup {None}]
         /\ manifestBackup' \in [Dnp -> Version \cup {None}]
         /\ PlanOK'
         /\ IdxOK'
<1>1. pc' = [pc EXCEPT ![r] = "undo"] /\ idx' = [idx EXCEPT ![r] = 1]
  BY DEF RollbackFiles, Goto
<1>2. 1 \in DOMAIN pkgs[r] /\ "undo" \in Flagged
  BY CurFacts DEF Flagged
<1>3. /\ compose' \in [Dnp -> Content \cup {None}]
      /\ composeBackup' \in [Dnp -> Content \cup {None}]
  BY DEF RollbackFiles, Restored, Consumed, IndType, TypeOK
<1>4. /\ manifest' \in [Dnp -> Version \cup {None}]
      /\ manifestBackup' \in [Dnp -> Version \cup {None}]
  BY DEF RollbackFiles, Restored, Consumed, IndType, TypeOK
<1> QED
  BY <1>1, <1>2, <1>3, <1>4, MoveType

-----------------------------------------------------------------------------
LEMMA PreparationType ==
  ASSUME IndType, NEW r \in Req,
         Prepare(r) \/ PrepareFails(r) \/ Validate(r) \/ ValidateFails(r)
  PROVE  IndType'
<1> USE DEF planVars, reqVars, procVars, diskVars, opVars
<1>0. pc[r] \in Flagged /\ Cur(r) \in Dnp
  BY CurFacts DEF Prepare, PrepareFails, Validate, ValidateFails, Flagged
<1>1. CASE Prepare(r)
  <2>1. /\ pc' \in [Req -> Phase]
        /\ idx' \in [Req -> Nat \ {0}]
        /\ PlanOK' /\ IdxOK'
    BY <1>0, <1>1, GotoType DEF Prepare, Flagged
  <2>2. TypeOK'
    BY <1>0, <1>1, <2>1, WriteComposeType DEF Prepare, IndType, TypeOK
  <2>3. HolderOK'
    BY <1>1, HolderKept DEF Prepare, Goto, IndType, TypeOK
  <2> QED
    BY <2>1, <2>2, <2>3 DEF IndType
<1>2. CASE PrepareFails(r)
  <2>1. /\ pc' \in [Req -> Phase]
        /\ idx' \in [Req -> Nat \ {0}]
        /\ installing' \in SUBSET Dnp
        /\ PlanOK' /\ IdxOK'
    BY <1>0, <1>2, AfterInstallType DEF PrepareFails, Ended
  <2>2. TypeOK'
    BY <1>2, <2>1 DEF PrepareFails, IndType, TypeOK
  <2>3. HolderOK'
    BY <1>2, HolderKept DEF PrepareFails, AfterInstall, Goto, IndType, TypeOK
  <2> QED
    BY <2>1, <2>2, <2>3 DEF IndType
<1>3. CASE Validate(r)
  <2>1. /\ pc' \in [Req -> Phase]
        /\ idx' \in [Req -> Nat \ {0}]
        /\ PlanOK' /\ IdxOK'
    BY <1>0, <1>3, LoopType DEF Validate, Flagged
  <2>2. /\ compose' \in [Dnp -> Content \cup {None}]
        /\ composeBackup' \in [Dnp -> Content \cup {None}]
        /\ hadCompose' \in [Req -> SUBSET Dnp]
    <3>1. CASE More(r)
      <4>1. pkgs[r][idx[r] + 1] \in Dnp
        BY <1>0, <3>1, CurFacts DEF More
      <4>2. WriteCompose(r, pkgs[r][idx[r] + 1])
        BY <1>3, <3>1 DEF Validate
      <4> QED
        BY <4>1, <4>2, WriteComposeType
    <3>2. CASE ~More(r)
      BY <1>3, <3>2 DEF Validate, IndType, TypeOK
    <3> QED
      BY <3>1, <3>2
  <2>3. /\ manifest' \in [Dnp -> Version \cup {None}]
        /\ manifestBackup' \in [Dnp -> Version \cup {None}]
    BY <1>0, <1>3 DEF Validate, IndType, TypeOK, Version
  <2>4. TypeOK'
    BY <1>3, <2>1, <2>2, <2>3 DEF Validate, IndType, TypeOK
  <2>5. HolderOK'
    BY <1>3, HolderKept DEF Validate, Loop, Goto, IndType, TypeOK
  <2> QED
    BY <2>1, <2>4, <2>5 DEF IndType
<1>4. CASE ValidateFails(r)
  <2>1. /\ pc' \in [Req -> Phase]
        /\ idx' \in [Req -> Nat \ {0}]
        /\ installing' \in SUBSET Dnp
        /\ PlanOK' /\ IdxOK'
    BY <1>0, <1>4, AfterInstallType DEF ValidateFails, Ended
  <2>2. TypeOK'
    BY <1>4, <2>1 DEF ValidateFails, IndType, TypeOK
  <2>3. HolderOK'
    BY <1>4, HolderKept DEF ValidateFails, AfterInstall, Goto, IndType, TypeOK
  <2> QED
    BY <2>1, <2>2, <2>3 DEF IndType
<1> QED
  BY <1>1, <1>2, <1>3, <1>4

LEMMA RunType ==
  ASSUME IndType, NEW r \in Req,
         Create(r) \/ CreateFails(r) \/ StartLock(r) \/ StartThrows(r)
           \/ Start(r) \/ StartFails(r) \/ Expose(r) \/ ExposeFails(r)
  PROVE  IndType'
<1> USE DEF planVars, reqVars, procVars, diskVars, opVars
<1>0. pc[r] \in Flagged /\ Cur(r) \in Dnp
  BY CurFacts DEF Create, CreateFails, StartLock, StartThrows, Start,
     StartFails, Expose, ExposeFails, Flagged
<1>1. CASE Create(r)
  <2>1. /\ pc' \in [Req -> Phase]
        /\ idx' \in [Req -> Nat \ {0}]
        /\ PlanOK' /\ IdxOK'
    BY <1>0, <1>1, GotoType DEF Create, Flagged
  <2>2. container' \in [Dnp -> Container \cup {None}]
    <3>1. compose[Cur(r)] \in Content /\ (Cur(r) \in PidDnp) \in BOOLEAN
      BY <1>0, <1>1 DEF Create, IndType, TypeOK
    <3>2. Upped(compose[Cur(r)], container[Cur(r)], Cur(r) \in PidDnp) \in Container
      BY <1>0, <3>1, UppedType
    <3>3. container' = [container EXCEPT ![Cur(r)] =
             Upped(compose[Cur(r)], container[Cur(r)], Cur(r) \in PidDnp)]
      BY <1>0, <1>1 DEF Create, IndType, TypeOK
    <3> QED
      BY <1>0, <3>2, <3>3 DEF IndType, TypeOK
  <2>3. TypeOK'
    BY <1>1, <2>1, <2>2 DEF Create, IndType, TypeOK
  <2>4. HolderOK'
    BY <1>1, HolderKept DEF Create, Goto, IndType, TypeOK
  <2> QED
    BY <2>1, <2>3, <2>4 DEF IndType
<1>2. CASE CreateFails(r)
  <2>1. RollbackFiles(r) /\ pkgs' = pkgs
    BY <1>2 DEF CreateFails
  <2>2. container' \in [Dnp -> Container \cup {None}]
    <3>1. CASE compose[Cur(r)] = None
      BY <1>2, <3>1 DEF CreateFails, IndType, TypeOK
    <3>2. CASE compose[Cur(r)] # None
      <4>1. compose[Cur(r)] \in Content
        BY <1>0, <3>2 DEF IndType, TypeOK
      <4>2. PICK c \in HalfUpped(compose[Cur(r)], container[Cur(r)]) :
               container' = [container EXCEPT ![Cur(r)] = c]
        BY <1>2, <3>2 DEF CreateFails
      <4>3. c \in Container \cup {None}
        BY <1>0, <4>1, UppedType
      <4> QED
        BY <4>2, <4>3 DEF IndType, TypeOK
    <3> QED
      BY <3>1, <3>2
  <2>3. TypeOK' /\ PlanOK' /\ IdxOK'
    BY <1>0, <1>2, <2>1, <2>2, RollbackFilesType DEF CreateFails, IndType, TypeOK
  <2>4. HolderOK'
    BY <1>2, HolderKept DEF CreateFails, RollbackFiles, Goto, IndType, TypeOK
  <2> QED
    BY <2>3, <2>4 DEF IndType
<1>3. CASE StartLock(r)
  <2>1. /\ pc' \in [Req -> Phase]
        /\ idx' \in [Req -> Nat \ {0}]
        /\ PlanOK' /\ IdxOK'
    BY <1>0, <1>3, GotoType DEF StartLock, Flagged
  <2>2. HolderOK' /\ upLock' \in [Dnp -> Holder \cup {None}]
    BY <1>0, <1>3, HolderLock DEF StartLock, Goto, IndType, TypeOK
  <2>3. TypeOK'
    BY <1>3, <2>1, <2>2 DEF StartLock, IndType, TypeOK
  <2> QED
    BY <2>1, <2>2, <2>3 DEF IndType
<1>4. CASE StartThrows(r)
  <2>1. RollbackFiles(r) /\ pkgs' = pkgs
    BY <1>4 DEF StartThrows
  <2>2. TypeOK' /\ PlanOK' /\ IdxOK'
    BY <1>0, <1>4, <2>1, RollbackFilesType DEF StartThrows, IndType, TypeOK
  <2>3. HolderOK'
    BY <1>4, HolderKept DEF StartThrows, RollbackFiles, Goto, IndType, TypeOK
  <2> QED
    BY <2>2, <2>3 DEF IndType
<1>5. CASE Start(r)
  <2>1. /\ pc' \in [Req -> Phase]
        /\ idx' \in [Req -> Nat \ {0}]
        /\ PlanOK' /\ IdxOK'
    BY <1>0, <1>5, GotoType DEF Start, Flagged
  <2>2. container' \in [Dnp -> Container \cup {None}]
    <3>1. upLock[Cur(r)] \in Holder
      BY <1>0, <1>5 DEF Start, IndType, TypeOK, HolderOK
    <3>2. Upped(upLock[Cur(r)].from, container[Cur(r)], upLock[Cur(r)].start) \in Container
      BY <1>0, <3>1, UppedType DEF Holder
    <3>3. container' = [container EXCEPT ![Cur(r)] =
             Upped(upLock[Cur(r)].from, container[Cur(r)], upLock[Cur(r)].start)]
      BY <1>0, <1>5 DEF Start, IndType, TypeOK
    <3> QED
      BY <1>0, <3>2, <3>3 DEF IndType, TypeOK
  <2>3. HolderOK' /\ upLock' \in [Dnp -> Holder \cup {None}]
    BY <1>5, HolderUnlock DEF Start, Goto, IndType, TypeOK
  <2>4. TypeOK'
    BY <1>5, <2>1, <2>2, <2>3 DEF Start, IndType, TypeOK
  <2> QED
    BY <2>1, <2>3, <2>4 DEF IndType
<1>6. CASE StartFails(r)
  <2>1. RollbackFiles(r) /\ pkgs' = pkgs /\ pc[r] = "starting"
    BY <1>6 DEF StartFails
  <2>2. container' \in [Dnp -> Container \cup {None}]
    <3>1. upLock[Cur(r)] \in Holder
      BY <1>0, <1>6 DEF StartFails, IndType, TypeOK, HolderOK
    <3>2. HalfUpped(upLock[Cur(r)].from, container[Cur(r)]) \subseteq Container \cup {None}
      BY <1>0, <3>1, UppedType DEF Holder
    <3> QED
      BY <1>6, <3>2 DEF StartFails, IndType, TypeOK
  <2>3. HolderOK' /\ upLock' \in [Dnp -> Holder \cup {None}]
    BY <1>6, <2>1, HolderUnlock DEF StartFails, RollbackFiles, Goto, IndType, TypeOK
  <2>4. TypeOK' /\ PlanOK' /\ IdxOK'
    BY <1>0, <1>6, <2>1, <2>2, <2>3, RollbackFilesType DEF StartFails, IndType, TypeOK
  <2> QED
    BY <2>3, <2>4 DEF IndType
<1>7. CASE Expose(r)
  <2>1. /\ pc' \in [Req -> Phase]
        /\ idx' \in [Req -> Nat \ {0}]
        /\ PlanOK' /\ IdxOK'
    BY <1>0, <1>7, LoopType DEF Expose, Flagged
  <2>2. TypeOK'
    BY <1>7, <2>1 DEF Expose, IndType, TypeOK
  <2>3. HolderOK'
    BY <1>7, HolderKept DEF Expose, Loop, Goto, IndType, TypeOK
  <2> QED
    BY <2>1, <2>2, <2>3 DEF IndType
<1>8. CASE ExposeFails(r)
  <2>1. RollbackFiles(r) /\ pkgs' = pkgs
    BY <1>8 DEF ExposeFails
  <2>2. TypeOK' /\ PlanOK' /\ IdxOK'
    BY <1>0, <1>8, <2>1, RollbackFilesType DEF ExposeFails, IndType, TypeOK
  <2>3. HolderOK'
    BY <1>8, HolderKept DEF ExposeFails, RollbackFiles, Goto, IndType, TypeOK
  <2> QED
    BY <2>2, <2>3 DEF IndType
<1> QED
  BY <1>1, <1>2, <1>3, <1>4, <1>5, <1>6, <1>7, <1>8

LEMMA UndoType ==
  ASSUME IndType, NEW r \in Req,
         UndoLock(r) \/ UndoThrows(r) \/ Undo(r) \/ UndoRemove(r)
  PROVE  IndType'
<1> USE DEF planVars, reqVars, procVars, diskVars, opVars
<1>0. pc[r] \in Flagged /\ Cur(r) \in Dnp
  BY CurFacts DEF UndoLock, UndoThrows, Undo, UndoRemove, Flagged
<1>1. CASE UndoLock(r)
  <2>1. /\ pc' \in [Req -> Phase]
        /\ idx' \in [Req -> Nat \ {0}]
        /\ PlanOK' /\ IdxOK'
    BY <1>0, <1>1, GotoType DEF UndoLock, Flagged
  <2>2. HolderOK' /\ upLock' \in [Dnp -> Holder \cup {None}]
    BY <1>0, <1>1, HolderLock DEF UndoLock, Goto, IndType, TypeOK
  <2>3. TypeOK'
    BY <1>1, <2>1, <2>2 DEF UndoLock, IndType, TypeOK
  <2> QED
    BY <2>1, <2>2, <2>3 DEF IndType
<1>2. CASE UndoThrows(r)
  <2>1. UndoNext(r) /\ pkgs' = pkgs
    BY <1>2 DEF UndoThrows
  <2>2. TypeOK' /\ PlanOK' /\ IdxOK'
    BY <1>0, <1>2, <2>1, UndoNextType DEF UndoThrows, IndType, TypeOK
  <2>3. HolderOK'
    BY <1>2, <2>1, HolderKept DEF UndoThrows, UndoNext, AfterInstall, Goto, IndType, TypeOK
  <2> QED
    BY <2>2, <2>3 DEF IndType
<1>3. CASE Undo(r)
  <2>1. UndoNext(r) /\ pkgs' = pkgs /\ pc[r] = "undoing"
    BY <1>3 DEF Undo
  <2>2. container' \in [Dnp -> Container \cup {None}]
    <3> DEFINE f == upLock[Cur(r)].from
               b == upLock[Cur(r)].start
    <3>1. upLock[Cur(r)] \in Holder
      BY <1>0, <2>1 DEF IndType, TypeOK, HolderOK
    <3>2. /\ Upped(f, container[Cur(r)], b) \in Container
          /\ HalfUpped(f, container[Cur(r)]) \subseteq Container \cup {None}
      BY <1>0, <3>1, UppedType DEF Holder
    <3>3. PICK c \in {Upped(f, container[Cur(r)], b)} \cup
                       (IF "rollback" \in Faults THEN HalfUpped(f, container[Cur(r)])
                                                 ELSE {}) :
            container' = [container EXCEPT ![Cur(r)] = c]
      BY <1>3 DEF Undo
    <3>4. c \in Container \cup {None}
      BY <3>2, <3>3
    <3> QED
      BY <3>3, <3>4 DEF IndType, TypeOK
  <2>3. HolderOK' /\ upLock' \in [Dnp -> Holder \cup {None}]
    BY <1>3, <2>1, HolderUnlock DEF Undo, UndoNext, AfterInstall, Goto, IndType, TypeOK
  <2>4. TypeOK' /\ PlanOK' /\ IdxOK'
    BY <1>0, <1>3, <2>1, <2>2, <2>3, UndoNextType DEF Undo, IndType, TypeOK
  <2> QED
    BY <2>3, <2>4 DEF IndType
<1>4. CASE UndoRemove(r)
  <2>1. UndoNext(r) /\ pkgs' = pkgs
    BY <1>4 DEF UndoRemove
  <2>2. container' \in [Dnp -> Container \cup {None}]
    <3>1. PICK c \in {None, container[Cur(r)]} :
            container' = [container EXCEPT ![Cur(r)] = c]
      BY <1>4 DEF UndoRemove
    <3> QED
      BY <1>0, <3>1 DEF IndType, TypeOK
  <2>3. TypeOK' /\ PlanOK' /\ IdxOK'
    BY <1>0, <1>4, <2>1, <2>2, UndoNextType DEF UndoRemove, IndType, TypeOK
  <2>4. HolderOK'
    BY <1>4, <2>1, HolderKept DEF UndoRemove, UndoNext, AfterInstall, Goto, IndType, TypeOK
  <2> QED
    BY <2>3, <2>4 DEF IndType
<1> QED
  BY <1>1, <1>2, <1>3, <1>4

LEMMA CleanType ==
  ASSUME IndType, NEW r \in Req, Clean(r) \/ CleanFails(r)
  PROVE  IndType'
<1> USE DEF planVars, reqVars, procVars, diskVars, opVars
<1>0. pc[r] \in Flagged /\ Cur(r) \in Dnp
  BY CurFacts DEF Clean, CleanFails, Flagged
<1>1. CASE Clean(r)
  <2>1. /\ pc' \in [Req -> Phase]
        /\ idx' \in [Req -> Nat \ {0}]
        /\ installing' \in SUBSET Dnp
        /\ PlanOK' /\ IdxOK'
    <3>1. CASE More(r)
      <4>1. pc' = [pc EXCEPT ![r] = "clean"] /\ installing' = installing
        BY <1>1, <3>1 DEF Clean, Goto
      <4>2. idx' = [idx EXCEPT ![r] = idx[r] + 1] /\ pkgs' = pkgs
        BY <1>1, <3>1 DEF Clean, IndType, TypeOK
      <4>3. idx[r] + 1 \in DOMAIN pkgs[r] /\ "clean" \in Flagged
        BY <3>1 DEF More, Flagged
      <4> QED
        BY <1>0, <4>1, <4>2, <4>3, MoveType DEF IndType, TypeOK
    <3>2. CASE ~More(r)
      BY <1>0, <1>1, <3>2, AfterInstallType DEF Clean, Ended
    <3> QED
      BY <3>1, <3>2
  <2>2. TypeOK'
    BY <1>1, <2>1 DEF Clean, IndType, TypeOK
  <2>3. HolderOK'
    BY <1>1, HolderKept DEF Clean, AfterInstall, Goto, IndType, TypeOK
  <2> QED
    BY <2>1, <2>2, <2>3 DEF IndType
<1>2. CASE CleanFails(r)
  <2>1. /\ pc' \in [Req -> Phase]
        /\ idx' \in [Req -> Nat \ {0}]
        /\ installing' \in SUBSET Dnp
        /\ PlanOK' /\ IdxOK'
    BY <1>0, <1>2, AfterInstallType DEF CleanFails, Ended
  <2>2. /\ composeBackup' \in [Dnp -> Content \cup {None}]
        /\ manifestBackup' \in [Dnp -> Version \cup {None}]
    BY <1>2 DEF CleanFails, IndType, TypeOK
  <2>3. TypeOK'
    BY <1>2, <2>1, <2>2 DEF CleanFails, IndType, TypeOK
  <2>4. HolderOK'
    BY <1>2, HolderKept DEF CleanFails, AfterInstall, Goto, IndType, TypeOK
  <2> QED
    BY <2>1, <2>3, <2>4 DEF IndType
<1> QED
  BY <1>1, <1>2

LEMMA CallType ==
  ASSUME IndType, NEW o \in Op, Call(o)
  PROVE  IndType'
<1> USE DEF planVars, reqVars, procVars, diskVars, opVars
<1>0. UNCHANGED <<pc, pkgs, idx>>
  BY DEF Call, SetEnvironment, SetEnvironmentUp, SetEnvironmentDone,
     SetEnvironmentFails, Remove, RemoveFiles
<1>1. PlanOK' /\ IdxOK'
  BY <1>0 DEF IndType, PlanOK, IdxOK
<1>2. CASE SetEnvironment(o)
  <2>1. PICK d \in Dnp : /\ compose[d] # None
                         /\ compose' = [compose EXCEPT ![d].env = o]
                         /\ opDnp' = [opDnp EXCEPT ![o] = d]
    BY <1>2 DEF SetEnvironment
  <2>2. compose' \in [Dnp -> Content \cup {None}]
    <3>1. compose[d] \in Content /\ o \in EnvOp
      BY <1>2, <2>1 DEF SetEnvironment, IndType, TypeOK
    <3>2. [compose[d] EXCEPT !.env = o] \in Content
      BY <3>1 DEF Content
    <3> QED
      BY <2>1, <3>2 DEF IndType, TypeOK
  <2>3. TypeOK'
    BY <1>2, <2>1, <2>2 DEF SetEnvironment, IndType, TypeOK, OpPhase
  <2>4. HolderOK'
    BY <1>2, <2>1 DEF SetEnvironment, IndType, TypeOK, HolderOK, Cur
  <2> QED
    BY <1>1, <2>3, <2>4 DEF IndType
<1>3. CASE SetEnvironmentUp(o)
  <2>1. opDnp[o] \in Dnp /\ op[o] = "env"
    BY <1>3 DEF SetEnvironmentUp, IndType, HolderOK
  <2>2. CASE ~CanLock(opDnp[o])
    <3>1. upLock' = upLock /\ op' = [op EXCEPT ![o] = "failed"]
      BY <1>3, <2>2 DEF SetEnvironmentUp
    <3>2. TypeOK'
      BY <1>3, <3>1 DEF SetEnvironmentUp, IndType, TypeOK, OpPhase
    <3>3. HolderOK'
      BY <1>3, <3>1 DEF SetEnvironmentUp, IndType, TypeOK, HolderOK, Cur
    <3> QED
      BY <1>1, <3>2, <3>3 DEF IndType
  <2>3. CASE CanLock(opDnp[o])
    <3> DEFINE b == container[opDnp[o]] = None \/ container[opDnp[o]].up
    <3>1. /\ Lock(opDnp[o], o, b)
          /\ op' = [op EXCEPT ![o] = "envUp"]
      BY <1>3, <2>3 DEF SetEnvironmentUp
    <3>2. compose[opDnp[o]] \in Content
      BY <2>1, <2>3 DEF CanLock, IndType, TypeOK
    <3>a. b \in BOOLEAN
      OBVIOUS
    <3> HIDE DEF b
    <3> DEFINE h == [by |-> o, from |-> compose[opDnp[o]], start |-> b,
                          again |-> FALSE]
    <3>3. h \in Holder /\ h # None /\ h.by = o
      <4>1. h \in Holder /\ h.by = o
        BY <3>2, <3>a DEF Holder
      <4> HIDE DEF h
      <4> QED
        BY <4>1, NoneAssumption
    <3>4. upLock' = [upLock EXCEPT ![opDnp[o]] = h]
      BY <3>1 DEF Lock
    <3> HIDE DEF h
    <3>5. TypeOK'
      BY <1>3, <3>1, <3>3, <3>4 DEF SetEnvironmentUp, IndType, TypeOK, OpPhase
    <3>6. \A q \in Req : pc[q] \in {"starting", "undoing"} => Cur(q) \in Dnp /\ Cur(q) # opDnp[o]
      BY <2>3, CurFacts DEF CanLock, IndType, HolderOK, Flagged
    <3>7. HolderOK'
      BY <1>3, <2>1, <2>3, <3>1, <3>3, <3>4, <3>6
      DEF SetEnvironmentUp, CanLock, IndType, TypeOK, HolderOK, Cur
    <3> QED
      BY <1>1, <3>5, <3>7 DEF IndType
  <2> QED
    BY <2>2, <2>3
<1>4. CASE SetEnvironmentDone(o) \/ SetEnvironmentFails(o)
  <2>1. /\ opDnp[o] \in Dnp /\ op[o] = "envUp"
        /\ upLock[opDnp[o]] \in Holder /\ upLock[opDnp[o]].by = o
    BY <1>4 DEF SetEnvironmentDone, SetEnvironmentFails, IndType, TypeOK, HolderOK
  <2> DEFINE f == upLock[opDnp[o]].from
             b == upLock[opDnp[o]].start
             c == container[opDnp[o]]
  <2>2. /\ Upped(f, c, b) \in Container
        /\ HalfUpped(f, c) \subseteq Container \cup {None}
    BY <2>1, UppedType DEF Holder
  <2>3. PICK e \in {Upped(f, c, b)} \cup HalfUpped(f, c) :
          container' = [container EXCEPT ![opDnp[o]] = e]
    BY <1>4 DEF SetEnvironmentDone, SetEnvironmentFails
  <2>4. PICK end \in {"done", "failed"} : op' = [op EXCEPT ![o] = end]
    BY <1>4 DEF SetEnvironmentDone, SetEnvironmentFails
  <2>5. /\ upLock' = [upLock EXCEPT ![opDnp[o]] = None]
        /\ UNCHANGED <<reqVars, installing, diskVars, opDnp, history>>
    BY <1>4 DEF SetEnvironmentDone, SetEnvironmentFails, Unlock
  <2>6. container' \in [Dnp -> Container \cup {None}]
    BY <2>2, <2>3 DEF IndType, TypeOK
  <2>7. TypeOK'
    BY <2>4, <2>5, <2>6 DEF IndType, TypeOK, OpPhase
  <2>8. \A q \in Req : pc[q] \in {"starting", "undoing"} => Cur(q) \in Dnp /\ Cur(q) # opDnp[o]
    BY <2>1, CurFacts, OpAssumption DEF IndType, HolderOK, Flagged, Op
  <2>9. HolderOK'
    BY <2>1, <2>4, <2>5, <2>8 DEF IndType, TypeOK, HolderOK, Cur
  <2> QED
    BY <1>1, <2>7, <2>9 DEF IndType
<1>5. CASE Remove(o)
  <2>1. PICK d \in Dnp : /\ container' = [container EXCEPT ![d] = None]
                         /\ opDnp' = [opDnp EXCEPT ![o] = d]
    BY <1>5 DEF Remove
  <2>2. TypeOK'
    BY <1>5, <2>1 DEF Remove, IndType, TypeOK, OpPhase
  <2>3. HolderOK'
    BY <1>5, <2>1 DEF Remove, IndType, TypeOK, HolderOK, Cur
  <2> QED
    BY <1>1, <2>2, <2>3 DEF IndType
<1>6. CASE RemoveFiles(o)
  <2>1. TypeOK'
    BY <1>6 DEF RemoveFiles, IndType, TypeOK, OpPhase
  <2>2. HolderOK'
    BY <1>6 DEF RemoveFiles, IndType, TypeOK, HolderOK, Cur
  <2> QED
    BY <1>1, <2>1, <2>2 DEF IndType
<1> QED
  BY <1>2, <1>3, <1>4, <1>5, <1>6 DEF Call

\* A package taken down under the lock: the holder stays the same.
LEMMA RecreateType ==
  ASSUME IndType, NEW d \in Dnp, Recreate(d)
  PROVE  IndType'
<1> USE DEF planVars, reqVars, diskVars, opVars
<1> DEFINE h == [upLock[d] EXCEPT !.from = compose[d], !.start = TRUE,
                                  !.again = TRUE]
<1>1. upLock[d] \in Holder /\ upLock[d] # None /\ compose[d] \in Content
  BY DEF Recreate, IndType, TypeOK
<1>2. h \in Holder /\ h.by = upLock[d].by
  BY <1>1 DEF Holder
<1>3. /\ upLock' = [upLock EXCEPT ![d] = h]
      /\ container' = [container EXCEPT ![d] = None]
      /\ recreated' = recreated \cup {d}
      /\ UNCHANGED <<reqVars, installing, diskVars, opVars, hadCompose>>
  BY DEF Recreate
<1> HIDE DEF h
<1>4. h # None
  BY <1>2, NoneAssumption
<1>5. TypeOK'
  BY <1>2, <1>3 DEF IndType, TypeOK
<1>6. HolderOK'
  <2>1. \A q \in Req : pc[q] \in {"starting", "undoing"} => Cur(q) \in Dnp
    BY CurFacts DEF Flagged
  <2>2. \A e \in Dnp : upLock[e] # None =>
          upLock'[e] # None /\ upLock'[e].by = upLock[e].by
    BY <1>1, <1>2, <1>3, <1>4 DEF IndType, TypeOK
  <2> QED
    BY <1>3, <2>1, <2>2 DEF IndType, HolderOK, Cur
<1>7. PlanOK' /\ IdxOK'
  BY <1>3 DEF IndType, PlanOK, IdxOK
<1> QED
  BY <1>5, <1>6, <1>7 DEF IndType

LEMMA ProcessType ==
  ASSUME IndType, FlagExpires \/ Crash \/ UNCHANGED vars
  PROVE  IndType'
<1> USE DEF planVars, reqVars, procVars, diskVars, opVars
<1>1. CASE FlagExpires
  BY <1>1 DEF FlagExpires, IndType, TypeOK, PlanOK, IdxOK, HolderOK, Cur
<1>2. CASE Crash
  <2>1. TypeOK'
    BY <1>2 DEF Crash, IndType, TypeOK, Phase, Ended, OpPhase
  <2>2. PlanOK' /\ IdxOK'
    BY <1>2 DEF Crash, IndType, TypeOK, PlanOK, IdxOK, Flagged, Ended
  <2>3. HolderOK'
    BY <1>2 DEF Crash, IndType, TypeOK, HolderOK, Ended
  <2> QED
    BY <2>1, <2>2, <2>3 DEF IndType
<1>3. CASE UNCHANGED vars
  BY <1>3 DEF vars, IndType, TypeOK, PlanOK, IdxOK, HolderOK, Cur
<1> QED
  BY <1>1, <1>2, <1>3

LEMMA TypeStep == IndType /\ [Next]_vars => IndType'
<1> SUFFICES ASSUME IndType, [Next]_vars
             PROVE  IndType'
  OBVIOUS
<1>1. ASSUME NEW r \in Req, Install(r)
      PROVE  IndType'
  BY <1>1, ResolutionType, PreparationType, RunType, UndoType, CleanType DEF Install
<1>2. ASSUME NEW o \in Op, Call(o)
      PROVE  IndType'
  BY <1>2, CallType
<1> QED
  BY <1>1, <1>2, RecreateType, ProcessType DEF Next

\* The type invariant and what it rests on
THEOREM IndTypeInvariant == Spec => []IndType
<1>1. Init => IndType
  BY InitType
<1>2. IndType /\ [Next]_vars => IndType'
  BY TypeStep
<1> QED
  BY <1>1, <1>2, PTL DEF Spec

\* Every variable keeps its type, whatever fails and in whatever order.
THEOREM TypeCorrect == Spec => []TypeOK
<1>1. IndType => TypeOK
  BY DEF IndType
<1> QED
  BY <1>1, IndTypeInvariant, PTL
=============================================================================

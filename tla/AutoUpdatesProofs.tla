-------------------------- MODULE AutoUpdatesProofs --------------------------
(***************************************************************************)
(* Proofs about AutoUpdates, for any packages, versions and delays.        *)
(***************************************************************************)
EXTENDS AutoUpdates, TLAPS

\* A tick keeps a counter of ticks in its range.
LEMMA TickFacts ==
  ASSUME NEW t \in 0..MinDelay, NEW w \in 0..MaxDelay
  PROVE  Later(t) \in 0..MinDelay /\ Sooner(w) \in 0..MaxDelay
BY DelayAssumption DEF Later, Sooner

\* The name a round is at is one it has to do.
LEMMA CurFacts ==
  ASSUME TypeOK, daemon \in {"decide", "resolve", "resolved", "install"}
  PROVE  cur \in todo /\ cur \in Name
BY DEF TypeOK

\* The round stays well-formed when it goes on with the next name.
LEMMA DoneFacts ==
  ASSUME TypeOK, NEW n \in todo, Done(n)
  PROVE  /\ todo' \subseteq Name /\ from' \in [Name -> Version]
         /\ daemon' \in {"sleep", "check"}
         /\ daemon' = "sleep" <=> todo' = {}
         /\ cur' = None /\ seen' = 0 /\ target' = 0
         /\ 0 \in Version
<1>1. 0 \in Version
  BY BoundAssumption DEF Version
<1>2. todo' = {} <=> todo = {n}
  BY DEF Done
<1> QED
  BY <1>1, <1>2 DEF TypeOK, Done, NoTask

-----------------------------------------------------------------------------
(* Types *)

LEMMA TypeInit == Init => TypeOK
<1> SUFFICES ASSUME Init PROVE TypeOK
  OBVIOUS
<1>1. 0 \in Version /\ 1 \in Version
  BY BoundAssumption DEF Version
<1>2. 0 \in 0..MinDelay /\ 0 \in 0..MaxDelay /\ 0 \in 0..MaxRestarts
  BY BoundAssumption, DelayAssumption
<1>3. slot \in [Name -> [version : Version, wait : 0..MaxDelay]]
  BY <1>1, <1>2 DEF Init, NoSlot
<1>4. age \in [Name -> [Version -> 0..MinDelay]] /\ on \in [Name -> 0..MinDelay]
  BY <1>2 DEF Init
<1>5. settings \in [SettingId -> {"unset", "on", "off"}]
  BY DEF Init
<1> QED
  BY <1>1, <1>2, <1>3, <1>4, <1>5 DEF Init, TypeOK

LEMMA TypeWorld == TypeOK /\ World => TypeOK'
<1> SUFFICES ASSUME TypeOK, World PROVE TypeOK'
  OBVIOUS
<1>1. ASSUME NEW n \in Name, Publish(n) PROVE TypeOK'
  <2>1. latest[n] + 1 \in Version
    <3>1. latest[n] \in Nat /\ latest[n] < MaxVersion
      BY <1>1, BoundAssumption DEF Publish, TypeOK, Version
    <3> QED
      BY <3>1, BoundAssumption DEF Version
  <2> QED
    BY <1>1, <2>1
       DEF Publish, TypeOK, marketVars, dbVars, roundVars, taskVars
<1>2. ASSUME Tick PROVE TypeOK'
  <2>1. age' \in [Name -> [Version -> 0..MinDelay]]
    <3> SUFFICES ASSUME NEW n \in Name, NEW v \in Version
                 PROVE  (IF v <= latest[n] THEN Later(age[n][v]) ELSE 0)
                          \in 0..MinDelay
      BY <1>2 DEF Tick
    <3>1. age[n][v] \in 0..MinDelay
      BY DEF TypeOK
    <3> QED
      BY <3>1, DelayAssumption DEF Later
  <2>2. on' \in [Name -> 0..MinDelay]
    <3> SUFFICES ASSUME NEW n \in Name
                 PROVE  (IF Enabled(n) THEN Later(on[n]) ELSE 0) \in 0..MinDelay
      BY <1>2 DEF Tick
    <3>1. on[n] \in 0..MinDelay
      BY DEF TypeOK
    <3> QED
      BY <3>1, DelayAssumption DEF Later
  <2>3. slot' \in [Name -> [version : Version, wait : 0..MaxDelay]]
    <3> SUFFICES ASSUME NEW n \in Name
                 PROVE  [slot[n] EXCEPT !.wait = Sooner(@)]
                          \in [version : Version, wait : 0..MaxDelay]
      BY <1>2 DEF Tick
    <3>1. slot[n] \in [version : Version, wait : 0..MaxDelay]
      BY DEF TypeOK
    <3>2. Sooner(slot[n].wait) \in 0..MaxDelay
      BY <3>1, DelayAssumption DEF Sooner
    <3> QED
      BY <3>1, <3>2
  <2> QED
    BY <1>2, <2>1, <2>2, <2>3 DEF Tick, TypeOK, roundVars, taskVars
<1> QED
  BY <1>1, <1>2 DEF World

\* The history of a change of the settings.
LEMMA EditFacts ==
  ASSUME TypeOK, EditHistory
  PROVE  on' \in [Name -> 0..MinDelay]
BY DelayAssumption DEF TypeOK, EditHistory

LEMMA TypeUser == TypeOK /\ User => TypeOK'
<1> SUFFICES ASSUME TypeOK, User PROVE TypeOK'
  OBVIOUS
<1>0. /\ NoSlot \in [version : Version, wait : 0..MaxDelay]
      /\ 0 \in Version /\ Dnp \subseteq Name /\ Name \subseteq SettingId
      /\ Core \in Name
  BY BoundAssumption, DelayAssumption DEF NoSlot, Version, Name, SettingId
<1> USE DEF marketVars, dbVars, roundVars, taskVars
<1>1. ASSUME NEW d \in Dnp, NEW e \in {"on", "off"}, EditDnp(d, e)
      PROVE  TypeOK'
  <2>1. on' \in [Name -> 0..MinDelay]
    BY <1>1, EditFacts DEF EditDnp
  <2> QED
    BY <1>0, <1>1, <2>1 DEF EditDnp, TypeOK
<1>2. ASSUME NEW e \in {"on", "off"}, EditMyPackages(e) PROVE TypeOK'
  <2>1. on' \in [Name -> 0..MinDelay]
    BY <1>2, EditFacts DEF EditMyPackages
  <2> QED
    BY <1>0, <1>2, <2>1 DEF EditMyPackages, TypeOK
<1>3. ASSUME NEW e \in {"on", "off"}, editCoreSetting(e) PROVE TypeOK'
  <2>1. on' \in [Name -> 0..MinDelay]
    BY <1>3, EditFacts DEF editCoreSetting
  <2> QED
    BY <1>0, <1>3, <2>1 DEF editCoreSetting, TypeOK
<1>4. ASSUME NEW n \in Name, NEW v \in Version, UserInstall(n, v)
      PROVE  TypeOK'
  BY <1>4 DEF UserInstall, ClearRegistry, TypeOK
<1>5. ASSUME NEW d \in Dnp, Remove(d) PROVE TypeOK'
  BY <1>0, <1>5 DEF Remove, TypeOK
<1>6. ASSUME NEW d \in Dnp, RemovedEvent(d) PROVE TypeOK'
  BY <1>0, <1>6 DEF RemovedEvent, ClearRegistry, TypeOK
<1> QED
  BY <1>1, <1>2, <1>3, <1>4, <1>5, <1>6 DEF User

\* Whatever flagCompletedUpdate writes are entries of the two stores.
LEMMA CompletedFacts ==
  ASSUME TypeOK, NEW n \in Name, NEW v \in Version, NEW reg \in SUBSET Version,
         flagCompletedUpdate(n, v, reg)
  PROVE  /\ registry' \in [Name -> SUBSET Version]
         /\ slot' \in [Name -> [version : Version, wait : 0..MaxDelay]]
<1>1. NoSlot \in [version : Version, wait : 0..MaxDelay]
  BY BoundAssumption, DelayAssumption DEF NoSlot, Version
<1> QED
  BY <1>1 DEF TypeOK, flagCompletedUpdate

LEMMA TypeRound == TypeOK /\ Round => TypeOK'
<1> SUFFICES ASSUME TypeOK, Round PROVE TypeOK'
  OBVIOUS
<1>0. /\ 0 \in Version /\ Dnp \subseteq Name /\ Core \in Name
      /\ None \notin Name
  BY BoundAssumption, NameAssumption DEF Version, Name
<1>a. ASSUME daemon \in {"decide", "resolve", "resolved", "install"}
      PROVE  cur \in todo /\ cur \in Name /\ installed[cur] \in Version
             /\ registry[cur] \in SUBSET Version
  BY <1>a, CurFacts DEF TypeOK
<1> USE DEF marketVars, dbVars, roundVars, taskVars
<1>1. ASSUME NEW ds \in SUBSET Dnp, Begin(ds) PROVE TypeOK'
  <2>1. cur = None
    BY <1>1 DEF Begin, TypeOK
  <2>2. todo' # {} /\ todo' \subseteq Name /\ from' \in [Name -> Version]
    BY <1>0, <1>1 DEF Begin, TypeOK
  <2> QED
    BY <1>1, <2>1, <2>2 DEF Begin, TypeOK
<1>2. ASSUME NEW n \in todo, Done(n),
             UNCHANGED <<marketVars, installed, dbVars, removing, booted,
                         restarts, on>>,
             crossed' \subseteq crossed
      PROVE  TypeOK'
  BY <1>2, DoneFacts DEF TypeOK
<1>3. ASSUME NEW n \in Name, Check(n) PROVE TypeOK'
  <2>1. n \in todo /\ n # None
    BY <1>0, <1>3 DEF Check, Turn
  <2>2. CASE Done(n)
    BY <1>2, <1>3, <2>1, <2>2 DEF Check
  <2>3. CASE ~Done(n)
    <3> DEFINE now == IF n = Core THEN installed[n] ELSE from[n]
    <3>1. now \in Version /\ latest[n] \in Version
      BY DEF TypeOK
    <3>2. /\ daemon = "check" /\ daemon' = "decide" /\ cur' = n
          /\ seen' = latest[n] /\ from' = [from EXCEPT ![n] = now]
          /\ UNCHANGED <<todo, target>>
          /\ UNCHANGED <<marketVars, installed, dbVars, removing, booted,
                         restarts, on, crossed>>
      BY <1>3, <2>3 DEF Check
    <3>3. from' \in [Name -> Version]
      BY <3>1, <3>2 DEF TypeOK
    <3> HIDE DEF now
    <3> QED
      BY <1>0, <2>1, <3>1, <3>2, <3>3 DEF TypeOK
  <2> QED
    BY <2>2, <2>3
<1>4. ASSUME NEW n \in Name, CheckFails(n) PROVE TypeOK'
  BY <1>2, <1>4 DEF CheckFails, Turn
<1>5. ASSUME NotifyFails \/ Skip \/ ResolveFails PROVE TypeOK'
  BY <1>2, <1>5, <1>a DEF NotifyFails, Skip, ResolveFails, NotCompleted
<1>6. ASSUME Record PROVE TypeOK'
  <2>1. cur \in todo /\ Done(cur) /\ daemon = "decide"
    BY <1>6, <1>a DEF Record
  <2>2. slot' \in [Name -> [version : Version, wait : 0..MaxDelay]]
    <3>1. PICK w \in MinDelay..MaxDelay :
            slot' = [slot EXCEPT ![cur] = [version |-> seen, wait |-> w]]
      BY <1>6 DEF Record
    <3>2. w \in 0..MaxDelay /\ seen \in Version
      BY DelayAssumption DEF TypeOK
    <3> QED
      BY <3>1, <3>2 DEF TypeOK
  <2> QED
    BY <1>6, <2>1, <2>2, DoneFacts DEF Record, TypeOK
<1>7. ASSUME Authorize PROVE TypeOK'
  BY <1>7, <1>a DEF Authorize, TypeOK
<1>8. ASSUME ReadInstalled \/ Resolve PROVE TypeOK'
  <2>1. CASE ReadInstalled
    <3>1. target' \in Version
      BY <1>0, <1>a, <2>1 DEF ReadInstalled, TypeOK
    <3> QED
      BY <1>a, <2>1, <3>1 DEF ReadInstalled, TypeOK
  <2>2. CASE Resolve
    BY <1>a, <2>2 DEF Resolve, TypeOK
  <2> QED
    BY <1>8, <2>1, <2>2
<1>9. ASSUME ResolveNothing PROVE TypeOK'
  <2>1. cur \in todo /\ Done(cur)
    BY <1>9, <1>a DEF ResolveNothing
  <2>2. /\ registry' \in [Name -> SUBSET Version]
        /\ slot' \in [Name -> [version : Version, wait : 0..MaxDelay]]
    <3>1. seen \in Version
      BY DEF TypeOK
    <3> QED
      BY <1>9, <1>a, <3>1, CompletedFacts DEF ResolveNothing
  <2> QED
    BY <1>9, <2>1, <2>2, DoneFacts DEF ResolveNothing, TypeOK
<1>10. ASSUME InstallOK PROVE TypeOK'
  <2>1. cur \in todo /\ Done(cur)
    BY <1>10, <1>a DEF InstallOK
  <2>2. /\ registry' \in [Name -> SUBSET Version]
        /\ slot' \in [Name -> [version : Version, wait : 0..MaxDelay]]
    <3>1. seen \in Version
      BY DEF TypeOK
    <3> QED
      BY <1>10, <1>a, <3>1, CompletedFacts DEF InstallOK
  <2>3. installed' \in [Name -> Version]
    BY <1>10 DEF InstallOK, TypeOK
  <2> QED
    BY <1>10, <2>1, <2>2, <2>3, DoneFacts DEF InstallOK, TypeOK
<1>11. ASSUME InstallFails PROVE TypeOK'
  <2>1. cur \in todo /\ Done(cur)
    BY <1>11, <1>a DEF InstallFails
  <2>2. /\ installed' \in [Name -> Version]
        /\ registry' \in [Name -> SUBSET Version]
    BY <1>11 DEF InstallFails, ClearRegistry, TypeOK
  <2> QED
    BY <1>11, <2>1, <2>2, DoneFacts DEF InstallFails, ClearRegistry, TypeOK
<1>12. ASSUME Wake \/ WakeFails PROVE TypeOK'
  <2>1. CASE Begin({d \in Dnp : installed[d] # 0})
    <3>1. {d \in Dnp : installed[d] # 0} \in SUBSET Dnp
      OBVIOUS
    <3> QED
      BY <1>1, <2>1, <3>1
  <2>2. CASE Begin({})
    BY <1>1, <2>2
  <2> QED
    BY <1>12, <2>1, <2>2 DEF Wake, WakeFails
<1> QED
  BY <1>3, <1>4, <1>5, <1>6, <1>7, <1>8, <1>9, <1>10, <1>11, <1>12 DEF Round

LEMMA TypeProcess == TypeOK /\ Process => TypeOK'
<1> SUFFICES ASSUME TypeOK, Process PROVE TypeOK'
  OBVIOUS
<1>0. 0 \in Version /\ Core \in Name /\ None \notin Name
  BY BoundAssumption, NameAssumption DEF Version, Name
<1> USE DEF marketVars, dbVars, roundVars, taskVars
<1>1. CASE CoreRestart
  BY <1>0, <1>1 DEF CoreRestart, Reboot, NoTask, TypeOK
<1>2. CASE Restart
  <2>1. restarts' \in 0..MaxRestarts
    BY <1>2, BoundAssumption DEF Restart, TypeOK
  <2> QED
    BY <1>0, <1>2, <2>1 DEF Restart, Reboot, NotCompleted, NoTask, TypeOK
<1>3. CASE clearCompletedCoreUpdatesIfAny
  <2>1. /\ registry' \in [Name -> SUBSET Version]
        /\ slot' \in [Name -> [version : Version, wait : 0..MaxDelay]]
    <3>1. slot[Core].version \in Version /\ registry[Core] \in SUBSET Version
      BY <1>0 DEF TypeOK
    <3>2. CASE flagCompletedUpdate(Core, slot[Core].version, registry[Core])
      BY <1>0, <3>1, <3>2, CompletedFacts
    <3>3. CASE UNCHANGED <<slot, registry>>
      BY <3>3 DEF TypeOK
    <3> QED
      BY <1>3, <3>2, <3>3 DEF clearCompletedCoreUpdatesIfAny
  <2> QED
    BY <1>3, <2>1 DEF clearCompletedCoreUpdatesIfAny, TypeOK
<1> QED
  BY <1>1, <1>2, <1>3 DEF Process

LEMMA TypeNext == TypeOK /\ [Next]_vars => TypeOK'
<1>1. TypeOK /\ UNCHANGED vars => TypeOK'
  BY DEF TypeOK, vars, marketVars, dbVars, roundVars, taskVars
<1> QED
  BY <1>1, TypeWorld, TypeUser, TypeRound, TypeProcess DEF Next

\* The database, the round and the installed versions keep their types, for
\* any number of packages and versions and any delay.
THEOREM TypeCorrect == Spec => []TypeOK
BY TypeInit, TypeNext, PTL DEF Spec

-----------------------------------------------------------------------------
(***************************************************************************)
(* The delay.  What a slot still has to wait makes up for what the version *)
(* and the settings are short of the minimal delay.                        *)
(***************************************************************************)

SlotOK(n) ==
  slot[n].version # 0 => /\ Enabled(n)
                         /\ slot[n].version <= latest[n]
                         /\ age[n][slot[n].version] + slot[n].wait >= MinDelay
                         /\ on[n] + slot[n].wait >= MinDelay

SlotInv == \A n \in Name : SlotOK(n)

\* The round decides on a version that is published and installs the one it
\* authorized, unless it is the core's.
TaskInv ==
  /\ daemon = "decide" => seen # 0 /\ seen <= latest[cur]
  /\ daemon = "install" /\ cur # Core => target = seen
  /\ daemon = "resolved" /\ cur # Core => target \in {0, seen}

DelayInv == TypeOK /\ SlotInv /\ TaskInv

LEMMA SlotTypes ==
  ASSUME TypeOK, NEW n \in Name
  PROVE  /\ slot[n].version \in Version /\ slot[n].wait \in 0..MaxDelay
         /\ age[n][slot[n].version] \in 0..MinDelay /\ on[n] \in 0..MinDelay
         /\ latest[n] \in Version
BY DEF TypeOK

\* A slot that is not written keeps its promise while the settings, the
\* publications and the clocks stay as they are.
LEMMA SlotKept ==
  ASSUME SlotInv, NEW n \in Name, UNCHANGED <<marketVars, settings, on>>,
         slot'[n] = slot[n] \/ slot'[n].version = 0
  PROVE  SlotOK(n)'
BY DEF SlotInv, SlotOK, Enabled, EnabledIn, marketVars

\* A step that clears one slot clears nothing else.
LEMMA SlotCleared ==
  ASSUME TypeOK, NEW d \in Name, slot' = [slot EXCEPT ![d] = NoSlot],
         NEW n \in Name
  PROVE  slot'[n] = slot[n] \/ slot'[n].version = 0
BY DEF TypeOK, NoSlot

LEMMA SlotWorld == TypeOK /\ SlotInv /\ World => SlotInv'
<1> SUFFICES ASSUME TypeOK, SlotInv, World, NEW n \in Name PROVE SlotOK(n)'
  BY DEF SlotInv
<1>0. SlotOK(n)
  BY DEF SlotInv
<1>1. ASSUME NEW m \in Name, Publish(m) PROVE SlotOK(n)'
  <2>1. latest'[n] \in {latest[n], latest[n] + 1}
    BY <1>1 DEF Publish, TypeOK
  <2>2. slot[n].version \in Nat /\ latest[n] \in Nat
    BY SlotTypes DEF Version
  <2> QED
    BY <1>0, <1>1, <2>1, <2>2
       DEF Publish, SlotOK, Enabled, EnabledIn, dbVars
<1>2. ASSUME Tick PROVE SlotOK(n)'
  <2>1. /\ slot'[n].version = slot[n].version
        /\ slot'[n].wait = Sooner(slot[n].wait)
        /\ UNCHANGED <<latest, settings>>
    BY <1>2 DEF Tick, TypeOK
  <2> SUFFICES ASSUME slot[n].version # 0
               PROVE  /\ Enabled(n)' /\ slot[n].version <= latest[n]
                      /\ age'[n][slot[n].version] + slot'[n].wait >= MinDelay
                      /\ on'[n] + slot'[n].wait >= MinDelay
    BY <2>1 DEF SlotOK
  <2>2. Enabled(n) /\ slot[n].version <= latest[n]
    BY <1>0 DEF SlotOK
  <2>3. slot[n].version \in Version
    BY SlotTypes
  <2>4. /\ age'[n][slot[n].version] = Later(age[n][slot[n].version])
        /\ on'[n] = Later(on[n])
    BY <1>2, <2>2, <2>3 DEF Tick
  <2>5. /\ slot[n].wait \in Nat /\ on[n] \in Nat
        /\ age[n][slot[n].version] \in Nat
    BY SlotTypes, DelayAssumption
  <2>6. /\ age[n][slot[n].version] + slot[n].wait >= MinDelay
        /\ on[n] + slot[n].wait >= MinDelay
    BY <1>0 DEF SlotOK
  <2>7. /\ Later(age[n][slot[n].version]) + Sooner(slot[n].wait) >= MinDelay
        /\ Later(on[n]) + Sooner(slot[n].wait) >= MinDelay
    BY <2>5, <2>6, DelayAssumption DEF Later, Sooner
  <2> QED
    BY <2>1, <2>2, <2>4, <2>7 DEF Enabled, EnabledIn
<1> QED
  BY <1>1, <1>2 DEF World

\* A slot keeps its promise when the settings change, if it stays only while
\* its name stays enabled.
LEMMA SlotEdited ==
  ASSUME TypeOK, SlotInv, NEW n \in Name, EditHistory, UNCHANGED marketVars,
         \/ slot'[n].version = 0
         \/ slot'[n] = slot[n] /\ (Enabled(n) => Enabled(n)')
  PROVE  SlotOK(n)'
<1>1. Enabled(n)' => on'[n] = on[n]
  BY DEF EditHistory, Enabled
<1> QED
  BY <1>1 DEF SlotInv, SlotOK, marketVars

LEMMA SlotUser == TypeOK /\ SlotInv /\ User => SlotInv'
<1> SUFFICES ASSUME TypeOK, SlotInv, User, NEW n \in Name PROVE SlotOK(n)'
  BY DEF SlotInv
<1>0. /\ Dnp \subseteq Name /\ Name \subseteq SettingId /\ Core \in Name
      /\ MY \notin Name /\ Core \notin Dnp /\ MY \in SettingId /\ MY # Core
  BY NameAssumption DEF Name, SettingId, MY, Core
<1>1. ASSUME NEW d \in Dnp, NEW e \in {"on", "off"}, EditDnp(d, e)
      PROVE  SlotOK(n)'
  <2>1. slot'[n].version = 0 \/ (slot'[n] = slot[n] /\ (e = "off" => n # d))
    BY <1>0, <1>1 DEF EditDnp, TypeOK, NoSlot
  <2>2. e = "on" \/ n # d => (Enabled(n) => Enabled(n)')
    BY <1>0, <1>1 DEF EditDnp, Enabled, EnabledIn, TypeOK
  <2> QED
    BY <1>1, <2>1, <2>2, SlotEdited DEF EditDnp
<1>2. ASSUME NEW e \in {"on", "off"}, EditMyPackages(e) PROVE SlotOK(n)'
  <2>1. \/ slot'[n].version = 0
        \/ slot'[n] = slot[n] /\ (e = "on" \/ n = Core)
    BY <1>2 DEF EditMyPackages, NoSlot
  <2>2. e = "on" \/ n = Core => (Enabled(n) => Enabled(n)')
    BY <1>0, <1>2 DEF EditMyPackages, Enabled, EnabledIn
  <2> QED
    BY <1>2, <2>1, <2>2, SlotEdited DEF EditMyPackages
<1>3. ASSUME NEW e \in {"on", "off"}, editCoreSetting(e) PROVE SlotOK(n)'
  <2>1. slot'[n].version = 0 \/ (slot'[n] = slot[n] /\ (e = "off" => n # Core))
    BY <1>0, <1>3 DEF editCoreSetting, TypeOK, NoSlot
  <2>2. e = "on" \/ n # Core => (Enabled(n) => Enabled(n)')
    BY <1>0, <1>3 DEF editCoreSetting, Enabled, EnabledIn, TypeOK
  <2> QED
    BY <1>3, <2>1, <2>2, SlotEdited DEF editCoreSetting
<1>4. ASSUME NEW m \in Name, NEW v \in Version, UserInstall(m, v)
      PROVE  SlotOK(n)'
  BY <1>4, SlotKept DEF UserInstall, ClearRegistry
<1>5. ASSUME NEW d \in Dnp, Remove(d) PROVE SlotOK(n)'
  BY <1>5, SlotKept DEF Remove, dbVars
<1>6. ASSUME NEW d \in Dnp, RemovedEvent(d) PROVE SlotOK(n)'
  BY <1>0, <1>6, SlotKept, SlotCleared DEF RemovedEvent
<1> QED
  BY <1>1, <1>2, <1>3, <1>4, <1>5, <1>6 DEF User

LEMMA SlotRound == DelayInv /\ Round => SlotInv'
<1> SUFFICES ASSUME DelayInv, Round, NEW n \in Name PROVE SlotOK(n)'
  BY DEF SlotInv
<1> USE DEF DelayInv
<1>a. daemon \in {"decide", "resolve", "resolved", "install"} => cur \in Name
  BY CurFacts
<1>1. ASSUME UNCHANGED <<marketVars, dbVars, on>> PROVE SlotOK(n)'
  BY <1>1, SlotKept DEF dbVars
<1>2. ASSUME Record PROVE SlotOK(n)'
  <2>1. PICK w \in MinDelay..MaxDelay :
          slot' = [slot EXCEPT ![cur] = [version |-> seen, wait |-> w]]
    BY <1>2 DEF Record
  <2>2. UNCHANGED <<marketVars, settings, on>>
    BY <1>2 DEF Record
  <2>3. CASE n # cur
    BY <2>1, <2>2, <2>3, SlotKept DEF TypeOK
  <2>4. CASE n = cur
    <3>1. slot'[n].version = seen /\ slot'[n].wait = w /\ seen <= latest[n]
          /\ Enabled(n)
      BY <1>2, <2>1, <2>4 DEF Record, TypeOK, TaskInv
    <3>2. seen \in Version
      BY DEF TypeOK
    <3>3. age[n][seen] \in 0..MinDelay /\ on[n] \in 0..MinDelay
      BY <3>2 DEF TypeOK
    <3>4. age[n][seen] + w >= MinDelay /\ on[n] + w >= MinDelay
      BY <3>3, DelayAssumption
    <3> QED
      BY <2>2, <3>1, <3>4 DEF SlotOK, Enabled, EnabledIn, marketVars
  <2> QED
    BY <2>3, <2>4
<1>3. ASSUME ResolveNothing \/ InstallOK PROVE SlotOK(n)'
  <2>1. slot' = [slot EXCEPT ![cur] = NoSlot]
    BY <1>3 DEF ResolveNothing, InstallOK, flagCompletedUpdate
  <2> QED
    BY <1>3, <1>a, <2>1, SlotKept, SlotCleared DEF ResolveNothing, InstallOK
<1>4. ASSUME InstallFails PROVE SlotOK(n)'
  BY <1>4, SlotKept DEF InstallFails
<1>5. ASSUME NEW m \in Name, Check(m) \/ CheckFails(m) PROVE SlotOK(n)'
  BY <1>1, <1>5 DEF Check, CheckFails
<1>6. ASSUME Wake \/ WakeFails PROVE SlotOK(n)'
  BY <1>1, <1>6 DEF Wake, WakeFails, Begin
<1>7. ASSUME \/ NotifyFails \/ Skip \/ Authorize \/ ReadInstalled \/ Resolve
             \/ ResolveFails
      PROVE  SlotOK(n)'
  BY <1>1, <1>7
     DEF NotifyFails, Skip, Authorize, ReadInstalled, Resolve, ResolveFails
<1> QED
  BY <1>2, <1>3, <1>4, <1>5, <1>6, <1>7 DEF Round

LEMMA SlotProcess == TypeOK /\ SlotInv /\ Process => SlotInv'
<1> SUFFICES ASSUME TypeOK, SlotInv, Process, NEW n \in Name PROVE SlotOK(n)'
  BY DEF SlotInv
<1>1. CASE CoreRestart \/ Restart
  BY <1>1, SlotKept DEF CoreRestart, Restart, dbVars
<1>2. CASE clearCompletedCoreUpdatesIfAny
  <2>1. slot'[n] = slot[n] \/ slot'[n].version = 0
    BY <1>2, SlotCleared
       DEF clearCompletedCoreUpdatesIfAny, flagCompletedUpdate, Name
  <2> QED
    BY <1>2, <2>1, SlotKept DEF clearCompletedCoreUpdatesIfAny
<1> QED
  BY <1>1, <1>2 DEF Process

LEMMA TaskNext == TypeOK /\ TaskInv /\ Next => TaskInv'
<1> SUFFICES ASSUME TypeOK, TaskInv, Next PROVE TaskInv'
  OBVIOUS
<1> USE DEF roundVars, taskVars, marketVars
<1>a. daemon \in {"decide", "resolve", "resolved", "install"} => cur \in todo /\ cur \in Name
  BY CurFacts
<1>1. ASSUME UNCHANGED <<roundVars, latest>> PROVE TaskInv'
  BY <1>1 DEF TaskInv
<1>2. ASSUME NEW n \in todo, Done(n) PROVE TaskInv'
  <2>1. daemon' \in {"sleep", "check"}
    BY <1>2, DoneFacts
  <2> QED
    BY <2>1 DEF TaskInv
<1>3. ASSUME NEW n \in Name, Publish(n) PROVE TaskInv'
  <2>1. daemon = "decide" => latest'[cur] \in {latest[cur], latest[cur] + 1}
    BY <1>3, <1>a DEF Publish, TypeOK
  <2>2. daemon = "decide" => latest[cur] \in Nat /\ seen \in Nat
    BY <1>a, SlotTypes DEF TypeOK, Version
  <2> QED
    BY <1>3, <2>1, <2>2 DEF Publish, TaskInv
<1>4. CASE Tick
  BY <1>1, <1>4 DEF Tick
<1>5. CASE User
  BY <1>1, <1>5 DEF User, EditDnp, EditMyPackages, editCoreSetting, UserInstall,
                    Remove, RemovedEvent
<1>6. ASSUME NEW n \in Name, Check(n) PROVE TaskInv'
  <2>1. CASE Done(n)
    BY <1>2, <1>6, <2>1 DEF Check, Turn
  <2>2. CASE ~Done(n)
    <3> DEFINE now == IF n = Core THEN installed[n] ELSE from[n]
    <3>1. now \in Nat /\ latest[n] \in Nat
      BY DEF TypeOK, Version
    <3>2. /\ daemon' = "decide" /\ cur' = n /\ seen' = latest[n]
          /\ latest[n] > now /\ latest' = latest
      BY <1>6, <2>2 DEF Check
    <3> HIDE DEF now
    <3> QED
      BY <3>1, <3>2 DEF TaskInv
  <2> QED
    BY <2>1, <2>2
<1>7. ASSUME NEW n \in Name, CheckFails(n) PROVE TaskInv'
  BY <1>2, <1>7 DEF CheckFails, Turn
<1>8. CASE \/ NotifyFails \/ Skip \/ Record \/ ResolveNothing \/ ResolveFails
           \/ InstallOK \/ InstallFails
  <2>1. cur \in todo /\ Done(cur)
    BY <1>8, <1>a DEF NotifyFails, Skip, Record, ResolveNothing, ResolveFails,
                      InstallOK, InstallFails
  <2> QED
    BY <1>2, <2>1
<1>9. CASE Wake \/ WakeFails \/ Authorize
  <2>1. daemon' \in {"check", "resolve"}
    BY <1>9 DEF Wake, WakeFails, Begin, Authorize
  <2> QED
    BY <2>1 DEF TaskInv
<1>10. CASE ReadInstalled \/ Resolve
  BY <1>10 DEF ReadInstalled, Resolve, TaskInv
<1>11. CASE CoreRestart \/ Restart
  BY <1>11 DEF CoreRestart, Restart, Reboot, TaskInv
<1>12. CASE clearCompletedCoreUpdatesIfAny
  BY <1>1, <1>12 DEF clearCompletedCoreUpdatesIfAny
<1> QED
  BY <1>3, <1>4, <1>5, <1>6, <1>7, <1>8, <1>9, <1>10, <1>11, <1>12
     DEF Next, World, Round, Process

LEMMA DelayInit == Init => DelayInv
<1> SUFFICES ASSUME Init PROVE DelayInv
  OBVIOUS
<1>1. SlotInv
  BY DEF Init, SlotInv, SlotOK, NoSlot
<1>2. TaskInv
  BY DEF Init, TaskInv
<1> QED
  BY <1>1, <1>2, TypeInit DEF DelayInv

LEMMA DelayNext == DelayInv /\ [Next]_vars => DelayInv'
<1> SUFFICES ASSUME DelayInv, [Next]_vars PROVE DelayInv'
  OBVIOUS
<1> USE DEF DelayInv
<1>1. TypeOK'
  BY TypeNext
<1>2. CASE Next
  BY <1>1, <1>2, SlotWorld, SlotUser, SlotRound, SlotProcess, TaskNext DEF Next
<1>3. CASE UNCHANGED vars
  <2>1. ASSUME NEW n \in Name PROVE SlotOK(n)'
    BY <1>3, SlotKept DEF vars, dbVars
  <2>2. SlotInv'
    BY <2>1 DEF SlotInv
  <2>3. TaskInv'
    BY <1>3 DEF TaskInv, vars, roundVars, taskVars, marketVars
  <2> QED
    BY <1>1, <2>2, <2>3
<1> QED
  BY <1>2, <1>3

LEMMA DelayCorrect == Spec => []DelayInv
BY DelayInit, DelayNext, PTL DEF Spec

\* No slot outlives the setting it was recorded under, whatever is edited,
\* removed or restarted in the middle of a round.
THEOREM PendingInvariant == Spec => []PendingOnlyWhenEnabled
<1>1. DelayInv => PendingOnlyWhenEnabled
  BY DEF DelayInv, SlotInv, SlotOK, PendingOnlyWhenEnabled
<1> QED
  BY <1>1, DelayCorrect, PTL

\* Only Authorize takes the round from its decision to an install.
LEMMA AuthorizeOnly ==
  ASSUME TypeOK, [Next]_vars, daemon = "decide", daemon' = "resolve"
  PROVE  Authorize
<1> USE DEF roundVars, taskVars
<1>1. cur \in todo /\ cur \in Name
  BY CurFacts
<1>2. ASSUME NEW n \in todo, Done(n) PROVE FALSE
  BY <1>2, DoneFacts
<1>3. daemon' # daemon
  OBVIOUS
<1>4. ~UNCHANGED vars
  BY <1>3 DEF vars
<1>5. ~World
  BY <1>3 DEF World, Publish, Tick
<1>6. ~User
  BY <1>3 DEF User, EditDnp, EditMyPackages, editCoreSetting, UserInstall,
              Remove, RemovedEvent
<1>7. ~Process
  BY <1>3 DEF Process, CoreRestart, Restart, Reboot,
              clearCompletedCoreUpdatesIfAny
<1>8. Round
  BY <1>4, <1>5, <1>6, <1>7 DEF Next
<1>9. ~(NotifyFails \/ Skip \/ Record)
  BY <1>1, <1>2 DEF NotifyFails, Skip, Record
<1> QED
  BY <1>8, <1>9 DEF Round, Wake, WakeFails, Begin, Check, CheckFails,
                    ReadInstalled, Resolve, ResolveNothing, ResolveFails,
                    InstallOK, InstallFails

\* The delay cannot be evaded: by a newer version, by switching auto-updates
\* off and on, by a restart or by removing and installing the package again.
THEOREM DelayIsEnforced == Spec => DelayEnforced
<1>1. ASSUME DelayInv, [Next]_vars, daemon = "decide", daemon' = "resolve"
      PROVE  /\ age[cur][seen] = MinDelay /\ on[cur] = MinDelay
             /\ ~Breaking(cur, from[cur], seen)
  <2>1. TypeOK /\ SlotInv /\ TaskInv
    BY <1>1 DEF DelayInv
  <2>2. Authorize
    BY <1>1, <2>1, AuthorizeOnly
  <2>3. cur \in Name /\ seen # 0
    BY <1>1, <2>1, CurFacts DEF TaskInv
  <2>4. slot[cur].version = seen /\ slot[cur].wait = 0
    BY <2>2 DEF Authorize, Due
  <2>5. age[cur][seen] + 0 >= MinDelay /\ on[cur] + 0 >= MinDelay
    BY <2>1, <2>3, <2>4 DEF SlotInv, SlotOK
  <2>6. age[cur][seen] \in 0..MinDelay /\ on[cur] \in 0..MinDelay
    BY <2>1, <2>3, <2>4, SlotTypes
  <2> QED
    BY <2>2, <2>5, <2>6, DelayAssumption DEF Authorize
<1>2. ASSUME DelayInv, [Next]_vars
      PROVE  [(daemon = "decide" /\ daemon' = "resolve")
                => /\ age[cur][seen] = MinDelay
                   /\ on[cur] = MinDelay
                   /\ ~Breaking(cur, from[cur], seen)]_vars
  BY <1>1, <1>2
<1> QED
  BY <1>2, DelayCorrect, PTL DEF Spec, DelayEnforced

-----------------------------------------------------------------------------
(***************************************************************************)
(* Packages that are removed in the middle of a round.                     *)
(***************************************************************************)

\* The event of its removal took the slot of a package that is gone and that
\* the round still has to do.
RemovedOK(d) ==
  d \in todo /\ installed[d] = 0 /\ d \notin removing => slot[d].version = 0

RemovedInv == \A d \in Dnp : RemovedOK(d)

LEMMA RemovedNext == DelayInv /\ RemovedInv /\ [Next]_vars => RemovedInv'
<1> SUFFICES ASSUME DelayInv, RemovedInv, [Next]_vars, NEW d \in Dnp
             PROVE  RemovedOK(d)'
  BY DEF RemovedInv
<1> USE DEF roundVars, taskVars, dbVars, marketVars
<1>0. RemovedOK(d) /\ d \in Name /\ d # Core /\ TypeOK
  BY NameAssumption DEF RemovedInv, Name, DelayInv
<1>a. daemon \in {"decide", "resolve", "resolved", "install"} => cur \in todo /\ cur \in Name
  BY <1>0, CurFacts
<1>1. ASSUME d \in todo' => d \in todo,
             installed'[d] = 0 => installed[d] = 0 \/ d \in removing',
             d \in removing => d \in removing' \/ slot'[d].version = 0,
             slot'[d].version \in {0, slot[d].version}
      PROVE  RemovedOK(d)'
  BY <1>0, <1>1 DEF RemovedOK
<1>2. ASSUME NEW n \in Name, Publish(n) PROVE RemovedOK(d)'
  BY <1>1, <1>2 DEF Publish
<1>3. CASE Tick
  <2>1. slot'[d].version = slot[d].version
    BY <1>0, <1>3 DEF Tick, TypeOK
  <2> QED
    BY <1>1, <1>3, <2>1 DEF Tick
<1>4. CASE User
  <2>1. ASSUME NEW m \in Dnp, NEW e \in {"on", "off"}, EditDnp(m, e)
        PROVE  RemovedOK(d)'
    <3>1. slot'[d].version \in {0, slot[d].version}
      BY <1>0, <2>1 DEF EditDnp, TypeOK, NoSlot
    <3> QED
      BY <1>1, <2>1, <3>1 DEF EditDnp
  <2>2. ASSUME NEW e \in {"on", "off"}, EditMyPackages(e) PROVE RemovedOK(d)'
    <3>1. slot'[d].version \in {0, slot[d].version}
      BY <1>0, <2>2 DEF EditMyPackages, NoSlot
    <3> QED
      BY <1>1, <2>2, <3>1 DEF EditMyPackages
  <2>3. ASSUME NEW e \in {"on", "off"}, editCoreSetting(e) PROVE RemovedOK(d)'
    <3>1. slot'[d] = slot[d]
      BY <1>0, <2>3 DEF editCoreSetting, TypeOK
    <3> QED
      BY <1>1, <2>3, <3>1 DEF editCoreSetting
  <2>4. ASSUME NEW n \in Name, NEW v \in Version, UserInstall(n, v)
        PROVE  RemovedOK(d)'
    <3>1. installed'[d] = 0 => installed[d] = 0
      <4>1. n = d => installed[n] \in Nat /\ v \in Nat /\ installed[n] < v
        BY <1>0, <2>4, BoundAssumption DEF UserInstall, TypeOK, Version
      <4> QED
        BY <1>0, <2>4, <4>1 DEF UserInstall, TypeOK
    <3> QED
      BY <1>1, <2>4, <3>1 DEF UserInstall
  <2>5. ASSUME NEW m \in Dnp, Remove(m) PROVE RemovedOK(d)'
    BY <1>0, <1>1, <2>5 DEF Remove, TypeOK
  <2>6. ASSUME NEW m \in Dnp, RemovedEvent(m) PROVE RemovedOK(d)'
    <3>1. CASE m = d
      BY <1>0, <2>6, <3>1 DEF RemovedEvent, RemovedOK, TypeOK, NoSlot
    <3>2. CASE m # d
      <4>1. slot'[d] = slot[d]
        BY <1>0, <2>6, <3>2 DEF RemovedEvent, TypeOK
      <4> QED
        BY <1>1, <2>6, <3>2, <4>1 DEF RemovedEvent
    <3> QED
      BY <3>1, <3>2
  <2> QED
    BY <1>4, <2>1, <2>2, <2>3, <2>4, <2>5, <2>6 DEF User
<1>5. ASSUME Wake \/ WakeFails PROVE RemovedOK(d)'
  <2>1. d \in todo' => installed[d] # 0
    BY <1>0, <1>5 DEF Wake, WakeFails, Begin
  <2> QED
    BY <1>5, <2>1 DEF Wake, WakeFails, Begin, RemovedOK
<1>6. ASSUME NEW n \in Name, Check(n) \/ CheckFails(n) PROVE RemovedOK(d)'
  <2>1. d \in todo' => d \in todo
    BY <1>6 DEF Check, CheckFails, Done
  <2> QED
    BY <1>1, <1>6, <2>1 DEF Check, CheckFails
<1>7. CASE NotifyFails \/ Skip \/ ResolveFails
  <2>1. d \in todo' => d \in todo
    BY <1>7 DEF NotifyFails, Skip, ResolveFails, Done
  <2> QED
    BY <1>1, <1>7, <2>1 DEF NotifyFails, Skip, ResolveFails
<1>8. CASE Authorize \/ ReadInstalled \/ Resolve
  BY <1>1, <1>8 DEF Authorize, ReadInstalled, Resolve
<1>9. CASE Record \/ ResolveNothing \/ InstallOK \/ InstallFails
  <2>1. Done(cur) /\ cur \in Name /\ UNCHANGED removing
    BY <1>9, <1>a DEF Record, ResolveNothing, InstallOK, InstallFails
  <2>2. CASE d = cur
    BY <2>1, <2>2 DEF Done, RemovedOK
  <2>3. CASE d # cur
    <3>1. slot'[d] = slot[d] /\ installed'[d] = installed[d]
      BY <1>0, <1>9, <2>1, <2>3
         DEF Record, ResolveNothing, InstallOK, InstallFails,
             flagCompletedUpdate, TypeOK
    <3>2. d \in todo' => d \in todo
      BY <2>1 DEF Done
    <3> QED
      BY <1>1, <2>1, <3>1, <3>2
  <2> QED
    BY <2>2, <2>3
<1>10. CASE CoreRestart \/ Restart
  BY <1>10 DEF CoreRestart, Restart, Reboot, RemovedOK
<1>11. CASE clearCompletedCoreUpdatesIfAny
  <2>1. slot'[d] = slot[d]
    BY <1>0, <1>11
       DEF clearCompletedCoreUpdatesIfAny, flagCompletedUpdate, TypeOK
  <2> QED
    BY <1>1, <1>11, <2>1 DEF clearCompletedCoreUpdatesIfAny
<1>12. CASE UNCHANGED vars
  BY <1>1, <1>12 DEF vars
<1> QED
  BY <1>2, <1>3, <1>4, <1>5, <1>6, <1>7, <1>8, <1>9, <1>10, <1>11, <1>12
     DEF Next, World, Round, Process

LEMMA RemovedCorrect == Spec => [](DelayInv /\ RemovedInv)
<1>1. Init => RemovedInv
  BY DEF Init, RemovedInv, RemovedOK
<1> QED
  BY <1>1, DelayInit, DelayNext, RemovedNext, PTL DEF Spec

\* A removal that has ended is not undone by the round that had listed the
\* package before.
THEOREM RemovedIsNotAuthorized == Spec => RemovedNotAuthorized
<1>1. ASSUME DelayInv, RemovedInv, [Next]_vars, daemon = "decide",
             daemon' = "resolve", cur # Core
      PROVE  installed[cur] # 0 \/ cur \in removing
  <2>1. TypeOK /\ TaskInv
    BY <1>1 DEF DelayInv
  <2>2. Authorize
    BY <1>1, <2>1, AuthorizeOnly
  <2>3. cur \in Dnp /\ cur \in todo /\ seen # 0
    BY <1>1, <2>1, CurFacts DEF TaskInv, Name
  <2>4. slot[cur].version = seen
    BY <2>2 DEF Authorize, Due
  <2> QED
    BY <1>1, <2>3, <2>4 DEF RemovedInv, RemovedOK
<1>2. ASSUME DelayInv, RemovedInv, [Next]_vars
      PROVE  [(daemon = "decide" /\ daemon' = "resolve" /\ cur # Core)
                => installed[cur] # 0 \/ cur \in removing]_vars
  BY <1>1, <1>2
<1> QED
  BY <1>2, RemovedCorrect, PTL DEF Spec, RemovedNotAuthorized

-----------------------------------------------------------------------------
(***************************************************************************)
(* The registry.                                                           *)
(***************************************************************************)

\* A package that was not crossed has reached what the registry shows, and
\* what packageInstall is about to show.
CompletedOK(d) ==
  d \notin crossed =>
    /\ installed[d] # 0 => \A v \in registry[d] : v <= installed[d]
    /\ Completing(d) => seen <= installed[d]

CompletedInv == \A d \in Dnp : CompletedOK(d)

LEMMA CompletedNext ==
  DelayInv /\ CompletedInv /\ [Next]_vars => CompletedInv'
<1> SUFFICES ASSUME DelayInv, CompletedInv, [Next]_vars, NEW d \in Dnp
             PROVE  CompletedOK(d)'
  BY DEF CompletedInv
<1> USE DEF dbVars, roundVars, taskVars
<1>0. CompletedOK(d) /\ d \in Name /\ d # Core /\ TypeOK /\ TaskInv
  BY NameAssumption DEF CompletedInv, Name, DelayInv
<1>a. daemon \in {"decide", "resolve", "resolved", "install"}
        => cur \in todo /\ cur \in Name
  BY <1>0, CurFacts
<1>b. d # None
  BY <1>0, NameAssumption
\* what does not touch the package nor what is known of it
<1>1. ASSUME UNCHANGED <<installed, crossed>>,
             registry'[d] \in {{}, registry[d]},
             Completing(d)' => Completing(d) /\ seen' = seen
      PROVE  CompletedOK(d)'
  BY <1>0, <1>1 DEF CompletedOK
<1>2. CASE World
  BY <1>1, <1>2 DEF World, Publish, Tick, Completing
<1>3. ASSUME NEW n \in Name, NEW v \in Version, UserInstall(n, v)
      PROVE  CompletedOK(d)'
  <2>0. Completing(d)' <=> Completing(d)
    BY <1>3 DEF UserInstall, Completing
  <2>1. CASE n = d
    <3>1. /\ registry'[d] = {} /\ installed'[d] = v
          /\ installed[d] <= v /\ seen' = seen
          /\ (d \notin crossed' /\ Completing(d) => d \notin crossed)
      BY <1>0, <1>3, <2>1 DEF UserInstall, ClearRegistry, TypeOK, Version
    <3>2. installed[d] \in Nat /\ v \in Nat /\ seen \in Nat
      BY <1>0 DEF TypeOK, Version
    <3> QED
      BY <1>0, <2>0, <3>1, <3>2 DEF CompletedOK
  <2>2. CASE n # d
    <3>1. /\ registry'[d] = registry[d] /\ installed'[d] = installed[d]
          /\ seen' = seen /\ (d \in crossed' <=> d \in crossed)
      BY <1>0, <1>3, <2>2 DEF UserInstall, ClearRegistry, TypeOK
    <3> QED
      BY <1>0, <2>0, <3>1 DEF CompletedOK
  <2> QED
    BY <2>1, <2>2
<1>4. ASSUME NEW m \in Dnp, Remove(m) PROVE CompletedOK(d)'
  <2>0. Completing(d)' <=> Completing(d)
    BY <1>4 DEF Remove, Completing
  <2>1. CASE m = d
    <3>1. installed'[d] = 0 /\ (Completing(d) => d \in crossed')
      BY <1>0, <1>4, <2>1 DEF Remove, TypeOK
    <3> QED
      BY <2>0, <3>1 DEF CompletedOK
  <2>2. CASE m # d
    <3>1. /\ registry'[d] = registry[d] /\ installed'[d] = installed[d]
          /\ seen' = seen /\ (d \in crossed' <=> d \in crossed)
      BY <1>0, <1>4, <2>2 DEF Remove, TypeOK
    <3> QED
      BY <1>0, <2>0, <3>1 DEF CompletedOK
  <2> QED
    BY <2>1, <2>2
<1>5. ASSUME NEW m \in Dnp, RemovedEvent(m) PROVE CompletedOK(d)'
  <2>0. Completing(d)' <=> Completing(d)
    BY <1>5 DEF RemovedEvent, Completing
  <2>1. CASE m = d
    <3>1. /\ registry'[d] = {} /\ UNCHANGED <<installed, seen>>
          /\ (d \notin crossed' /\ Completing(d) => d \notin crossed)
      BY <1>0, <1>5, <2>1 DEF RemovedEvent, ClearRegistry, TypeOK
    <3> QED
      BY <1>0, <2>0, <3>1 DEF CompletedOK
  <2>2. CASE m # d
    <3>1. /\ registry'[d] = registry[d] /\ UNCHANGED <<installed, seen>>
          /\ d \in crossed' <=> d \in crossed
      BY <1>0, <1>5, <2>2 DEF RemovedEvent, ClearRegistry, TypeOK
    <3> QED
      BY <1>0, <2>0, <3>1 DEF CompletedOK
  <2> QED
    BY <2>1, <2>2
<1>6. CASE User
  BY <1>1, <1>3, <1>4, <1>5, <1>6
     DEF User, EditDnp, EditMyPackages, editCoreSetting, Completing
<1>7. ASSUME NEW n \in todo, Done(n), installed' = installed,
             registry'[d] = registry[d],
             crossed' = crossed \/ NotCompleted
      PROVE  CompletedOK(d)'
  <2>1. ~Completing(d)'
    BY <1>0, <1>7, DoneFacts DEF Completing
  <2>2. d \notin crossed' => d \notin crossed \/ registry[d] = {}
    BY <1>7 DEF NotCompleted
  <2> QED
    BY <1>0, <1>7, <2>1, <2>2 DEF CompletedOK
<1>8. CASE ResolveNothing \/ InstallOK \/ InstallFails
  <2>1. cur \in todo /\ Done(cur) /\ ~Completing(d)'
    BY <1>0, <1>8, <1>a, DoneFacts
       DEF ResolveNothing, InstallOK, InstallFails, Completing
  <2>2. CASE d = cur
    <3>1. CASE ResolveNothing
      <4>1. registry'[d] = registry[d] \cup {seen} /\ Completing(d)
            /\ UNCHANGED <<installed, crossed>>
        BY <1>0, <2>2, <3>1
           DEF ResolveNothing, flagCompletedUpdate, Completing, TypeOK
      <4> QED
        BY <1>0, <2>1, <4>1 DEF CompletedOK
    <3>2. CASE InstallOK
      <4>1. registry'[d] = {seen} /\ installed'[d] = seen
        BY <1>0, <2>2, <3>2 DEF InstallOK, flagCompletedUpdate, TypeOK, TaskInv
      <4>2. seen <= seen
        BY <1>0 DEF TypeOK, Version
      <4> QED
        BY <2>1, <4>1, <4>2 DEF CompletedOK
    <3>3. CASE InstallFails
      <4>1. registry'[d] = {}
        BY <1>0, <2>2, <3>3 DEF InstallFails, ClearRegistry, TypeOK
      <4> QED
        BY <2>1, <4>1 DEF CompletedOK
    <3> QED
      BY <1>8, <3>1, <3>2, <3>3
  <2>3. CASE d # cur
    <3>1. /\ installed'[d] = installed[d] /\ registry'[d] = registry[d]
          /\ d \in crossed' <=> d \in crossed
      BY <1>0, <1>8, <1>a, <2>3
         DEF ResolveNothing, InstallOK, InstallFails, ClearRegistry,
             flagCompletedUpdate, TypeOK
    <3> QED
      BY <1>0, <2>1, <3>1 DEF CompletedOK
  <2> QED
    BY <2>2, <2>3
<1>9. CASE NotifyFails \/ Skip \/ Record \/ ResolveFails
  <2>1. cur \in todo /\ Done(cur)
    BY <1>9, <1>a DEF NotifyFails, Skip, Record, ResolveFails
  <2> QED
    BY <1>7, <1>9, <2>1 DEF NotifyFails, Skip, Record, ResolveFails
<1>10. ASSUME NEW n \in Name, Check(n) \/ CheckFails(n) PROVE CompletedOK(d)'
  <2>1. CASE Done(n)
    BY <1>7, <1>10, <2>1 DEF Check, CheckFails, Turn
  <2>2. CASE ~Done(n)
    BY <1>1, <1>10, <2>2 DEF Check, CheckFails, Completing
  <2> QED
    BY <2>1, <2>2
<1>11. CASE Wake \/ WakeFails \/ Authorize \/ Resolve
  BY <1>1, <1>11 DEF Wake, WakeFails, Begin, Authorize, Resolve, Completing
<1>12. CASE ReadInstalled
  <2>1. UNCHANGED <<installed, registry, crossed, seen>>
    BY <1>12 DEF ReadInstalled
  <2>2. Completing(d)' => seen <= installed[d]
    <3>1. seen \in Nat /\ installed[d] \in Nat
      BY <1>0 DEF TypeOK, Version
    <3> QED
      BY <1>0, <1>12, <3>1 DEF ReadInstalled, Completing
  <2> QED
    BY <1>0, <2>1, <2>2 DEF CompletedOK
<1>13. CASE CoreRestart \/ Restart
  <2>1. ~Completing(d)'
    BY <1>13 DEF CoreRestart, Restart, Reboot, Completing
  <2>2. installed'[d] = installed[d] /\ registry'[d] = registry[d]
        /\ (d \notin crossed' => d \notin crossed \/ registry[d] = {})
    BY <1>0, <1>13 DEF CoreRestart, Restart, NotCompleted, TypeOK
  <2> QED
    BY <1>0, <2>1, <2>2 DEF CompletedOK
<1>14. CASE clearCompletedCoreUpdatesIfAny
  <2>1. installed'[d] = installed[d] /\ registry'[d] = registry[d]
    BY <1>0, <1>14
       DEF clearCompletedCoreUpdatesIfAny, flagCompletedUpdate, TypeOK
  <2> QED
    BY <1>1, <1>14, <2>1 DEF clearCompletedCoreUpdatesIfAny, Completing
<1>15. CASE UNCHANGED vars
  BY <1>1, <1>15 DEF vars, Completing
<1> QED
  BY <1>2, <1>6, <1>8, <1>9, <1>10, <1>11, <1>12, <1>13, <1>14, <1>15
     DEF Next, Round, Process

\* No package is shown as updated to a version that it has not reached, unless
\* it was removed on the daemon's way to an update that had nothing to do.
THEOREM CompletedIsReached == Spec => []CompletedReached
<1>1. Init => CompletedInv
  BY DEF Init, CompletedInv, CompletedOK, Completing, Name
<1>2. CompletedInv => CompletedReached
  BY DEF CompletedInv, CompletedOK, CompletedReached
<1> QED
  BY <1>1, <1>2, DelayInit, DelayNext, CompletedNext, PTL DEF Spec
=============================================================================

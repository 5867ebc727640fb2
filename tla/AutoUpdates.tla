----------------------------- MODULE AutoUpdates -----------------------------
(***************************************************************************)
(* The auto-updates daemon of @dappnode/daemons: the round over the        *)
(* installed packages and the core, the single pending slot of a package   *)
(* whose delay must elapse before it is updated, and the calls that change *)
(* the settings or the packages while a round is at one of its awaits.     *)
(*                                                                         *)
(* Versions are numbers, 0 is none.  The core (core.dnp.dappnode.eth with  *)
(* the packages it updates) is one more name: its version stands for the   *)
(* versionId, and its entry of the settings is "system-packages".  A tick  *)
(* is the unit the delay is counted in; a slot keeps the ticks that are    *)
(* left until its scheduledUpdate is in the past.                          *)
(***************************************************************************)
EXTENDS Naturals

CONSTANTS
  Dnp,           \* names of the packages that are not core
  MaxVersion,    \* bound: versions of a package that are ever published
  MaxCore,       \* bound: versions of the core that are ever published
  MinDelay,      \* AUTO_UPDATE_DELAY - AUTO_UPDATE_DELAY_VARIATION
  MaxDelay,      \* AUTO_UPDATE_DELAY + AUTO_UPDATE_DELAY_VARIATION
  BreakingDnp,   \* versions of a package that are a major update
  BreakingCore,  \* versions of the core that are more than a patch
  MaxRestarts,   \* bound: restarts that are not caused by a core update
  None           \* no name

MY == "my-packages"
Core == "core"
Name == Dnp \cup {Core}
SettingId == Name \cup {MY}
Version == 0..MaxVersion

ASSUME NameAssumption  == {MY, Core} \cap Dnp = {} /\ None \notin Name
ASSUME BoundAssumption == /\ MaxVersion \in Nat \ {0} /\ MaxCore \in 1..MaxVersion
                          /\ MaxRestarts \in Nat
ASSUME DelayAssumption == /\ MinDelay \in Nat /\ MaxDelay \in Nat
                          /\ MinDelay <= MaxDelay

VARIABLES
  \* the registries on chain and docker
  latest,      \* the last version published
  installed,   \* the version listPackages reports
  \* the database
  settings,    \* autoUpdateSettings
  slot,        \* autoUpdatePending: the version recorded and the ticks left
  registry,    \* autoUpdateRegistry: the versions flagged as completed
  \* the process
  daemon,      \* the await the round is at
  todo,        \* names the round has not finished with
  from,        \* the version listPackages gave when the round read it
  cur,         \* the name the round is at
  seen,        \* the newVersion or versionId of the round
  target,      \* the version that packageInstall has to install, or 0
  removing,    \* packages whose container is gone and whose event has not come
  booted,      \* checkForCompletedCoreUpdates has run
  restarts,    \* restarts so far
  \* history; ticks are counted up to MinDelay
  age,         \* ticks since a version was published
  on,          \* ticks since auto-updates are enabled without interruption
  crossed      \* packages removed while packageInstall, which had found nothing
               \* to install, was on its way to their completion

marketVars == <<latest, age>>
dbVars     == <<settings, slot, registry>>
taskVars   == <<cur, seen, target>>
roundVars  == <<daemon, todo, from, taskVars>>
vars == <<marketVars, installed, dbVars, roundVars, removing, booted, restarts,
          on, crossed>>

NoSlot == [version |-> 0, wait |-> 0]

(* isDnpUpdateEnabled and isCoreUpdateEnabled on the settings s *)
EnabledIn(s, n) ==
  IF n = Core \/ s[n] # "unset" THEN s[n] = "on" ELSE s[MY] = "on"
Enabled(n) == EnabledIn(settings, n)

(* computeSemverUpdateType: the update is not minor or patch (a package) or
   not a patch (the core) *)
Breaking(n, a, b) ==
  \E v \in (a + 1)..b : v \in (IF n = Core THEN BreakingCore ELSE BreakingDnp)

-----------------------------------------------------------------------------
(* The database starts empty; the two general settings are then as good as
   off, a package's own setting gives way to that of all packages. *)
Init ==
  /\ latest = [n \in Name |-> 1]
  /\ installed = [n \in Name |-> 1]
  /\ settings = [i \in SettingId |-> IF i \in Dnp THEN "unset" ELSE "off"]
  /\ slot = [n \in Name |-> NoSlot]
  /\ registry = [n \in Name |-> {}]
  /\ daemon = "sleep"
  /\ todo = {}
  /\ from = [n \in Name |-> 0]
  /\ cur = None /\ seen = 0 /\ target = 0
  /\ removing = {}
  /\ booted = FALSE
  /\ restarts = 0
  /\ age = [n \in Name |-> [v \in Version |-> 0]]
  /\ on = [n \in Name |-> 0]
  /\ crossed = {}

-----------------------------------------------------------------------------
(* The world around the daemon *)

Publish(n) ==
  /\ latest[n] < (IF n = Core THEN MaxCore ELSE MaxVersion)
  /\ latest' = [latest EXCEPT ![n] = @ + 1]
  /\ UNCHANGED <<installed, dbVars, roundVars, removing, booted, restarts, age,
                 on, crossed>>

Later(t) == IF t < MinDelay THEN t + 1 ELSE t
Sooner(t) == IF t > 0 THEN t - 1 ELSE 0

(* Date.now() advances, in a process that is up or down *)
Tick ==
  /\ age' = [n \in Name |-> [v \in Version |->
               IF v <= latest[n] THEN Later(age[n][v]) ELSE 0]]
  /\ on' = [n \in Name |-> IF Enabled(n) THEN Later(on[n]) ELSE 0]
  /\ slot' = [n \in Name |-> [slot[n] EXCEPT !.wait = Sooner(@)]]
  /\ UNCHANGED <<latest, installed, settings, registry, roundVars, removing,
                 booted, restarts, crossed>>

-----------------------------------------------------------------------------
(* Calls of the user *)

\* packageInstall has found nothing to install of n, and will say so.
Completing(n) == daemon = "resolved" /\ cur = n /\ target = 0

\* packagesModified clears the registry of n: what was crossed before is over.
ClearRegistry(n) ==
  /\ registry' = [registry EXCEPT ![n] = {}]
  /\ crossed' = IF Completing(n) THEN crossed ELSE crossed \ {n}

\* What packageInstall was on its way to will not come.
NotCompleted == crossed' = {d \in crossed : registry[d] # {}}

EditHistory == on' = [n \in Name |-> IF EnabledIn(settings', n) THEN on[n] ELSE 0]

EditDnp(d, e) ==
  /\ settings' = [settings EXCEPT ![d] = e]
  /\ slot' = IF e = "off" THEN [slot EXCEPT ![d] = NoSlot] ELSE slot
  /\ EditHistory
  /\ UNCHANGED <<marketVars, installed, registry, roundVars, removing, booted,
                 restarts, crossed>>

(* Mutant: the packages' own settings go, their pending updates stay. *)
EditMyPackagesOnly(e) ==
  /\ settings' = [i \in SettingId |-> IF i = MY THEN e
                                      ELSE IF e = "off" /\ i # Core THEN "unset"
                                      ELSE settings[i]]
  /\ slot' = slot
  /\ EditHistory
  /\ UNCHANGED <<marketVars, installed, registry, roundVars, removing, booted,
                 restarts, crossed>>

EditMyPackages(e) ==
  /\ settings' = [i \in SettingId |-> IF i = MY THEN e
                                      ELSE IF e = "off" /\ i # Core THEN "unset"
                                      ELSE settings[i]]
  /\ slot' = [n \in Name |-> IF e = "off" /\ n # Core THEN NoSlot ELSE slot[n]]
  /\ EditHistory
  /\ UNCHANGED <<marketVars, installed, registry, roundVars, removing, booted,
                 restarts, crossed>>

editCoreSetting(e) ==
  /\ settings' = [settings EXCEPT ![Core] = e]
  /\ slot' = IF e = "off" THEN [slot EXCEPT ![Core] = NoSlot] ELSE slot
  /\ EditHistory
  /\ UNCHANGED <<marketVars, installed, registry, roundVars, removing, booted,
                 restarts, crossed>>

(* Mutant: an install does not clear the registry. *)
UserInstallKeeps(n, v) ==
  /\ installed[n] < v \/ (n = Core /\ installed[n] = v)
  /\ v <= latest[n]
  /\ ~(daemon = "install" /\ cur = n)
  /\ installed' = [installed EXCEPT ![n] = v]
  /\ UNCHANGED <<marketVars, dbVars, roundVars, removing, booted, restarts, on,
                 crossed>>

(* A packageInstall that is not the daemon's; packagesModified clears the
   registry.  While the daemon installs the package its flag refuses others. *)
UserInstall(n, v) ==
  /\ installed[n] < v \/ (n = Core /\ installed[n] = v)
  /\ v <= latest[n]
  /\ ~(daemon = "install" /\ cur = n)
  /\ installed' = [installed EXCEPT ![n] = v]
  /\ ClearRegistry(n)
  /\ UNCHANGED <<marketVars, settings, slot, roundVars, removing, booted,
                 restarts, on>>

(* packageRemove up to the removal of the containers.  The event never comes
   if deleting the folder fails or the process ends. *)
Remove(d) ==
  /\ installed[d] # 0
  /\ installed' = [installed EXCEPT ![d] = 0]
  /\ removing' = removing \cup {d}
  /\ crossed' = IF Completing(d) THEN crossed \cup {d} ELSE crossed
  /\ UNCHANGED <<marketVars, dbVars, roundVars, booted, restarts, on>>

(* Mutant: the event of a removal does not clear the pending update. *)
RemovedEventKeeps(d) ==
  /\ d \in removing
  /\ removing' = removing \ {d}
  /\ ClearRegistry(d)
  /\ UNCHANGED <<marketVars, installed, settings, slot, roundVars, booted,
                 restarts, on>>

(* packageRemove emits packagesModified with removed: true *)
RemovedEvent(d) ==
  /\ d \in removing
  /\ removing' = removing \ {d}
  /\ slot' = [slot EXCEPT ![d] = NoSlot]
  /\ ClearRegistry(d)
  /\ UNCHANGED <<marketVars, installed, settings, roundVars, booted, restarts,
                 on>>

-----------------------------------------------------------------------------
(* The round *)

NoTask == cur' = None /\ seen' = 0 /\ target' = 0

(* Mutant: the loop looks for one name more. *)
DoneWaits(n) ==
  /\ todo' = todo \ {n}
  /\ from' = [from EXCEPT ![n] = 0]
  /\ daemon' = "check"
  /\ NoTask

(* The round goes on with the next name, the core after every package *)
Done(n) ==
  /\ todo' = todo \ {n}
  /\ from' = [from EXCEPT ![n] = 0]
  /\ daemon' = IF todo = {n} THEN "sleep" ELSE "check"
  /\ NoTask

(* checkAutoUpdates: the round over the packages in ds and the core *)
Begin(ds) ==
  /\ daemon = "sleep"
  /\ daemon' = "check"
  /\ todo' = ds \cup {Core}
  /\ from' = [n \in Name |-> IF n \in ds THEN installed[n] ELSE 0]
  /\ UNCHANGED <<marketVars, installed, dbVars, taskVars, removing, booted,
                 restarts, on, crossed>>

(* checkNewPackagesVersion lists the packages, or fails to *)
Wake == Begin({d \in Dnp : installed[d] # 0})
WakeFails == Begin({})

Turn(n) == n \in todo /\ (n = Core => todo = {Core})

(* The last version is read; then the notification is an await, or for the
   core the list of the packages its versions are compared with. *)
Check(n) ==
  LET now == IF n = Core THEN installed[n] ELSE from[n] IN
  /\ daemon = "check" /\ Turn(n)
  /\ \/ /\ latest[n] <= now
        /\ Done(n)
     \/ /\ latest[n] > now
        /\ daemon' = "decide"
        /\ cur' = n /\ seen' = latest[n]
        /\ from' = [from EXCEPT ![n] = now]
        /\ UNCHANGED <<todo, target>>
  /\ UNCHANGED <<marketVars, installed, dbVars, removing, booted, restarts, on,
                 crossed>>

CheckFails(n) ==
  /\ daemon = "check" /\ Turn(n)
  /\ Done(n)
  /\ UNCHANGED <<marketVars, installed, dbVars, removing, booted, restarts, on,
                 crossed>>

(* The release of the notification does not resolve, or the list fails *)
NotifyFails ==
  /\ daemon = "decide"
  /\ Done(cur)
  /\ UNCHANGED <<marketVars, installed, dbVars, removing, booted, restarts, on,
                 crossed>>

(* Mutants: the slot is compared by the delay or by its presence alone. *)
DueAnyVersion(n, v) == slot[n].version # 0 /\ slot[n].wait = 0
RecordedAnyVersion(n, v) == slot[n].version # 0

(* isUpdateDelayCompleted: an update is due, or its slot has to wait, or the
   version is recorded in the only slot of the name *)
Due(n, v) == slot[n].version = v /\ slot[n].wait = 0
Recorded(n, v) == slot[n].version = v

(* autoUpdatePackageMaybe and autoUpdateSystemPackages up to packageInstall *)
Skip ==
  /\ daemon = "decide"
  /\ \/ ~Enabled(cur)
     \/ Breaking(cur, from[cur], seen)
     \/ Recorded(cur, seen) /\ ~Due(cur, seen)
  /\ Done(cur)
  /\ UNCHANGED <<marketVars, installed, dbVars, removing, booted, restarts, on,
                 crossed>>

Record ==
  /\ daemon = "decide"
  /\ Enabled(cur) /\ ~Breaking(cur, from[cur], seen)
  /\ ~Recorded(cur, seen)
  /\ \E w \in MinDelay..MaxDelay :
         slot' = [slot EXCEPT ![cur] = [version |-> seen, wait |-> w]]
  /\ Done(cur)
  /\ UNCHANGED <<marketVars, installed, settings, registry, removing, booted,
                 restarts, on, crossed>>

Authorize ==
  /\ daemon = "decide"
  /\ Enabled(cur) /\ ~Breaking(cur, from[cur], seen)
  /\ Due(cur, seen)
  /\ daemon' = "resolve"
  /\ UNCHANGED <<marketVars, installed, dbVars, todo, from, taskVars, removing,
                 booted, restarts, on, crossed>>

(* flagCompletedUpdate *)
flagCompletedUpdate(n, v, reg) ==
  /\ registry' = [registry EXCEPT ![n] = reg \cup {v}]
  /\ slot' = [slot EXCEPT ![n] = NoSlot]

(* packageInstall resolves the request, with nothing flagged yet.  dappGet
   reads what is installed, and from then on knows what it will find: the
   version that was authorized, or nothing where the user has it or a newer
   one.  For the core it is whatever is the last one by now, even if it is
   installed (dappGetBasic compares "*" with nothing). *)
ReadInstalled ==
  /\ daemon = "resolve"
  /\ daemon' = "resolved"
  /\ target' = IF cur = Core THEN latest[cur]
               ELSE IF seen > installed[cur] THEN seen ELSE 0
  /\ UNCHANGED <<marketVars, installed, dbVars, todo, from, cur, seen,
                 removing, booted, restarts, on, crossed>>

(* After the awaits of the resolution, the package is flagged and installed:
   over whatever the user has done to it since. *)
Resolve ==
  /\ daemon = "resolved" /\ target # 0
  /\ daemon' = "install"
  /\ UNCHANGED <<marketVars, installed, dbVars, todo, from, taskVars, removing,
                 booted, restarts, on, crossed>>

(* Nothing is left to install: the call succeeds, and the update is flagged as
   the daemon's, whatever the user has done to the package since. *)
ResolveNothing ==
  /\ daemon = "resolved" /\ target = 0
  /\ flagCompletedUpdate(cur, seen, registry[cur])
  /\ Done(cur)
  /\ UNCHANGED <<marketVars, installed, settings, removing, booted, restarts,
                 on, crossed>>

(* flagErrorUpdate only writes the message: version and delay stay.  A list
   that fails is as good as one that nobody uses. *)
ResolveFails ==
  /\ daemon = "resolved"
  /\ NotCompleted
  /\ Done(cur)
  /\ UNCHANGED <<marketVars, installed, dbVars, removing, booted, restarts, on>>

(* packagesModified clears the registry, then the update is flagged *)
InstallOK ==
  /\ daemon = "install"
  /\ installed' = [installed EXCEPT ![cur] = target]
  /\ flagCompletedUpdate(cur, seen, {})
  /\ crossed' = crossed \ {cur}
  /\ Done(cur)
  /\ UNCHANGED <<marketVars, settings, removing, booted, restarts, on>>

(* The rollback restores the version before, unless it fails too *)
InstallFails ==
  /\ daemon = "install"
  /\ installed' \in {installed, [installed EXCEPT ![cur] = target]}
  /\ ClearRegistry(cur)
  /\ Done(cur)
  /\ UNCHANGED <<marketVars, settings, slot, removing, booted, restarts, on>>

-----------------------------------------------------------------------------
(* Restarts *)

Reboot ==
  /\ daemon' = "sleep" /\ todo' = {} /\ from' = [n \in Name |-> 0]
  /\ NoTask
  /\ removing' = {}
  /\ booted' = FALSE

(* An update of the core that recreates the dappmanager ends this process *)
CoreRestart ==
  /\ daemon = "install" /\ cur = Core
  /\ installed' = [installed EXCEPT ![Core] = target]
  /\ Reboot
  /\ UNCHANGED <<marketVars, dbVars, restarts, on, crossed>>

Restart ==
  /\ restarts < MaxRestarts
  /\ restarts' = restarts + 1
  /\ NotCompleted
  /\ Reboot
  /\ UNCHANGED <<marketVars, installed, dbVars, on>>

(* checkForCompletedCoreUpdates, not awaited by the start of the daemon *)
clearCompletedCoreUpdatesIfAny ==
  /\ ~booted
  /\ booted' = TRUE
  /\ IF slot[Core].version # 0 /\ slot[Core].version <= installed[Core]
     THEN flagCompletedUpdate(Core, slot[Core].version, registry[Core])
     ELSE UNCHANGED <<slot, registry>>
  /\ UNCHANGED <<marketVars, installed, settings, roundVars, removing,
                 restarts, on, crossed>>

-----------------------------------------------------------------------------
World == \/ \E n \in Name : Publish(n)
         \/ Tick
User == \/ \E d \in Dnp, e \in {"on", "off"} : EditDnp(d, e)
        \/ \E e \in {"on", "off"} : EditMyPackages(e) \/ editCoreSetting(e)
        \/ \E n \in Name, v \in Version : UserInstall(n, v)
        \/ \E d \in Dnp : Remove(d) \/ RemovedEvent(d)
Round == \/ Wake \/ WakeFails
         \/ \E n \in Name : Check(n) \/ CheckFails(n)
         \/ NotifyFails \/ Skip \/ Record \/ Authorize
         \/ ReadInstalled \/ Resolve \/ ResolveNothing \/ ResolveFails
         \/ InstallOK \/ InstallFails
Process == CoreRestart \/ Restart \/ clearCompletedCoreUpdatesIfAny

Next == World \/ User \/ Round \/ Process

Spec == Init /\ [][Next]_vars

(* Time passes and the loop of runAtMostEvery goes on by itself.  A list,
   a check, a notification or an install of a name may fail any number of
   times, but not for ever. *)
FairFor(names) ==
  /\ WF_vars(Tick) /\ WF_vars(Round) /\ SF_vars(Wake)
  /\ \A n \in names :
       /\ SF_vars(Check(n))
       /\ SF_vars(cur = n /\ (Skip \/ Record \/ Authorize))
       /\ SF_vars(cur = n /\ (Resolve \/ ResolveNothing))
       /\ SF_vars(cur = n /\ (InstallOK \/ CoreRestart))

FairSpec == Spec /\ FairFor(Name)

-----------------------------------------------------------------------------
(* Properties *)

(* The variables have the types of the database entries and of the loop. *)
TypeOK ==
  /\ latest \in [Name -> Version] /\ installed \in [Name -> Version]
  /\ settings \in [SettingId -> {"unset", "on", "off"}]
  /\ slot \in [Name -> [version : Version, wait : 0..MaxDelay]]
  /\ registry \in [Name -> SUBSET Version]
  /\ daemon \in {"sleep", "check", "decide", "resolve", "resolved", "install"}
  /\ todo \subseteq Name /\ from \in [Name -> Version]
  /\ seen \in Version /\ target \in Version
  /\ daemon = "sleep" <=> todo = {}
  /\ daemon \in {"decide", "resolve", "resolved", "install"} <=> cur # None
  /\ cur \in todo \cup {None}
  /\ removing \subseteq Dnp /\ crossed \subseteq Dnp
  /\ booted \in BOOLEAN /\ restarts \in 0..MaxRestarts
  /\ age \in [Name -> [Version -> 0..MinDelay]] /\ on \in [Name -> 0..MinDelay]

(* A pending update is only kept for a name whose auto-updates are enabled:
   whoever disables them, by the package or for all at once, gets the delay
   started again on enabling them (clearPendingUpdates). *)
PendingOnlyWhenEnabled ==
  \A n \in Name : slot[n].version # 0 => Enabled(n)

(* The daemon authorizes a version only when it has been out for the minimal
   delay, auto-updates have been enabled for as long, and the update from the
   version it listed is not a breaking one (isUpdateDelayCompleted). *)
DelayEnforced ==
  [][(daemon = "decide" /\ daemon' = "resolve")
       => /\ age[cur][seen] = MinDelay
          /\ on[cur] = MinDelay
          /\ ~Breaking(cur, from[cur], seen)]_vars

(* A package that was removed after the round listed it is not authorized to
   be installed again, unless its removal has not come to packagesModified. *)
RemovedNotAuthorized ==
  [][(daemon = "decide" /\ daemon' = "resolve" /\ cur # Core)
       => installed[cur] # 0 \/ cur \in removing]_vars

(* An update that the registry shows as done was reached: the package, when
   it is installed, has that version or a newer one, although installs,
   removals and restarts go on beside the daemon.  One thing breaks it: the
   package is removed between the list in which dappGet finds nothing to do
   (dappGet.ts, 70) and flagCompletedUpdate (updateMyPackages.ts, 143), and
   comes back as an older version; until packagesModified comes for it again
   the registry is then wrong. *)
CompletedReached ==
  \A d \in Dnp \ crossed :
    installed[d] # 0 => \A v \in registry[d] : v <= installed[d]

(* A name that stays installed and enabled is brought to the last version or
   to one from which that version is a breaking update. *)
EventuallyUpdated ==
  \A n \in Name :
    <>[](Enabled(n) /\ installed[n] # 0)
      => []<>(installed[n] = latest[n] \/ Breaking(n, installed[n], latest[n]))

(* The comment of isUpdateDelayCompleted for the core: a version that the
   daemon installs has been out for the minimal delay. *)
CoreDelayEnforced ==
  [][(daemon = "install" /\ cur = Core /\ installed'[Core] # installed[Core])
       => age[Core][installed'[Core]] = MinDelay]_vars
=============================================================================

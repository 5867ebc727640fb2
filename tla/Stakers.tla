------------------------------ MODULE Stakers ------------------------------
(***************************************************************************)
(* The execution or consensus clients of one network, as @dappnode/stakers *)
(* switches between them.  The selected client is in the database; what    *)
(* makes a client stake is the staker network in its compose file, which   *)
(* its containers join when they are created.  setNewExecution and         *)
(* setNewConsensus take the previous client off the network before they    *)
(* bring in the new one; a daemon puts the selected client back on it      *)
(* every 30 minutes, and does not look at a switch that is at work.        *)
(***************************************************************************)
EXTENDS FiniteSets

CONSTANTS
  Client,  \* the compatible clients
  Unset    \* no client, undefined or null

ASSUME StakerAssumption == Unset \notin Client

VARIABLES
  selected,   \* the database: the selected client
  tagged,     \* clients whose compose file has the staker network
  container,  \* the containers of a client
  joined,     \* clients whose containers are on the staker network
  setting,    \* the await setNew is at
  prev,       \* prevClient
  new,        \* newStakerDnpName
  persisting, \* the await persistSelected...IfInstalled is at
  persisted,  \* its client
  stray       \* history: clients left on the network by a switch that failed, or by
              \* the daemon and a switch that overlapped

clientVars  == <<tagged, container, joined>>
setVars     == <<setting, prev, new>>
persistVars == <<persisting, persisted>>
stakerVars  == <<selected, clientVars, setVars, persistVars, stray>>

Maybe     == Client \cup {Unset}
Installed(c) == c \in Client /\ container[c] # "absent"

StakersInit ==
  /\ selected = Unset /\ tagged = {} /\ joined = {}
  /\ container \in [Client -> {"absent", "running"}]
  /\ setting = "idle" /\ prev = Unset /\ new = Unset
  /\ persisting = "idle" /\ persisted = Unset
  /\ stray = {}

----------------------------------------------------------------------------
\* Compose files and containers

\* A compose up of c is running: it holds the lock of its compose file.
Locked(c) ==
  \/ setting = "unset" /\ prev = c
  \/ setting = "up" /\ new = c
  \/ persisting = "up" /\ persisted = c

(* Containers are created, and join the networks of their compose file: as the
   caller wrote it, or as the other one did since. *)
Created(c, state, written) ==
  /\ container' = [container EXCEPT ![c] = state]
  /\ \E network \in {written, (c \in tagged)} :
       joined' = IF network THEN joined \cup {c} ELSE joined \ {c}
  /\ UNCHANGED tagged

\* A compose up that fails or is interrupted has come this far, or not at all.
UpToAPoint(c) ==
  \/ UNCHANGED clientVars
  \/ Installed(c) /\ \E state \in {"stopped", "running"} : Created(c, state, TRUE)

----------------------------------------------------------------------------
\* setNewExecution, setNewConsensus

SetNew(c) ==
  /\ setting = "idle"
  /\ setting' = "settings" /\ prev' = selected /\ new' = c
  /\ UNCHANGED <<selected, clientVars, persistVars, stray>>

\* The call returns, or throws.
Return == setting' = "idle" /\ prev' = Unset /\ new' = Unset
At(where) == setting' = where /\ UNCHANGED <<prev, new>>

(* getUserSettings of the new client, which asks the release of a client
   for the name of its service. *)
SettingsRead ==
  /\ setting = "settings" /\ At("prev")
  /\ UNCHANGED <<selected, clientVars, persistVars, stray>>

SettingsFail ==
  /\ setting = "settings" /\ new # Unset /\ Return
  /\ UNCHANGED <<selected, clientVars, persistVars, stray>>

(* Mutant: the previous client keeps the staker network. *)
PrevListedKept ==
  /\ setting = "prev"
  /\ IF prev = new \/ ~Installed(prev)
     THEN At("new") /\ UNCHANGED tagged
     ELSE /\ UNCHANGED tagged
          /\ IF Locked(prev) THEN Return ELSE At("unset")
  /\ UNCHANGED <<selected, container, joined, persistVars, stray>>

(* The previous client is listed: if it is installed and another one, its
   compose file loses the staker network, and its containers are recreated
   without being started. *)
PrevListed ==
  /\ setting = "prev"
  /\ IF prev = new \/ ~Installed(prev)
     THEN At("new") /\ UNCHANGED tagged
     ELSE /\ tagged' = tagged \ {prev}
          /\ IF Locked(prev) THEN Return ELSE At("unset")
  /\ UNCHANGED <<selected, container, joined, persistVars, stray>>

(* The previous client does not satisfy compatibleClients. *)
PrevIncompatible ==
  /\ setting = "prev" /\ Installed(prev) /\ Return
  /\ UNCHANGED <<selected, clientVars, persistVars, stray>>

UnsetUp ==
  /\ setting = "unset" /\ Installed(prev)
  /\ Created(prev, "stopped", FALSE) /\ At("new")
  /\ stray' = IF prev \in tagged THEN stray ELSE stray \ {prev}
  /\ UNCHANGED <<selected, persistVars>>

UnsetUpFails ==
  /\ setting = "unset" /\ Return
  /\ UNCHANGED clientVars \/ (Installed(prev) /\ Created(prev, "stopped", FALSE))
  /\ UNCHANGED <<selected, persistVars, stray>>

\* The database is written when the client is another one than at the start.
Stored == selected' = IF new = prev THEN selected ELSE new

\* The new client is settled, unless the daemon wrote another one meanwhile.
Settles == stray' = (stray \ {new}) \cup ({new} \ {selected'})

(* Mutant: no client is looked up like any other. *)
NewListedUnchecked ==
  /\ setting = "new"
  /\ \/ /\ ~Installed(new) /\ At("install")
        /\ UNCHANGED <<selected, tagged, stray>>
     \/ /\ Installed(new) /\ tagged' = tagged \cup {new} /\ At("up")
        /\ UNCHANGED <<selected, stray>>
  /\ UNCHANGED <<container, joined, persistVars>>

(* The new client is listed: it is tagged and brought up, or installed.
   Without a new client the selection is cleared. *)
NewListed ==
  /\ setting = "new"
  /\ \/ /\ new = Unset /\ Return
        /\ Stored /\ UNCHANGED <<tagged, stray>>
     \/ /\ new # Unset /\ ~Installed(new) /\ At("install")
        /\ UNCHANGED <<selected, tagged, stray>>
     \/ /\ Installed(new) /\ tagged' = tagged \cup {new}
        /\ IF Locked(new)
           THEN Return /\ stray' = stray \cup ({new} \ {selected})
           ELSE At("up") /\ UNCHANGED stray
        /\ UNCHANGED selected
  /\ UNCHANGED <<container, joined, persistVars>>

(* Mutant: the first selection is not stored. *)
NewUpUnstored ==
  /\ setting = "up" /\ Installed(new)
  /\ Created(new, "running", TRUE) /\ stray' = stray \ {new}
  /\ selected' = (IF prev = Unset THEN selected ELSE new) /\ Return
  /\ UNCHANGED persistVars

NewUp ==
  /\ setting = "up" /\ Installed(new)
  /\ Created(new, "running", TRUE)
  /\ Stored /\ Settles /\ Return
  /\ UNCHANGED persistVars

(* The network stays in its compose file, and the selection as it was. *)
LeavesNew == stray' = stray \cup ({new} \ {selected})

NewUpFails ==
  /\ setting = "up" /\ UpToAPoint(new) /\ LeavesNew /\ Return
  /\ UNCHANGED <<selected, persistVars>>

\* packageInstall, with the staker network in the user settings.
InstalledWithNetwork(state) ==
  /\ container' = [container EXCEPT ![new] = state]
  /\ tagged' = tagged \cup {new} /\ joined' = joined \cup {new}

NewInstalled ==
  /\ setting = "install" /\ ~Locked(new)
  /\ InstalledWithNetwork("running")
  /\ Stored /\ Settles /\ Return
  /\ UNCHANGED persistVars

NewInstallFails ==
  /\ setting = "install" /\ Return
  /\ \/ UNCHANGED <<clientVars, stray>>
     \/ /\ \E state \in {"stopped", "running"} : InstalledWithNetwork(state)
        /\ LeavesNew
  /\ UNCHANGED <<selected, persistVars>>

----------------------------------------------------------------------------
\* persistSelectedExecutionIfInstalled, persistSelectedConsensusIfInstalled

PersistSelected ==
  /\ persisting = "idle" /\ selected # Unset
  /\ persisting' = "list" /\ persisted' = selected
  /\ UNCHANGED <<selected, clientVars, setVars, stray>>

PersistReturn == persisting' = "idle" /\ persisted' = Unset

\* The client that a switch selected meanwhile, and that the daemon overwrites.
Overwritten == {selected} \ {persisted, Unset}

\* Its client is still the selected one, and no switch is past it.
OnTime ==
  /\ persisted = selected
  /\ \/ setting = "idle" \/ persisted = new
     \/ setting \in {"settings", "prev"} /\ persisted = prev

PersistListed ==
  /\ persisting = "list"
  /\ IF Installed(persisted)
     THEN persisting' = "settings" /\ UNCHANGED <<selected, persisted, stray>>
     ELSE selected' = Unset /\ stray' = stray \cup Overwritten /\ PersistReturn
  /\ UNCHANGED <<clientVars, setVars>>

(* Mutant: the file is written before the settings are applied. *)
PersistSettingsUnwritten ==
  /\ persisting = "settings" /\ Installed(persisted)
  /\ UNCHANGED <<tagged, stray>>
  /\ IF Locked(persisted) THEN PersistReturn
                          ELSE persisting' = "up" /\ UNCHANGED persisted
  /\ UNCHANGED <<selected, container, joined, setVars>>

(* The settings are applied to the compose file, which is written. *)
PersistSettings ==
  /\ persisting = "settings" /\ Installed(persisted)
  /\ tagged' = tagged \cup {persisted}
  /\ stray' = IF OnTime THEN stray ELSE stray \cup {persisted}
  /\ IF Locked(persisted) THEN PersistReturn
                          ELSE persisting' = "up" /\ UNCHANGED persisted
  /\ UNCHANGED <<selected, container, joined, setVars>>

PersistSettingsFail ==
  /\ persisting = "settings" /\ PersistReturn
  /\ UNCHANGED <<selected, clientVars, setVars, stray>>

(* All its containers are started, and the database is written again. *)
PersistUp ==
  /\ persisting = "up" /\ Installed(persisted)
  /\ Created(persisted, "running", TRUE)
  /\ selected' = persisted /\ PersistReturn
  /\ stray' = (stray \cup Overwritten) \ IF setting = "idle" THEN {persisted} ELSE {}
  /\ UNCHANGED setVars

PersistUpFails ==
  /\ persisting = "up" /\ UpToAPoint(persisted) /\ PersistReturn
  /\ UNCHANGED <<selected, setVars, stray>>

----------------------------------------------------------------------------
\* What else happens to a client

UserVars == <<selected, setVars, persistVars>>

StartOrStop(c) ==
  /\ Installed(c)
  /\ \E state \in {"stopped", "running"} :
       container[c] # state /\ container' = [container EXCEPT ![c] = state]
  /\ UNCHANGED <<tagged, joined, stray, UserVars>>

(* An update, other settings, volumes that are reset: containers are recreated. *)
Recreate(c) ==
  /\ Installed(c) /\ ~Locked(c)
  /\ Created(c, container[c], c \in tagged)
  /\ UNCHANGED <<stray, UserVars>>

Remove(c) ==
  /\ Installed(c)
  /\ container' = [container EXCEPT ![c] = "absent"]
  /\ tagged' = tagged \ {c} /\ joined' = joined \ {c} /\ stray' = stray \ {c}
  /\ UNCHANGED UserVars

(* An install that is not asked for by a switch: without the network. *)
Install(c) ==
  /\ ~Installed(c) /\ ~Locked(c) /\ ~(setting = "install" /\ new = c)
  /\ container' = [container EXCEPT ![c] = "running"]
  /\ UNCHANGED <<tagged, joined, stray, UserVars>>

(* The dappmanager restarts in the middle of a switch or of the daemon. *)
StakersRestart ==
  /\ setting # "idle" \/ persisting # "idle"
  /\ Return /\ PersistReturn
  /\ \/ setting = "up" /\ UpToAPoint(new) /\ LeavesNew
     \/ setting = "install" /\ InstalledWithNetwork("running") /\ LeavesNew
     \/ setting # "up" /\ UNCHANGED <<clientVars, stray>>
  /\ UNCHANGED selected

SetStep ==
  \/ \E c \in Maybe : SetNew(c)
  \/ SettingsRead \/ SettingsFail \/ PrevListed \/ PrevIncompatible
  \/ UnsetUp \/ UnsetUpFails \/ NewListed \/ NewUp \/ NewUpFails
  \/ NewInstalled \/ NewInstallFails

PersistStep ==
  \/ PersistSelected \/ PersistListed \/ PersistSettings \/ PersistSettingsFail
  \/ PersistUp \/ PersistUpFails

UserStep == \E c \in Client : StartOrStop(c) \/ Recreate(c) \/ Remove(c) \/ Install(c)

StakersNext == SetStep \/ PersistStep \/ UserStep \/ StakersRestart

StakersSpec == StakersInit /\ [][StakersNext]_stakerVars

(* A switch ends.  The daemon comes round every 30 minutes: it does not fail for
   ever, nor does a switch hold its client at every round. *)
Unheld(c, step) == step /\ ~Locked(c)

StakersFairness ==
  /\ WF_stakerVars(setting # "idle" /\ SetStep) /\ WF_stakerVars(PersistStep)
  /\ SF_stakerVars(Unheld(selected, PersistSelected))
  /\ SF_stakerVars(Unheld(persisted, PersistListed))
  /\ SF_stakerVars(Unheld(persisted, PersistSettings))
  /\ SF_stakerVars(persisted \in tagged /\ PersistUp)

----------------------------------------------------------------------------
\* Properties

StakersTypeOK ==
  /\ selected \in Maybe /\ prev \in Maybe /\ new \in Maybe /\ persisted \in Maybe
  /\ container \in [Client -> {"absent", "stopped", "running"}]
  /\ tagged \subseteq Client /\ joined \subseteq Client /\ stray \subseteq Client
  /\ setting \in {"idle", "settings", "prev", "unset", "new", "up", "install"}
  /\ setting \in {"up", "install"} => new \in Client
  /\ persisting \in {"idle", "list", "settings", "up"}
  /\ persisting # "idle" => persisted \in Client

Staking == {c \in Client : container[c] = "running" /\ c \in joined}

(* Two clients of a network run on the staker network at the same time, in the
   middle of a switch or between two, only if one of them is stray: a switch
   failed after it tagged it, or the daemon wrote its compose file when a switch
   was past it, or the selection when a switch had made another one. *)
OneClientStakes == \A c, d \in Staking \ stray : c = d

(* When nothing is at work only the selected client, and those that are stray,
   have the staker network in their compose file or in their containers: nothing
   else that recreates or starts a client brings another one back. *)
TaggedIsSelected ==
  setting = "idle" /\ persisting = "idle" =>
    (tagged \cup joined) \ stray \subseteq {selected}

(* A client that stays selected and installed runs on the staker network again
   and again, whatever the user does to its containers, whatever fails, and
   whatever switches away from it overlap the daemon and fail. *)
SelectedJoins ==
  \A c \in Client : <>[](selected = c /\ Installed(c)) => []<>(c \in Staking)
=============================================================================

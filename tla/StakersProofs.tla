--------------------------- MODULE StakersProofs ---------------------------
(***************************************************************************)
(* Proofs about Stakers: types, and that one client stakes, whatever       *)
(* fails and however a switch and the daemon overlap, but for the clients  *)
(* that a failure or an overlap leaves on the network.                     *)
(***************************************************************************)
EXTENDS Stakers, TLAPS

LEMMA StakersInitType == StakersInit => StakersTypeOK
  BY DEF StakersInit, StakersTypeOK, Maybe

\* What a compose up does to the containers of a client.
LEMMA CreatedType ==
  ASSUME StakersTypeOK, NEW c \in Client, NEW state \in {"stopped", "running"}, NEW written,
         Created(c, state, written)
  PROVE  /\ container' \in [Client -> {"absent", "stopped", "running"}]
         /\ tagged' \subseteq Client /\ joined' \subseteq Client
  BY DEF StakersTypeOK, Created

LEMMA UpToAPointType ==
  ASSUME StakersTypeOK, NEW c, UpToAPoint(c)
  PROVE  /\ container' \in [Client -> {"absent", "stopped", "running"}]
         /\ tagged' \subseteq Client /\ joined' \subseteq Client
<1>1. CASE UNCHANGED clientVars
  BY <1>1 DEF StakersTypeOK, clientVars
<1>2. CASE Installed(c) /\ \E state \in {"stopped", "running"} : Created(c, state, TRUE)
  BY <1>2, CreatedType DEF Installed
<1> QED
  BY <1>1, <1>2 DEF UpToAPoint

LEMMA SetReadsType ==
  ASSUME StakersTypeOK,
         \/ \E c \in Maybe : SetNew(c)
         \/ SettingsRead \/ SettingsFail \/ PrevListed \/ PrevIncompatible \/ NewListed
  PROVE  StakersTypeOK'
<1>1. CASE \E c \in Maybe : SetNew(c)
  BY <1>1 DEF StakersTypeOK, Maybe, SetNew, clientVars, persistVars
<1>2. CASE SettingsRead \/ SettingsFail \/ PrevIncompatible
  BY <1>2 DEF StakersTypeOK, Maybe, SettingsRead, SettingsFail, PrevIncompatible, Return,
              At, clientVars, persistVars
<1>3. CASE PrevListed
  BY <1>3 DEF StakersTypeOK, Maybe, PrevListed, Return, At, persistVars
<1>4. CASE NewListed
  BY <1>4 DEF StakersTypeOK, Maybe, NewListed, Stored, Installed, Return, At, persistVars
<1> QED
  BY <1>1, <1>2, <1>3, <1>4

LEMMA SetUpsType ==
  ASSUME StakersTypeOK, UnsetUp \/ UnsetUpFails \/ NewUp \/ NewUpFails
  PROVE  StakersTypeOK'
<1>1. CASE UnsetUp
  <2>1. prev \in Client /\ Created(prev, "stopped", FALSE)
    BY <1>1 DEF UnsetUp, Installed
  <2> QED
    BY <1>1, <2>1, CreatedType DEF StakersTypeOK, Maybe, UnsetUp, At, persistVars
<1>2. CASE UnsetUpFails
  <2>1. CASE UNCHANGED clientVars
    BY <1>2, <2>1 DEF StakersTypeOK, Maybe, UnsetUpFails, Return, clientVars, persistVars
  <2>2. CASE Installed(prev) /\ Created(prev, "stopped", FALSE)
    <3>1. prev \in Client
      BY <2>2 DEF Installed
    <3> QED
      BY <1>2, <2>2, <3>1, CreatedType
      DEF StakersTypeOK, Maybe, UnsetUpFails, Return, persistVars
  <2> QED
    BY <1>2, <2>1, <2>2 DEF UnsetUpFails
<1>3. CASE NewUp
  <2>1. new \in Client /\ Created(new, "running", TRUE)
    BY <1>3 DEF NewUp, Installed
  <2> QED
    BY <1>3, <2>1, CreatedType DEF StakersTypeOK, Maybe, NewUp, Stored, Settles, Return, persistVars
<1>4. CASE NewUpFails
  <2>1. UpToAPoint(new) /\ new \in Client
    BY <1>4 DEF NewUpFails, StakersTypeOK
  <2> QED
    BY <1>4, <2>1, UpToAPointType
    DEF StakersTypeOK, Maybe, NewUpFails, LeavesNew, Return, persistVars
<1> QED
  BY <1>1, <1>2, <1>3, <1>4

LEMMA SetInstallsType ==
  ASSUME StakersTypeOK, NewInstalled \/ NewInstallFails
  PROVE  StakersTypeOK'
<1>1. new \in Client
  BY DEF StakersTypeOK, NewInstalled, NewInstallFails
<1> QED
  BY <1>1 DEF StakersTypeOK, Maybe, Stored, Settles, NewInstalled, NewInstallFails,
              InstalledWithNetwork, LeavesNew, Return, clientVars, persistVars

LEMMA PersistType ==
  ASSUME StakersTypeOK, PersistStep
  PROVE  StakersTypeOK'
<1>1. CASE PersistSelected \/ PersistListed \/ PersistSettings \/ PersistSettingsFail
  BY <1>1 DEF StakersTypeOK, Maybe, PersistSelected, PersistListed, PersistSettings,
              PersistSettingsFail, PersistReturn, Overwritten, Installed, clientVars, setVars
<1>2. CASE PersistUp
  <2>1. persisted \in Client /\ Created(persisted, "running", TRUE)
    BY <1>2 DEF PersistUp, Installed
  <2> QED
    BY <1>2, <2>1, CreatedType DEF StakersTypeOK, Maybe, PersistUp, PersistReturn, Overwritten,
                                         setVars
<1>3. CASE PersistUpFails
  <2>1. UpToAPoint(persisted)
    BY <1>3 DEF PersistUpFails
  <2> QED
    BY <1>3, <2>1, UpToAPointType
    DEF StakersTypeOK, Maybe, PersistUpFails, PersistReturn, setVars
<1> QED
  BY <1>1, <1>2, <1>3 DEF PersistStep

LEMMA UserType ==
  ASSUME StakersTypeOK, UserStep
  PROVE  StakersTypeOK'
<1> PICK c \in Client : StartOrStop(c) \/ Recreate(c) \/ Remove(c) \/ Install(c)
  BY DEF UserStep
<1>1. CASE StartOrStop(c) \/ Remove(c) \/ Install(c)
  BY <1>1 DEF StakersTypeOK, StartOrStop, Remove, Install, UserVars, setVars, persistVars
<1>2. CASE Recreate(c)
  <2>1. container[c] \in {"stopped", "running"}
    BY <1>2 DEF Recreate, Installed, StakersTypeOK
  <2> QED
    BY <1>2, <2>1, CreatedType DEF StakersTypeOK, Recreate, UserVars, setVars, persistVars
<1> QED
  BY <1>1, <1>2

LEMMA RestartType ==
  ASSUME StakersTypeOK, StakersRestart
  PROVE  StakersTypeOK'
<1>1. CASE setting = "up"
  <2>1. UpToAPoint(new) /\ LeavesNew /\ new \in Client
    BY <1>1 DEF StakersRestart, StakersTypeOK
  <2> QED
    BY <2>1, UpToAPointType
    DEF StakersTypeOK, Maybe, StakersRestart, Return, PersistReturn, LeavesNew
<1>2. CASE setting = "install"
  <2>1. new \in Client
    BY <1>2 DEF StakersTypeOK
  <2>2. UNCHANGED <<clientVars, stray>> \/ (InstalledWithNetwork("running") /\ LeavesNew)
    BY <1>2 DEF StakersRestart
  <2> QED
    BY <2>1, <2>2 DEF StakersTypeOK, Maybe, StakersRestart, Return, PersistReturn,
                            InstalledWithNetwork, LeavesNew, clientVars
<1>3. CASE setting \notin {"up", "install"}
  <2>1. UNCHANGED <<clientVars, stray>>
    BY <1>3 DEF StakersRestart
  <2> QED
    BY <2>1
    DEF StakersTypeOK, Maybe, StakersRestart, Return, PersistReturn, clientVars
<1> QED
  BY <1>1, <1>2, <1>3

LEMMA StakersNextType == StakersTypeOK /\ [StakersNext]_stakerVars => StakersTypeOK'
<1> SUFFICES ASSUME StakersTypeOK, [StakersNext]_stakerVars PROVE StakersTypeOK'
  OBVIOUS
<1>1. CASE SetStep
  BY <1>1, SetReadsType, SetUpsType, SetInstallsType DEF SetStep
<1>2. CASE PersistStep \/ UserStep \/ StakersRestart
  BY <1>2, PersistType, UserType, RestartType
<1>3. CASE UNCHANGED stakerVars
  BY <1>3 DEF StakersTypeOK, stakerVars, clientVars, setVars, persistVars
<1> QED
  BY <1>1, <1>2, <1>3 DEF StakersNext

(* The variables have their types; a client is being brought up or installed,
   or persisted, only when there is one. *)
THEOREM StakersTypeCorrect == StakersSpec => []StakersTypeOK
  BY StakersInitType, StakersNextType, PTL DEF StakersSpec

----------------------------------------------------------------------------
\* Who may be on the network

Held == (tagged \cup joined) \ stray

\* A client that is not installed has neither a compose file nor containers.
AbsentInv == \A c \in Client : container[c] = "absent" => c \notin tagged \cup joined

\* A switch and the daemon do not bring up the same client at the same time.
LockInv ==
  /\ setting = "unset" /\ persisting = "up" => prev # persisted
  /\ setting = "up" /\ persisting = "up" => new # persisted

\* What the daemon brings up is stray, or no switch is past it.
OnTimeInv == persisting = "up" /\ Installed(persisted) => persisted \in stray \/ OnTime

\* From the moment the previous client is off the network, only the new one
\* may be on it, and before that only the selected one.  If the daemon wrote
\* another selection since the switch read it, only the new one may be.
HeldInv ==
  /\ setting # "up" => Held \subseteq {selected}
  /\ setting \in {"new", "up"} => Held \subseteq {new}
  /\ setting = "install" => Held = {} /\ ~Installed(new)
  /\ setting = "unset" => prev # new /\ (prev \in tagged => prev \in stray)
  /\ setting \in {"settings", "prev", "unset"} /\ prev # selected => Held \subseteq {new}

SafeInv   == AbsentInv /\ LockInv /\ OnTimeInv /\ HeldInv
StakersInv == StakersTypeOK /\ SafeInv

LEMMA StakersInitInv == StakersInit => StakersInv
  BY StakersInitType
  DEF StakersInit, StakersInv, SafeInv, AbsentInv, LockInv, OnTimeInv, HeldInv, Held

\* A compose up adds no client but its own to those on the network.
LEMMA UpToAPointHeld ==
  ASSUME StakersTypeOK, AbsentInv, NEW c \in Client, UpToAPoint(c)
  PROVE  /\ AbsentInv' /\ tagged' = tagged /\ joined' \subseteq joined \cup {c}
         /\ \A d : Installed(d)' <=> Installed(d)
<1>1. CASE UNCHANGED clientVars
  BY <1>1 DEF AbsentInv, Installed, clientVars
<1>2. CASE Installed(c) /\ \E state \in {"stopped", "running"} : Created(c, state, TRUE)
  BY <1>2 DEF StakersTypeOK, AbsentInv, Created, Installed
<1> QED
  BY <1>1, <1>2 DEF UpToAPoint

LEMMA SetReadsInv ==
  ASSUME StakersInv,
         (\E c \in Maybe : SetNew(c)) \/ SettingsRead \/ SettingsFail \/ PrevIncompatible
  PROVE  SafeInv'
<1>1. CASE \E c \in Maybe : SetNew(c)
  BY <1>1 DEF StakersInv, SafeInv, AbsentInv, LockInv, OnTimeInv, OnTime, HeldInv, Held,
              Installed, SetNew, clientVars, persistVars
<1>2. CASE SettingsRead
  BY <1>2 DEF StakersInv, SafeInv, AbsentInv, LockInv, OnTimeInv, OnTime, HeldInv, Held,
              Installed, SettingsRead, At, clientVars, persistVars
<1>3. CASE SettingsFail \/ PrevIncompatible
  BY <1>3 DEF StakersInv, SafeInv, AbsentInv, LockInv, OnTimeInv, OnTime, HeldInv, Held,
              Installed, SettingsFail, PrevIncompatible, Return, clientVars, persistVars
<1> QED
  BY <1>1, <1>2, <1>3

LEMMA PrevListedInv ==
  ASSUME StakersInv, PrevListed
  PROVE  SafeInv'
<1>1. CASE prev = new
  BY <1>1 DEF StakersInv, SafeInv, AbsentInv, LockInv, OnTimeInv, OnTime, HeldInv, Held,
              Installed, PrevListed, At, persistVars
<1>2. CASE prev # new /\ ~Installed(prev)
  <2>1. Held \subseteq {new}
    BY <1>2 DEF StakersInv, StakersTypeOK, SafeInv, AbsentInv, HeldInv, Held, PrevListed,
                Installed
  <2> QED
    BY <1>2, <2>1 DEF StakersInv, SafeInv, AbsentInv, LockInv, OnTimeInv, OnTime, HeldInv,
                      Held, Installed, PrevListed, At, persistVars
<1>3. CASE prev # new /\ Installed(prev) /\ Locked(prev)
  BY <1>3 DEF StakersInv, SafeInv, AbsentInv, LockInv, OnTimeInv, OnTime, HeldInv, Held,
              Installed, PrevListed, Return, persistVars
<1>4. CASE prev # new /\ Installed(prev) /\ ~Locked(prev)
  BY <1>4 DEF StakersInv, SafeInv, AbsentInv, LockInv, OnTimeInv, OnTime, HeldInv, Held,
              Installed, Locked, PrevListed, At, persistVars
<1> QED
  BY <1>1, <1>2, <1>3, <1>4

\* The previous client leaves the network, unless the daemon put it back.
LEMMA UnsetInv ==
  ASSUME StakersInv, UnsetUp \/ UnsetUpFails
  PROVE  SafeInv'
<1>1. CASE UnsetUp
  <2>1. /\ setting = "unset" /\ prev \in Client /\ tagged' = tagged
        /\ prev \in tagged => prev \in stray /\ stray' = stray
        /\ prev \notin tagged => joined' = joined \ {prev} /\ stray' = stray \ {prev}
        /\ joined' \subseteq joined \cup {prev}
        /\ \A d : Installed(d)' <=> Installed(d)
    BY <1>1 DEF StakersInv, StakersTypeOK, SafeInv, HeldInv, UnsetUp, Created, Installed
  <2>2. Held' \subseteq Held \ {prev}
    BY <2>1 DEF Held
  <2>3. HeldInv'
    BY <1>1, <2>1, <2>2 DEF StakersInv, SafeInv, HeldInv, UnsetUp, At
  <2>4. AbsentInv' /\ LockInv'
    BY <1>1, <2>1 DEF StakersInv, StakersTypeOK, SafeInv, AbsentInv, LockInv, UnsetUp, At,
                      Created, Installed
  <2>5. OnTimeInv'
    BY <1>1, <2>1
    DEF StakersInv, SafeInv, LockInv, OnTimeInv, OnTime, UnsetUp, At, persistVars
  <2> QED
    BY <2>3, <2>4, <2>5 DEF SafeInv
<1>2. CASE UnsetUpFails
  <2>1. /\ setting = "unset" /\ tagged' = tagged /\ AbsentInv'
        /\ joined' \subseteq joined \/ (prev \in stray /\ joined' \subseteq joined \cup {prev})
        /\ \A d : Installed(d)' <=> Installed(d)
    BY <1>2 DEF StakersInv, StakersTypeOK, SafeInv, AbsentInv, HeldInv, UnsetUpFails, Created,
                Installed, clientVars
  <2> QED
    BY <1>2, <2>1 DEF StakersInv, SafeInv, LockInv, OnTimeInv, OnTime, HeldInv, Held,
                      UnsetUpFails, Return, persistVars
<1> QED
  BY <1>1, <1>2

LEMMA NewListedInv ==
  ASSUME StakersInv, NewListed
  PROVE  SafeInv'
<1>1. CASE new = Unset /\ Return /\ Stored /\ UNCHANGED <<tagged, stray>>
  <2>1. Held = {}
    BY <1>1, StakerAssumption DEF StakersInv, StakersTypeOK, SafeInv, HeldInv, Held, NewListed
  <2>2. persisting = "up" => ~OnTime
    BY <1>1, StakerAssumption DEF StakersInv, StakersTypeOK, OnTime, NewListed
  <2> QED
    BY <1>1, <2>1, <2>2 DEF StakersInv, SafeInv, AbsentInv, LockInv, OnTimeInv, HeldInv, Held,
                            Installed, NewListed, Return, persistVars
<1>2. CASE new # Unset /\ ~Installed(new) /\ At("install") /\ UNCHANGED <<selected, tagged, stray>>
  <2>1. Held = {}
    BY <1>2 DEF StakersInv, StakersTypeOK, Maybe, SafeInv, AbsentInv, HeldInv, Held, NewListed,
                Installed
  <2> QED
    BY <1>2, <2>1 DEF StakersInv, SafeInv, AbsentInv, LockInv, OnTimeInv, OnTime, HeldInv,
                      Held, NewListed, Installed, At, persistVars
<1>3. CASE Installed(new) /\ Locked(new)
  BY <1>3, StakerAssumption
  DEF StakersInv, SafeInv, AbsentInv, LockInv, OnTimeInv, OnTime, HeldInv, Held, NewListed,
      Installed, Return, persistVars
<1>4. CASE Installed(new) /\ ~Locked(new)
  BY <1>4, StakerAssumption
  DEF StakersInv, SafeInv, AbsentInv, LockInv, OnTimeInv, OnTime, HeldInv, Held, NewListed,
      Installed, Locked, At, persistVars
<1> QED
  BY <1>1, <1>2, <1>3, <1>4 DEF NewListed

LEMMA NewUpInv ==
  ASSUME StakersInv, NewUp \/ NewUpFails
  PROVE  SafeInv'
<1>1. CASE NewUp
  <2>1. /\ setting = "up" /\ new \in Client /\ tagged' = tagged
        /\ joined' \subseteq joined \cup {new} /\ AbsentInv'
        /\ \A d : Installed(d)' <=> Installed(d)
    BY <1>1 DEF StakersInv, StakersTypeOK, SafeInv, AbsentInv, NewUp, Created, Installed
  <2>2. Held' \subseteq {selected'}
    BY <1>1, <2>1 DEF StakersInv, SafeInv, HeldInv, Held, NewUp, Settles
  <2>3. OnTimeInv'
    BY <1>1, <2>1 DEF StakersInv, SafeInv, LockInv, OnTimeInv, OnTime, NewUp, Settles,
                      persistVars
  <2> QED
    BY <1>1, <2>1, <2>2, <2>3 DEF SafeInv, LockInv, HeldInv, NewUp, Return
<1>2. CASE NewUpFails
  <2>1. setting = "up" /\ new \in Client /\ UpToAPoint(new)
    BY <1>2 DEF StakersInv, StakersTypeOK, NewUpFails
  <2>2. /\ AbsentInv' /\ tagged' = tagged /\ joined' \subseteq joined \cup {new}
        /\ \A d : Installed(d)' <=> Installed(d)
    BY <2>1, UpToAPointHeld DEF StakersInv, SafeInv
  <2> QED
    BY <1>2, <2>1, <2>2 DEF StakersInv, SafeInv, LockInv, OnTimeInv, OnTime, HeldInv, Held,
                            NewUpFails, LeavesNew, Return, persistVars
<1> QED
  BY <1>1, <1>2

LEMMA NewInstalledInv ==
  ASSUME StakersInv, NewInstalled \/ NewInstallFails
  PROVE  SafeInv'
<1>1. new \in Client /\ setting = "install" /\ Held = {} /\ ~Installed(new)
  BY DEF StakersInv, StakersTypeOK, SafeInv, HeldInv, NewInstalled, NewInstallFails
<1>2. CASE NewInstalled
  BY <1>1, <1>2
  DEF StakersInv, StakersTypeOK, SafeInv, AbsentInv, LockInv, OnTimeInv, OnTime, HeldInv, Held,
      Installed, Locked, Stored, Settles, NewInstalled, InstalledWithNetwork, Return, persistVars
<1>3. CASE NewInstallFails /\ UNCHANGED <<clientVars, stray>>
  BY <1>1, <1>3
  DEF StakersInv, SafeInv, AbsentInv, LockInv, OnTimeInv, OnTime, HeldInv, Held, Installed,
      NewInstallFails, Return, clientVars, persistVars
<1>4. CASE /\ NewInstallFails /\ LeavesNew
           /\ \E state \in {"stopped", "running"} : InstalledWithNetwork(state)
  BY <1>1, <1>4
  DEF StakersInv, StakersTypeOK, SafeInv, AbsentInv, LockInv, OnTimeInv, OnTime, HeldInv, Held,
      Installed, NewInstallFails, InstalledWithNetwork, LeavesNew, Return, persistVars
<1> QED
  BY <1>2, <1>3, <1>4 DEF NewInstallFails

\* What the daemon puts on the network is the selected client, and the new one
\* of a switch that is past the previous one, or it is stray.
LEMMA OnTimeHeld ==
  ASSUME StakersInv, OnTime, Installed(persisted), persisted \in Client
  PROVE  /\ setting # "up" => persisted = selected
         /\ setting \in {"new", "up"} => persisted = new
         /\ setting # "install"
         /\ setting = "unset" => prev # persisted
         /\ setting \in {"settings", "prev", "unset"} /\ prev # selected => persisted = new
  BY DEF StakersInv, SafeInv, HeldInv, OnTime

LEMMA PersistListedInv ==
  ASSUME StakersInv, PersistListed
  PROVE  SafeInv'
<1>1. CASE Installed(persisted)
  BY <1>1 DEF StakersInv, SafeInv, AbsentInv, LockInv, OnTimeInv, HeldInv, Held, Installed,
              PersistListed, clientVars, setVars
<1>2. CASE ~Installed(persisted)
  <2>1. Held' \subseteq Held /\ (Held \subseteq {selected} => Held' = {})
    BY <1>2, StakerAssumption
    DEF StakersInv, StakersTypeOK, SafeInv, AbsentInv, Held, Installed, PersistListed,
        Overwritten, clientVars
  <2> QED
    BY <1>2, <2>1 DEF StakersInv, SafeInv, AbsentInv, LockInv, OnTimeInv, HeldInv, Installed,
                      PersistListed, PersistReturn, clientVars, setVars
<1> QED
  BY <1>1, <1>2

LEMMA PersistSettingsInv ==
  ASSUME StakersInv, PersistSettings
  PROVE  SafeInv'
<1>1. /\ persisted \in Client /\ Installed(persisted) /\ joined' = joined
      /\ tagged' = tagged \cup {persisted}
      /\ stray' = IF OnTime THEN stray ELSE stray \cup {persisted}
      /\ UNCHANGED <<selected, setVars, container>>
  BY DEF StakersInv, StakersTypeOK, PersistSettings
<1>2. Held' \subseteq Held \cup {persisted} /\ (~OnTime => Held' \subseteq Held)
  BY <1>1 DEF Held
<1>3. HeldInv'
  BY <1>1, <1>2, OnTimeHeld DEF StakersInv, SafeInv, HeldInv, Installed, setVars
<1>4. AbsentInv'
  BY <1>1 DEF StakersInv, SafeInv, AbsentInv, Installed
<1>5. LockInv'
  BY <1>1 DEF StakersInv, SafeInv, LockInv, Locked, PersistSettings, PersistReturn, setVars
<1>6. OnTimeInv'
  BY <1>1 DEF OnTimeInv, OnTime, PersistSettings, PersistReturn, setVars
<1> QED
  BY <1>3, <1>4, <1>5, <1>6 DEF SafeInv

LEMMA PersistUpInv ==
  ASSUME StakersInv, PersistUp
  PROVE  SafeInv'
<1>1. /\ persisted \in Client /\ Installed(persisted) /\ tagged' = tagged /\ AbsentInv'
      /\ joined' \subseteq joined \cup {persisted} /\ UNCHANGED setVars
      /\ \A d : Installed(d)' <=> Installed(d)
  BY DEF StakersInv, StakersTypeOK, SafeInv, AbsentInv, PersistUp, Created, Installed
<1>2. setting # "idle" => /\ Held' \subseteq Held \cup {persisted} /\ stray \subseteq stray'
                          /\ ~OnTime => Held' \subseteq Held
  BY <1>1 DEF StakersInv, SafeInv, OnTimeInv, Held, PersistUp
<1>3. Held \subseteq {selected} => Held' \subseteq {persisted}
  BY <1>1, StakerAssumption
  DEF StakersInv, StakersTypeOK, Held, PersistUp, Overwritten
<1>4. selected' = persisted
  BY DEF PersistUp
<1>5. Held' \subseteq {selected'} \/ setting = "up"
  BY <1>3, <1>4 DEF StakersInv, SafeInv, HeldInv
<1>6. setting \in {"new", "up"} => Held' \subseteq {new}
  BY <1>1, <1>2, OnTimeHeld DEF StakersInv, SafeInv, HeldInv
<1>7. setting = "install" => Held' = {}
  BY <1>1, <1>2, OnTimeHeld DEF StakersInv, SafeInv, HeldInv
<1>8. setting \in {"settings", "prev", "unset"} /\ prev # selected' => Held' \subseteq {new}
  <2> SUFFICES ASSUME setting \in {"settings", "prev", "unset"}, prev # persisted
               PROVE  Held' \subseteq {new}
    BY <1>4
  <2>1. CASE OnTime
    BY <1>1, <1>3, <2>1 DEF StakersInv, SafeInv, HeldInv, OnTime
  <2>2. CASE ~OnTime
    BY <1>1, <1>2, <1>3, <2>2 DEF StakersInv, SafeInv, OnTimeInv, HeldInv, Held, PersistUp
  <2> QED
    BY <2>1, <2>2
<1>9. HeldInv'
  BY <1>1, <1>2, <1>5, <1>6, <1>7, <1>8 DEF StakersInv, SafeInv, HeldInv, setVars
<1> QED
  BY <1>1, <1>9 DEF SafeInv, LockInv, OnTimeInv, PersistUp, PersistReturn

LEMMA PersistFailsInv ==
  ASSUME StakersInv, PersistSelected \/ PersistSettingsFail \/ PersistUpFails
  PROVE  SafeInv'
<1>1. CASE PersistSelected \/ PersistSettingsFail
  BY <1>1 DEF StakersInv, SafeInv, AbsentInv, LockInv, OnTimeInv, HeldInv, Held, Installed,
              PersistSelected, PersistSettingsFail, PersistReturn, clientVars, setVars
<1>2. CASE PersistUpFails
  <2>1. persisted \in Client /\ UpToAPoint(persisted) /\ UNCHANGED <<selected, setVars, stray>>
    BY <1>2 DEF StakersInv, StakersTypeOK, PersistUpFails
  <2>2. /\ AbsentInv' /\ tagged' = tagged /\ joined' \subseteq joined \cup {persisted}
        /\ \A d : Installed(d)' <=> Installed(d)
    BY <2>1, UpToAPointHeld DEF StakersInv, SafeInv
  <2>3. UNCHANGED clientVars \/ Installed(persisted)
    BY <2>1 DEF UpToAPoint
  <2>4. Held' \subseteq Held \/ (OnTime /\ Installed(persisted))
    BY <1>2, <2>1, <2>2, <2>3 DEF StakersInv, SafeInv, OnTimeInv, Held, PersistUpFails, clientVars
  <2>5. Held' \subseteq Held \cup {persisted}
    BY <2>1, <2>2 DEF Held
  <2>6. HeldInv'
    BY <2>1, <2>2, <2>4, <2>5, OnTimeHeld DEF StakersInv, SafeInv, HeldInv, setVars
  <2> QED
    BY <1>2, <2>2, <2>6 DEF SafeInv, LockInv, OnTimeInv, PersistUpFails, PersistReturn
<1> QED
  BY <1>1, <1>2

LEMMA UserInv ==
  ASSUME StakersInv, UserStep
  PROVE  SafeInv'
<1> PICK c \in Client : StartOrStop(c) \/ Recreate(c) \/ Remove(c) \/ Install(c)
  BY DEF UserStep
<1>1. CASE StartOrStop(c)
  BY <1>1 DEF StakersInv, StakersTypeOK, SafeInv, AbsentInv, LockInv, OnTimeInv, OnTime, HeldInv,
              Held, StartOrStop, Installed, UserVars, setVars, persistVars
<1>2. CASE Recreate(c)
  BY <1>2 DEF StakersInv, StakersTypeOK, SafeInv, AbsentInv, LockInv, OnTimeInv, OnTime, HeldInv,
              Held, Recreate, Created, Installed, UserVars, setVars, persistVars
<1>3. CASE Remove(c)
  BY <1>3 DEF StakersInv, StakersTypeOK, SafeInv, AbsentInv, LockInv, OnTimeInv, OnTime, HeldInv,
              Held, Remove, Installed, UserVars, setVars, persistVars
<1>4. CASE Install(c)
  BY <1>4 DEF StakersInv, StakersTypeOK, SafeInv, AbsentInv, LockInv, OnTimeInv, OnTime, HeldInv,
              Held, Install, Installed, Locked, UserVars, setVars, persistVars
<1> QED
  BY <1>1, <1>2, <1>3, <1>4

LEMMA RestartInv ==
  ASSUME StakersInv, StakersRestart
  PROVE  SafeInv'
<1>1. setting' = "idle" /\ persisting' = "idle" /\ selected' = selected
  BY DEF StakersRestart, Return, PersistReturn
<1>2. CASE setting = "up"
  <2>1. UpToAPoint(new) /\ LeavesNew /\ new \in Client
    BY <1>2 DEF StakersRestart, StakersInv, StakersTypeOK
  <2>2. AbsentInv' /\ tagged' = tagged /\ joined' \subseteq joined \cup {new}
    BY <2>1, UpToAPointHeld DEF StakersInv, SafeInv
  <2> QED
    BY <1>1, <1>2, <2>1, <2>2 DEF StakersInv, SafeInv, LockInv, OnTimeInv, HeldInv, Held, LeavesNew
<1>3. CASE setting = "install"
  <2>1. UNCHANGED <<clientVars, stray>> \/ (InstalledWithNetwork("running") /\ LeavesNew)
    BY <1>3 DEF StakersRestart
  <2>2. new \in Client
    BY <1>3 DEF StakersInv, StakersTypeOK
  <2> QED
    BY <1>1, <1>3, <2>1, <2>2
    DEF StakersInv, StakersTypeOK, SafeInv, AbsentInv, LockInv, OnTimeInv, HeldInv, Held,
        InstalledWithNetwork, LeavesNew, clientVars
<1>4. CASE setting \notin {"up", "install"}
  <2>1. UNCHANGED <<clientVars, stray>>
    BY <1>4 DEF StakersRestart
  <2> QED
    BY <1>1, <1>4, <2>1
    DEF StakersInv, SafeInv, AbsentInv, LockInv, OnTimeInv, HeldInv, Held, clientVars
<1> QED
  BY <1>2, <1>3, <1>4

LEMMA StakersNextInv ==
  ASSUME StakersInv, [StakersNext]_stakerVars
  PROVE  StakersInv'
<1>1. StakersTypeOK'
  BY StakersNextType DEF StakersInv
<1>2. CASE SetStep
  BY <1>1, <1>2, SetReadsInv, PrevListedInv, UnsetInv, NewListedInv, NewUpInv, NewInstalledInv
  DEF SetStep, StakersInv
<1>3. CASE PersistStep
  BY <1>1, <1>3, PersistListedInv, PersistSettingsInv, PersistUpInv, PersistFailsInv
  DEF PersistStep, StakersInv
<1>4. CASE UserStep \/ StakersRestart
  BY <1>1, <1>4, UserInv, RestartInv DEF StakersInv
<1>5. CASE UNCHANGED stakerVars
  BY <1>1, <1>5 DEF StakersInv, SafeInv, AbsentInv, LockInv, OnTimeInv, OnTime, HeldInv, Held,
                    Installed, stakerVars, clientVars, setVars, persistVars
<1> QED
  BY <1>2, <1>3, <1>4, <1>5 DEF StakersNext

LEMMA StakersInvariant == StakersSpec => []StakersInv
<1>1. StakersInv /\ [StakersNext]_stakerVars => StakersInv'
  BY StakersNextInv
<1> QED
  BY <1>1, StakersInitInv, PTL DEF StakersSpec

(* However switches, the daemon, the user and restarts interleave, two clients
   stake at the same time only if a switch that failed, or the daemon in the
   middle of a switch or after one, left one of them on the network. *)
THEOREM OneClient == StakersSpec => []OneClientStakes
<1>1. StakersInv => OneClientStakes
  BY DEF StakersInv, StakersTypeOK, SafeInv, HeldInv, Held, OneClientStakes, Staking
<1> QED
  BY <1>1, StakersInvariant, PTL

(* When neither a switch nor the daemon is at work, the selected client is the
   only one whose compose file or containers have the staker network, but for
   those that a failure or an overlap of the two left there. *)
THEOREM OnlySelectedTagged == StakersSpec => []TaggedIsSelected
<1>1. StakersInv => TaggedIsSelected
  BY DEF StakersInv, SafeInv, HeldInv, Held, TaggedIsSelected
<1> QED
  BY <1>1, StakersInvariant, PTL
=============================================================================

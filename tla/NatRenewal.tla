----------------------------- MODULE NatRenewal -----------------------------
(***************************************************************************)
(* The NAT renewal daemon of @dappnode/daemons: it opens on the router the *)
(* ports that containers publish, at intervals and on request.  Requests   *)
(* go through runOnlyOneSequentially, a cargo that runs natRenewal once    *)
(* for all the requests that wait and never twice at the same time.        *)
(***************************************************************************)
EXTENDS Naturals

CONSTANTS
  Port,       \* host ports, with their protocol
  NoPort,     \* none
  MaxCrashes  \* bound: restarts of the dappmanager

ASSUME NatAssumption == NoPort \notin Port /\ MaxCrashes \in Nat

VARIABLES
  published,      \* ports of the containers, or of their compose files
  publishing,     \* those whose call is not at its end
  silent,         \* history: those whose call emitted nothing, before any request
  router,         \* ports the router maps to this host
  upnp,           \* the router answers to UPnP
  disabled,       \* isNatRenewalDisabled
  upnpAvailable,  \* upnpAvailable
  portsToOpen,    \* portsToOpen
  isFirstRun,     \* isFirstRunGlobal
  cargo,          \* a request waits in the cargo
  renewal,        \* the await natRenewal is at
  closing,        \* its isFirstRun
  unopened,       \* ports its loop has not opened
  port,           \* the one it is at
  crashes

natPorts == <<published, publishing, silent>>
natDb   == <<disabled, upnpAvailable, portsToOpen>>
natLoop == <<closing, unopened, port>>
natRun  == <<isFirstRun, cargo, renewal, natLoop>>
natVars == <<natPorts, router, upnp, natDb, natRun, crashes>>

Renewals == {"idle", "list", "containers", "close", "open", "verify"}

\* The daemon asks for a run when it starts, if it is enabled.
NatInit ==
  /\ published \in SUBSET Port /\ publishing = {} /\ silent = {}
  /\ router = {} /\ upnp \in BOOLEAN
  /\ disabled \in BOOLEAN /\ upnpAvailable = FALSE /\ portsToOpen = {}
  /\ isFirstRun = TRUE /\ cargo = ~disabled
  /\ renewal = "idle" /\ closing = FALSE /\ unopened = {} /\ port = NoPort
  /\ crashes = 0

----------------------------------------------------------------------------
\* Who asks for a run

(* A port is published by an install, by packageSetPortMappings, or, if docker
   chooses it, by the start of a container. *)
Publish(p) ==
  /\ p \notin published
  /\ published' = published \cup {p} /\ publishing' = publishing \cup {p}
  /\ UNCHANGED <<silent, router, upnp, natDb, natRun, crashes>>

(* A package that is removed, or a port that is unset, asks for nothing. *)
Unpublish(p) ==
  /\ p \in published
  /\ published' = published \ {p}
  /\ publishing' = publishing \ {p} /\ silent' = silent \ {p}
  /\ UNCHANGED <<router, upnp, natDb, natRun, crashes>>

(* A call that throws emits nothing: packageSetPortMappings that publishes the
   earlier ports again, or an install that rolls back.  Nor do the calls that
   start, restart or reset a package. *)
EndsSilently(p) ==
  /\ p \in publishing
  /\ publishing' = publishing \ {p} /\ silent' = silent \cup {p}
  /\ UNCHANGED <<published, router, upnp, natDb, natRun, crashes>>

(* Mutant: no run is asked for on a host that had no UPnP. *)
RequestIfAvailable ==
  cargo' = (cargo \/ (~disabled /\ upnpAvailable)) /\ silent' = {}

\* runThrottledNatRenewalIfEnabled
RequestIfEnabled == cargo' = (cargo \/ ~disabled) /\ silent' = {}

EmitRunNatRenewal(p) ==
  /\ p \in publishing /\ publishing' = publishing \ {p}
  /\ RequestIfEnabled
  /\ UNCHANGED <<published, router, upnp, natDb, isFirstRun, renewal, natLoop, crashes>>

Interval ==
  /\ RequestIfEnabled
  /\ UNCHANGED <<published, publishing, router, upnp, natDb, isFirstRun, renewal,
                 natLoop, crashes>>

(* natRenewalEnable asks for a run whether it enables or disables. *)
NatRenewalEnable(enable) ==
  /\ disabled' = ~enable /\ cargo' = TRUE /\ silent' = {}
  /\ UNCHANGED <<published, publishing, router, upnp, upnpAvailable, portsToOpen, isFirstRun,
                 renewal, natLoop, crashes>>

----------------------------------------------------------------------------
\* natRenewal

(* Mutant: requests that come while a run is at work are dropped. *)
RunsDropping ==
  /\ cargo /\ cargo' = FALSE
  /\ IF disabled \/ renewal # "idle"
     THEN UNCHANGED <<renewal, closing, isFirstRun>>
     ELSE renewal' = "list" /\ closing' = isFirstRun /\ isFirstRun' = FALSE
  /\ UNCHANGED <<natPorts, router, upnp, natDb, unopened, port, crashes>>

(* The cargo is free: one run for all the requests that wait. *)
Runs ==
  /\ cargo /\ renewal = "idle"
  /\ cargo' = FALSE
  /\ IF disabled
     THEN UNCHANGED <<renewal, closing, isFirstRun>>
     ELSE renewal' = "list" /\ closing' = isFirstRun /\ isFirstRun' = FALSE
  /\ UNCHANGED <<natPorts, router, upnp, natDb, unopened, port, crashes>>

(* Every error ends the run: the next one starts from the beginning. *)
RunFails ==
  /\ renewal \in {"list", "containers", "verify"}
  /\ renewal' = "idle"
  /\ UNCHANGED <<natPorts, router, upnp, natDb, isFirstRun, cargo, natLoop, crashes>>

(* upnpc lists the mappings of the router, or says that there is no device. *)
ListsMappings ==
  /\ renewal = "list"
  /\ upnpAvailable' = upnp
  /\ renewal' = IF upnp THEN "containers" ELSE "idle"
  /\ UNCHANGED <<natPorts, router, upnp, disabled, portsToOpen, isFirstRun, cargo,
                 natLoop, crashes>>

(* Mutant: a port is off the list before it is opened. *)
NextPortTaken(left) ==
  IF left = {}
  THEN renewal' = "verify" /\ port' = NoPort /\ unopened' = left
  ELSE /\ port' \in left /\ unopened' = left \ {port'}
       /\ renewal' = (IF closing THEN "close" ELSE "open")

\* The loop over the ports comes to the next one.
NextPort(left) ==
  /\ unopened' = left
  /\ IF left = {}
     THEN renewal' = "verify" /\ port' = NoPort
     ELSE port' \in left /\ renewal' = (IF closing THEN "close" ELSE "open")

(* getPortsToOpen reads the containers.  Without any port the list is not
   read again. *)
ReadsPorts ==
  /\ renewal = "containers"
  /\ portsToOpen' = published /\ silent' = {}
  /\ IF published = {} THEN renewal' = "idle" /\ UNCHANGED <<unopened, port>>
                       ELSE NextPort(published)
  /\ UNCHANGED <<published, publishing, router, upnp, disabled, upnpAvailable, isFirstRun,
                 cargo, closing, crashes>>

(* The first run closes a port before it opens it; errors do not matter. *)
ClosesPort ==
  /\ renewal = "close" /\ renewal' = "open"
  /\ router' = router \/ (upnp /\ router' = router \ {port})
  /\ UNCHANGED <<natPorts, upnp, natDb, isFirstRun, cargo, natLoop, crashes>>

(* The port is opened, or refreshed. *)
OpensPort ==
  /\ renewal = "open" /\ upnp
  /\ router' = router \cup {port} /\ NextPort(unopened \ {port})
  /\ UNCHANGED <<natPorts, upnp, natDb, isFirstRun, cargo, closing, crashes>>

(* An error is logged, and the loop goes on. *)
OpenFails ==
  /\ renewal = "open"
  /\ NextPort(unopened \ {port})
  /\ UNCHANGED <<natPorts, router, upnp, natDb, isFirstRun, cargo, closing, crashes>>

(* The list is read again, to log the ports that are not open. *)
Verifies ==
  /\ renewal = "verify" /\ renewal' = "idle"
  /\ UNCHANGED <<natPorts, router, upnp, natDb, isFirstRun, cargo, natLoop, crashes>>

----------------------------------------------------------------------------
\* The router and the process

(* The router restarts, or the leases of its mappings end. *)
RouterForgets ==
  /\ router # {} /\ router' = {}
  /\ UNCHANGED <<natPorts, upnp, natDb, natRun, crashes>>

RouterSwitches ==
  /\ upnp' = ~upnp
  /\ UNCHANGED <<natPorts, router, natDb, natRun, crashes>>

(* The dappmanager restarts: only the database stays, and the daemon starts. *)
NatRestart ==
  /\ crashes < MaxCrashes /\ crashes' = crashes + 1
  /\ publishing' = {} /\ silent' = {}
  /\ isFirstRun' = TRUE /\ cargo' = ~disabled
  /\ renewal' = "idle" /\ closing' = FALSE /\ unopened' = {} /\ port' = NoPort
  /\ UNCHANGED <<published, router, upnp, natDb>>

RenewalStep ==
  \/ Runs \/ RunFails \/ ListsMappings \/ ReadsPorts
  \/ ClosesPort \/ OpensPort \/ OpenFails \/ Verifies

NatNext ==
  \/ \E p \in Port : Publish(p) \/ Unpublish(p) \/ EndsSilently(p) \/ EmitRunNatRenewal(p)
  \/ Interval
  \/ \E enable \in BOOLEAN : NatRenewalEnable(enable)
  \/ RenewalStep
  \/ RouterForgets \/ RouterSwitches \/ NatRestart

NatSpec == NatInit /\ [][NatNext]_natVars

(* The interval and the cargo come round.  The calls to the router and to
   docker may fail any number of times, but not for ever. *)
NatFairness ==
  /\ WF_natVars(Interval) /\ WF_natVars(RenewalStep)
  /\ SF_natVars(ListsMappings) /\ SF_natVars(ReadsPorts)
  /\ \A p \in Port : SF_natVars(port = p /\ OpensPort)

NatFairSpec == NatSpec /\ NatFairness

----------------------------------------------------------------------------
\* Properties

NatTypeOK ==
  /\ published \subseteq Port /\ router \subseteq Port /\ portsToOpen \subseteq Port
  /\ publishing \subseteq published /\ silent \subseteq published \ publishing
  /\ upnp \in BOOLEAN /\ cargo \in BOOLEAN
  /\ disabled \in BOOLEAN /\ upnpAvailable \in BOOLEAN
  /\ isFirstRun \in BOOLEAN /\ closing \in BOOLEAN
  /\ renewal \in Renewals /\ unopened \subseteq Port
  /\ port \in Port \cup {NoPort}
  /\ renewal \in {"close", "open"} => port \in unopened
  /\ crashes \in 0..MaxCrashes

(* A port that is published while a run is at work, after the run read the
   containers, is not missed: its call is not at its end, or another run waits,
   unless the renewal is disabled.  The cargo drops no request that came too
   late for the run it found at work.  A port whose call emits nothing waits for
   the next request. *)
PortsNotMissed ==
  renewal \in {"close", "open", "verify"} =>
    published \ silent \subseteq portsToOpen \cup publishing \/ cargo \/ disabled

(* A port that stays published is opened, again and again, as long as the
   renewal is enabled and the router answers: errors, a router that forgets
   its mappings and restarts only delay it. *)
PortsOpened ==
  \A p \in Port :
    <>[](p \in published /\ upnp /\ ~disabled) => []<>(p \in router)
=============================================================================

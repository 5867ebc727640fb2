---------------------------- MODULE DockerNetwork ----------------------------
(***************************************************************************)
(* The daemons of @dappnode/daemons that keep the containers on a private  *)
(* docker network: a round every 30 minutes (ensureDockerNetworkConfig)    *)
(* connects every container, bind and the dappmanager with the addresses   *)
(* that others know them by; on dncore_network the bind daemon             *)
(* (ensureBindContainerIpAndRunning) looks after bind besides.  Both take  *)
(* a container that has such an address off the network.                   *)
(***************************************************************************)
EXTENDS Naturals

CONSTANTS
  Container,          \* containers; each package has one
  Bind, Dappmanager,  \* the two with an address of their own
  Pos,                \* the position of a package's name among all names
  Ip,                 \* addresses of the network, which do not run out
  BindIp, DappmanagerIp,
  None,               \* no address, no container
  MaxAttempts,        \* maxAttempts
  MaxMoves,           \* bound: containers that are started, stopped, removed
  MaxFails            \* bound: calls of docker that fail

ASSUME ContainerAssumption ==
  /\ {Bind, Dappmanager} \subseteq Container /\ Bind # Dappmanager
  /\ None \notin Container /\ None \notin Ip
  /\ Pos \in [Container -> Nat]
ASSUME IpAssumption == {BindIp, DappmanagerIp} \subseteq Ip /\ BindIp # DappmanagerIp
ASSUME CountAssumption ==
  {MaxAttempts, MaxMoves, MaxFails} \subseteq Nat /\ MaxAttempts > 1

VARIABLES
  \* docker
  network,  \* the network this is about
  state,    \* whether a container runs
  addr,     \* its address on the network while it runs, or None
  \* the round
  at,       \* the await it is at
  todo,     \* containers it has not come to
  cur,      \* the one it is at
  tries,    \* attemptCount + 1, or 0 before connectPkgContainerRetryOnIpUsed
  victim,   \* conflictingContainer
  \* the bind daemon
  watch,    \* the await it is at
  taken,    \* its conflictingContainer
  \* history: nothing has disturbed this round; rounds in a row, up to 2, that
  \* nothing disturbed, nor the time between them
  quiet, calm,
  \* bounds
  moves, fails

dockerVars == <<network, state, addr>>
roundVars  == <<at, todo, cur, tries, victim>>
watchVars  == <<watch, taken>>
history    == <<quiet, calm>>
bounds     == <<moves, fails>>
vars       == <<dockerVars, roundVars, watchVars, history, bounds>>

Core == "dncore_network"

TypeOK ==
  /\ network \in {Core, "dnprivate_network"}
  /\ state \in [Container -> {"up", "down", "gone"}]
  /\ addr \in [Container -> Ip \cup {None}]
  /\ at \in {"sleep", "list", "next", "look", "connect", "find", "free", "drop",
             "inspect", "restart", "attach", "detach", "recreate"}
  /\ todo \subseteq Container /\ cur \in Container /\ tries \in 0..MaxAttempts
  /\ victim \in Container
  /\ watch \in {"sleep", "running", "network", "address", "free", "drop", "up",
                "back", "recreate"}
  /\ taken \in Container \cup {None}
  /\ quiet \in BOOLEAN /\ calm \in 0..2
  /\ moves \in 0..MaxMoves /\ fails \in 0..MaxFails

\* Only containers that run have an address, no two the same.
Endpoints ==
  /\ \A c \in Container : addr[c] # None => state[c] = "up"
  /\ \A c, d \in Container : addr[c] = addr[d] /\ c # d => addr[c] = None

Init ==
  /\ network \in {Core, "dnprivate_network"}
  /\ state \in [Container -> {"up", "down"}] /\ state[Dappmanager] = "up"
  /\ addr \in [Container -> Ip \cup {None}] /\ Endpoints
  /\ at = "sleep" /\ todo = {} /\ cur = Bind /\ tries = 0 /\ victim = Bind
  /\ watch = "sleep" /\ taken = None
  /\ quiet = FALSE /\ calm = 0
  /\ moves = 0 /\ fails = 0

(* The address a round connects a container with: the new network has none for
   the dappmanager. *)
Own(c) ==
  CASE c = Bind -> BindIp
    [] c = Dappmanager /\ network = Core -> DappmanagerIp
    [] OTHER -> None

Free == Ip \ {addr[c] : c \in Container}

Disturb     == quiet' = FALSE /\ calm' = 0
Undisturbed == UNCHANGED history

-----------------------------------------------------------------------------
(* docker *)

(* A container starts, anew if it ran.  The compose file of bind has its
   address on dncore_network, where ensureBindComposeIp puts it: if that is
   taken the container stays down.  Any other gets a free one, if its compose
   file has the network. *)
Starts(c) ==
  \E a \in (Ip \ {addr[d] : d \in Container \ {c}}) \cup {None} :
    /\ c = Bind /\ network = Core => a = BindIp
    /\ state' = [state EXCEPT ![c] = "up"] /\ addr' = [addr EXCEPT ![c] = a]
    /\ UNCHANGED network

StartFails(c) ==
  /\ c = Bind /\ network = Core
  /\ \E d \in Container \ {c} : addr[d] = BindIp
  /\ state' = [state EXCEPT ![c] = "down"] /\ addr' = [addr EXCEPT ![c] = None]
  /\ UNCHANGED network

Disconnects(c) ==
  /\ addr' = [addr EXCEPT ![c] = None]
  /\ UNCHANGED <<network, state>>

Connects(c, a) ==
  /\ state[c] = "up" /\ addr[c] = None
  /\ a \in Free
  /\ addr' = [addr EXCEPT ![c] = a]
  /\ UNCHANGED <<network, state>>

(* The user, installs, updates and removals. *)
Move(c) ==
  /\ moves < MaxMoves /\ moves' = moves + 1
  /\ c # Dappmanager
  /\ \/ Starts(c) \/ StartFails(c)
     \/ \E s \in {"down", "gone"} :
          /\ state' = [state EXCEPT ![c] = s] /\ addr' = [addr EXCEPT ![c] = None]
          /\ UNCHANGED network
  /\ Disturb
  /\ UNCHANGED <<roundVars, watchVars, fails>>

(* The process, which is the dappmanager's container, starts anew. *)
Restart ==
  /\ moves < MaxMoves /\ moves' = moves + 1
  /\ Starts(Dappmanager)
  /\ at' = "sleep" /\ watch' = "sleep"
  /\ Disturb
  /\ UNCHANGED <<todo, cur, tries, victim, taken, fails>>

-----------------------------------------------------------------------------
(* ensureDockerNetworkConfig *)

RoundBegins ==
  /\ at = "sleep" /\ at' = "list"
  /\ quiet' = TRUE /\ calm' = calm
  /\ UNCHANGED <<dockerVars, todo, cur, tries, victim, watchVars, bounds>>

(* createDockerNetwork, then packagesGet. *)
ListPackages ==
  /\ at = "list" /\ at' = "next"
  /\ todo' = {c \in Container : state[c] # "gone"}
  /\ Undisturbed
  /\ UNCHANGED <<dockerVars, cur, tries, victim, watchVars, bounds>>

(* packagesGet sorts by name.  setDappmanagerAndBindFirst changes nothing: it
   compares names of packages with the names of bind's and the dappmanager's
   containers. *)
Before(c, d) == Pos[c] <= Pos[d]

(* writeDockerNetworkConfig and the compose up of the package, which creates
   what is not there and starts nothing, then connectPkgContainers. *)
NextPackage(c) ==
  /\ at = "next" /\ c \in todo /\ \A d \in todo : Before(c, d)
  /\ cur' = c /\ todo' = todo \ {c} /\ tries' = 0
  /\ at' = IF Own(c) = None THEN "look" ELSE "find"
  /\ Undisturbed
  /\ UNCHANGED <<dockerVars, victim, watchVars, bounds>>

RoundEnds ==
  /\ at = "next" /\ todo = {} /\ at' = "sleep"
  /\ calm' = IF quiet /\ calm < 2 THEN calm + 1 ELSE calm
  /\ UNCHANGED <<dockerVars, todo, cur, tries, victim, watchVars, quiet, bounds>>

(* isContainerConnected *)
LookConnected ==
  /\ at = "look" /\ at' = IF addr[cur] # None THEN "next" ELSE "connect"
  /\ Undisturbed
  /\ UNCHANGED <<dockerVars, todo, cur, tries, victim, watchVars, bounds>>

(* network.connect of a container without an address of its own.  If it does
   not run, docker only notes it; if it is connected by now the error is logged.
   The network has more addresses than there are containers. *)
Connect ==
  /\ at = "connect" /\ at' = "next"
  /\ \/ \E a \in Ip : Connects(cur, a)
     \/ (state[cur] # "up" \/ addr[cur] # None) /\ UNCHANGED dockerVars
  /\ Undisturbed
  /\ UNCHANGED <<todo, cur, tries, victim, watchVars, bounds>>

-----------------------------------------------------------------------------
(* connectPkgContainerWithIp *)

(* The first look: is the address with another container? *)
FindContainerByIP ==
  /\ at = "find"
  /\ at' = IF \E d \in Container \ {cur} : addr[d] = Own(cur) THEN "free" ELSE "inspect"
  /\ Undisturbed
  /\ UNCHANGED <<dockerVars, todo, cur, tries, victim, watchVars, bounds>>

(* What follows disconnectConflictingContainerIfAny: the inspection, or the next
   attempt to connect. *)
AfterDisconnect ==
  IF tries = 0
  THEN at' = "inspect" /\ tries' = tries
  ELSE IF tries < MaxAttempts
       THEN at' = "attach" /\ tries' = tries + 1
       ELSE at' = "next" /\ tries' = tries

(* An error of docker about d ends the work at this container, save a 404 once
   bind was inspected. *)
Thrown(d) ==
  /\ at' = IF tries > 0 /\ cur = Bind /\ state[d] = "gone" THEN "recreate" ELSE "next"
  /\ tries' = tries

(* disconnectConflictingContainerIfAny looks again, at any container. *)
FindConflicting ==
  /\ at = "free"
  /\ IF \E d \in Container : addr[d] = Own(cur)
     THEN /\ \E d \in Container : addr[d] = Own(cur) /\ victim' = d
          /\ at' = "drop" /\ tries' = tries
     ELSE AfterDisconnect /\ victim' = victim
  /\ Undisturbed
  /\ UNCHANGED <<dockerVars, todo, cur, watchVars, bounds>>

(* What it found is disconnected by its name.  Of a container that has stopped
   only the configuration is. *)
DisconnectConflicting ==
  /\ at = "drop"
  /\ IF addr[victim] # None
     THEN Disconnects(victim) /\ AfterDisconnect
     ELSE UNCHANGED dockerVars /\ (AfterDisconnect \/ Thrown(victim))
  /\ Undisturbed
  /\ UNCHANGED <<todo, cur, victim, watchVars, bounds>>

(* Mutant: a container that is connected is not looked at further. *)
InspectConnected ==
  /\ at = "inspect"
  /\ CASE state[cur] = "gone" -> at' = (IF cur = Bind THEN "recreate" ELSE "next")
       [] state[cur] = "down" -> at' = "restart"
       [] addr[cur] # None -> at' = "next"
       [] OTHER -> at' = "attach"
  /\ tries' = 1
  /\ Undisturbed
  /\ UNCHANGED <<dockerVars, todo, cur, victim, watchVars, bounds>>

Inspect ==
  /\ at = "inspect"
  /\ CASE state[cur] = "gone" -> at' = (IF cur = Bind THEN "recreate" ELSE "next")
       [] state[cur] = "down" -> at' = "restart"
       [] addr[cur] = Own(cur) -> at' = "next"
       [] OTHER -> at' = "attach"
  /\ tries' = 1
  /\ Undisturbed
  /\ UNCHANGED <<dockerVars, todo, cur, victim, watchVars, bounds>>

(* A container that does not run is restarted.  What was read of its networks
   before is not read again. *)
RestartTarget ==
  /\ at = "restart"
  /\ \/ state[cur] # "gone" /\ Starts(cur) /\ at' = "attach" /\ tries' = tries
     \/ state[cur] # "gone" /\ StartFails(cur) /\ Thrown(cur)
     \/ state[cur] = "gone" /\ UNCHANGED dockerVars /\ Thrown(cur)
  /\ Undisturbed
  /\ UNCHANGED <<todo, cur, victim, watchVars, bounds>>

(* An attempt to connect with the address: it succeeds, the address is in use,
   or the container is connected already.  Any other error gives up. *)
ConnectWithIp ==
  /\ at = "attach"
  /\ \/ Connects(cur, Own(cur)) /\ at' = "next"
     \/ /\ state[cur] # "up" /\ at' = "next" /\ UNCHANGED dockerVars
     \/ /\ state[cur] = "up" /\ \E d \in Container \ {cur} : addr[d] = Own(cur)
        /\ at' = "free" /\ UNCHANGED dockerVars
     \/ addr[cur] # None /\ at' = "detach" /\ UNCHANGED dockerVars
  /\ Undisturbed
  /\ UNCHANGED <<todo, cur, tries, victim, watchVars, bounds>>

(* Mutant: the attempts are not counted. *)
DetachUncounted ==
  /\ at = "detach"
  /\ IF addr[cur] # None
     THEN Disconnects(cur) /\ at' = "attach" /\ tries' = tries + 1
     ELSE UNCHANGED dockerVars /\ (AfterDisconnect \/ Thrown(cur))
  /\ Undisturbed
  /\ UNCHANGED <<todo, cur, victim, watchVars, bounds>>

Detach ==
  /\ at = "detach"
  /\ IF addr[cur] # None
     THEN Disconnects(cur) /\ AfterDisconnect
     ELSE UNCHANGED dockerVars /\ (AfterDisconnect \/ Thrown(cur))
  /\ Undisturbed
  /\ UNCHANGED <<todo, cur, victim, watchVars, bounds>>

(* bind was not there: docker compose up --force-recreate. *)
RecreateBind ==
  /\ at = "recreate" /\ at' = "next"
  /\ Starts(Bind) \/ StartFails(Bind)
  /\ Undisturbed
  /\ UNCHANGED <<todo, cur, tries, victim, watchVars, bounds>>

(* Any call may fail: the container, the package or the round is left. *)
RoundCallFails ==
  /\ at \notin {"sleep", "next"}
  /\ fails < MaxFails /\ fails' = fails + 1
  /\ at' = IF at = "list" THEN "sleep" ELSE "next"
  /\ Disturb
  /\ UNCHANGED <<dockerVars, todo, cur, tries, victim, watchVars, moves>>

RoundStep ==
  \/ RoundBegins \/ ListPackages \/ RoundEnds \/ LookConnected \/ Connect
  \/ FindContainerByIP \/ FindConflicting \/ DisconnectConflicting \/ Inspect
  \/ RestartTarget \/ ConnectWithIp \/ Detach \/ RecreateBind \/ RoundCallFails
  \/ \E c \in Container : NextPackage(c)

-----------------------------------------------------------------------------
(* ensureBindContainerIpAndRunning *)

(* Three looks at bind: is it there and running, is it on the network, has it
   its address.  If the last finds it off the network the pass ends in an error,
   unless bind stopped: it keeps the network, without an address. *)
WatchBegins ==
  /\ watch = "sleep" /\ network = Core
  /\ watch' = "running" /\ taken' = None
  /\ Undisturbed
  /\ UNCHANGED <<dockerVars, roundVars, bounds>>

WatchLooks ==
  /\ \/ /\ watch = "running"
        /\ watch' = CASE state[Bind] = "gone" -> "recreate"
                      [] state[Bind] = "down" -> "free"
                      [] OTHER -> "network"
     \/ /\ watch = "network"
        /\ watch' = IF addr[Bind] = None THEN "free" ELSE "address"
     \/ watch = "address" /\ state[Bind] = "gone" /\ watch' = "recreate"
     \/ /\ watch = "address" /\ state[Bind] # "gone"
        /\ \/ addr[Bind] \in {BindIp, None} /\ watch' = "sleep"
           \/ /\ addr[Bind] # BindIp /\ (addr[Bind] = None => state[Bind] = "down")
              /\ watch' = "free"
  /\ Undisturbed
  /\ UNCHANGED <<dockerVars, roundVars, taken, bounds>>

(* disconnectConflictingContainerIfAny, as in a round. *)
WatchFinds ==
  /\ watch = "free"
  /\ IF \E d \in Container : addr[d] = BindIp
     THEN /\ \E d \in Container : addr[d] = BindIp /\ taken' = d
          /\ watch' = "drop"
     ELSE taken' = None /\ watch' = "up"
  /\ Undisturbed
  /\ UNCHANGED <<dockerVars, roundVars, bounds>>

WatchDisconnects ==
  /\ watch = "drop"
  /\ IF addr[taken] # None
     THEN Disconnects(taken) /\ watch' = "up"
     ELSE /\ UNCHANGED dockerVars
          /\ watch' \in (IF state[taken] = "gone" THEN {"recreate"} ELSE {"up", "sleep"})
  /\ Disturb
  /\ UNCHANGED <<roundVars, taken, bounds>>

(* docker compose up --force-recreate. *)
WatchUps ==
  /\ watch = "up"
  /\ \/ Starts(Bind) /\ watch' = IF taken = None THEN "sleep" ELSE "back"
     \/ StartFails(Bind) /\ watch' = "sleep"
  /\ Disturb
  /\ UNCHANGED <<roundVars, taken, bounds>>

(* "connect back the conflicting container to the network" *)
WatchConnectsBack ==
  /\ watch = "back"
  /\ \/ (\E a \in Ip : Connects(taken, a)) /\ watch' = "sleep"
     \/ /\ state[taken] # "up" \/ addr[taken] # None
        /\ UNCHANGED dockerVars
        /\ watch' = IF state[taken] = "gone" THEN "recreate" ELSE "sleep"
  /\ Disturb
  /\ UNCHANGED <<roundVars, taken, bounds>>

(* A 404 of any of these calls is taken for bind's. *)
WatchRecreates ==
  /\ watch = "recreate" /\ watch' = "sleep"
  /\ Starts(Bind) \/ StartFails(Bind)
  /\ Disturb
  /\ UNCHANGED <<roundVars, taken, bounds>>

WatchCallFails ==
  /\ watch # "sleep" /\ watch' = "sleep"
  /\ fails < MaxFails /\ fails' = fails + 1
  /\ Disturb
  /\ UNCHANGED <<dockerVars, roundVars, taken, moves>>

WatchStep ==
  \/ WatchBegins \/ WatchLooks \/ WatchFinds \/ WatchDisconnects \/ WatchUps
  \/ WatchConnectsBack \/ WatchRecreates \/ WatchCallFails

-----------------------------------------------------------------------------
Next ==
  \/ RoundStep \/ WatchStep \/ Restart
  \/ \E c \in Container : Move(c)

Spec == Init /\ [][Next]_vars

(* The intervals of both pass, and docker answers. *)
FairSpec == Spec /\ SF_vars(RoundStep) /\ SF_vars(WatchStep)

-----------------------------------------------------------------------------
(* Every container that runs is on the network, bind and the dappmanager with
   their addresses. *)
Settled ==
  \A c \in Container : state[c] = "up" =>
    addr[c] # None /\ (Own(c) # None => addr[c] = Own(c))

(* Whatever moved and failed before, two rounds in a row that nothing disturbs
   leave every container where it should be: what the first takes off the
   network after its turn, the second connects (index.ts 85-108).           *)
TwoRoundsSettle == calm = 2 => Settled

(* index.ts 57-63: "Ensures the docker network defined has the following
   config [...] All docker containers [...] are connected to it".  It does not
   hold: a container may be taken off the network after its turn.           *)
OneRoundSettles == calm > 0 => Settled

(* connectPkgContainers.ts 104: "check if there are any docker containers
   connected to the network with that IP different than the container
   requested": what is disconnected is another container.  It does not hold:
   disconnectConflictingContainerIfAny looks again.                         *)
OthersAreDisconnected == at = "drop" /\ tries = 0 => victim # cur

Overlapping == at # "sleep" /\ watch # "sleep"

(* When containers no longer move and docker no longer fails, the network
   settles and stays so, unless a round and a pass of the bind daemon overlap
   for ever: they do not keep taking from each other.                        *)
NetworkSettles == <>[]~Overlapping => <>[]Settled
=============================================================================

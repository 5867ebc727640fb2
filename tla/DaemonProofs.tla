----------------------------- MODULE DaemonProofs -----------------------------
(***************************************************************************)
(* Proofs about DockerNetwork, for any containers, addresses and orders of *)
(* the names, and about NatRenewal, for any ports.                         *)
(***************************************************************************)
EXTENDS DockerNetwork, NatRenewal, TLAPS

-----------------------------------------------------------------------------
(* The docker networks: types *)

LEMMA OwnFacts ==
  /\ \A c \in Container : Own(c) \in Ip \cup {None}
  /\ \A c, d \in Container : Own(c) = Own(d) /\ Own(c) # None => c = d
BY ContainerAssumption, IpAssumption DEF Own

LEMMA OwnSame ==
  ASSUME network' = network
  PROVE  \A c \in Container : Own(c)' = Own(c)
BY DEF Own

\* What a step of docker leaves: the types, and the other containers.
Docker ==
  /\ state \in [Container -> {"up", "down", "gone"}]
  /\ addr \in [Container -> Ip \cup {None}]
  /\ Endpoints

Only(c) ==
  /\ network' = network
  /\ \A d \in Container \ {c} : state'[d] = state[d] /\ addr'[d] = addr[d]

LEMMA StartsFacts ==
  ASSUME Docker, NEW c \in Container, Starts(c)
  PROVE  /\ Docker' /\ Only(c)
         /\ state'[c] = "up"
         /\ c = Bind /\ network = Core => addr'[c] = BindIp
<1>1. PICK a \in (Ip \ {addr[d] : d \in Container \ {c}}) \cup {None} :
        /\ c = Bind /\ network = Core => a = BindIp
        /\ state' = [state EXCEPT ![c] = "up"] /\ addr' = [addr EXCEPT ![c] = a]
        /\ network' = network
  BY DEF Starts
<1>2. \A d \in Container \ {c} : a = None \/ addr[d] # a
  OBVIOUS
<1> QED
  BY <1>1, <1>2 DEF Docker, Endpoints, Only

LEMMA StartFailsFacts ==
  ASSUME Docker, NEW c \in Container, StartFails(c)
  PROVE  Docker' /\ Only(c)
BY ContainerAssumption DEF Docker, Endpoints, Only, StartFails

LEMMA DisconnectsFacts ==
  ASSUME Docker, NEW c \in Container, Disconnects(c)
  PROVE  Docker' /\ Only(c) /\ state' = state /\ addr'[c] = None
BY ContainerAssumption DEF Docker, Endpoints, Only, Disconnects

LEMMA ConnectsFacts ==
  ASSUME Docker, NEW c \in Container, NEW a, Connects(c, a)
  PROVE  Docker' /\ Only(c) /\ state' = state /\ addr'[c] = a /\ a \in Ip
BY ContainerAssumption DEF Docker, Endpoints, Only, Connects, Free

LEMMA DockerSame ==
  ASSUME Docker, UNCHANGED dockerVars
  PROVE  Docker' /\ network' = network /\ state' = state /\ addr' = addr
BY DEF Docker, Endpoints, dockerVars

NetworkType == TypeOK /\ Endpoints

LEMMA HistoryType ==
  ASSUME TypeOK, Disturb \/ Undisturbed
  PROVE  quiet' \in BOOLEAN /\ calm' \in 0..2
<1>1. CASE Disturb
  <2>1. quiet' \in BOOLEAN
    BY <1>1 DEF Disturb
  <2>2. calm' \in 0..2
    BY <1>1 DEF Disturb
  <2> QED
    BY <2>1, <2>2
<1>2. CASE Undisturbed
  BY <1>2 DEF Undisturbed, history, TypeOK
<1> QED
  BY <1>1, <1>2

LEMMA NetworkTypeInit == Init => NetworkType
<1> SUFFICES ASSUME Init
             PROVE  NetworkType
  OBVIOUS
<1>1. quiet \in BOOLEAN
  BY DEF Init
<1>2. /\ Bind \in Container /\ None \in Container \cup {None}
      /\ 0 \in 0..MaxAttempts /\ 0 \in 0..MaxMoves /\ 0 \in 0..MaxFails
  BY CountAssumption, ContainerAssumption
<1>3. state \in [Container -> {"up", "down", "gone"}]
  BY DEF Init
<1> QED
  BY <1>1, <1>2, <1>3 DEF Init, NetworkType, TypeOK

LEMMA AfterDisconnectType ==
  ASSUME TypeOK, AfterDisconnect
  PROVE  at' \in {"inspect", "attach", "next"} /\ tries' \in 0..MaxAttempts
BY CountAssumption DEF TypeOK, AfterDisconnect

LEMMA ThrownType ==
  ASSUME TypeOK, NEW d, Thrown(d)
  PROVE  at' \in {"recreate", "next"} /\ tries' \in 0..MaxAttempts
BY DEF TypeOK, Thrown

\* A round's steps, by what they do to docker.
LEMMA RoundTypes ==
  ASSUME NetworkType, RoundStep
  PROVE  NetworkType'
<1> USE DEF NetworkType
<1>0. Docker /\ cur \in Container /\ victim \in Container /\ Bind \in Container
  BY ContainerAssumption DEF Docker, TypeOK
<1>1. CASE ListPackages \/ RoundEnds \/ LookConnected \/ FindContainerByIP
  BY <1>0, <1>1, DockerSame
     DEF ListPackages, RoundEnds, LookConnected, FindContainerByIP, Docker,
         TypeOK, dockerVars, watchVars, bounds, history, Undisturbed
<1>2. ASSUME NEW c \in Container, NextPackage(c)
      PROVE  NetworkType'
  BY <1>0, <1>2, DockerSame, CountAssumption
     DEF NextPackage, Docker, TypeOK, dockerVars, watchVars, bounds, history, Undisturbed
<1>3. CASE Connect
  <2>1. Docker' /\ network' = network
    BY <1>0, <1>3, DockerSame, ConnectsFacts DEF Connect, Only
  <2> QED
    BY <1>3, <2>1, HistoryType DEF Connect, Docker, TypeOK, watchVars, bounds
<1>4. CASE FindConflicting
  <2>1. Docker' /\ network' = network
    BY <1>0, <1>4, DockerSame DEF FindConflicting
  <2> QED
    BY <1>4, <2>1, AfterDisconnectType
       DEF FindConflicting, Docker, TypeOK, watchVars, bounds, history, Undisturbed
<1>5. CASE DisconnectConflicting
  <2>1. Docker' /\ network' = network
    BY <1>0, <1>5, DockerSame, DisconnectsFacts DEF DisconnectConflicting, Only
  <2> QED
    BY <1>5, <2>1, AfterDisconnectType, ThrownType
       DEF DisconnectConflicting, Docker, TypeOK, watchVars, bounds, history, Undisturbed
<1>6. CASE Inspect
  BY <1>0, <1>6, DockerSame, CountAssumption
     DEF Inspect, Docker, TypeOK, dockerVars, watchVars, bounds, history, Undisturbed
<1>7. CASE RestartTarget
  <2>1. Docker' /\ network' = network
    BY <1>0, <1>7, DockerSame, StartsFacts, StartFailsFacts DEF RestartTarget, Only
  <2> QED
    BY <1>7, <2>1, ThrownType
       DEF RestartTarget, Docker, TypeOK, watchVars, bounds, history, Undisturbed
<1>8. CASE ConnectWithIp
  <2>1. Docker' /\ network' = network
    BY <1>0, <1>8, DockerSame, ConnectsFacts DEF ConnectWithIp, Only
  <2> QED
    BY <1>8, <2>1
       DEF ConnectWithIp, Docker, TypeOK, watchVars, bounds, history, Undisturbed
<1>9. CASE Detach
  <2>1. Docker' /\ network' = network
    BY <1>0, <1>9, DockerSame, DisconnectsFacts DEF Detach, Only
  <2> QED
    BY <1>9, <2>1, AfterDisconnectType, ThrownType
       DEF Detach, Docker, TypeOK, watchVars, bounds, history, Undisturbed
<1>10. CASE RecreateBind
  <2>1. Docker' /\ network' = network
    BY <1>0, <1>10, StartsFacts, StartFailsFacts DEF RecreateBind, Only
  <2> QED
    BY <1>10, <2>1
       DEF RecreateBind, Docker, TypeOK, watchVars, bounds, history, Undisturbed
<1>11. CASE RoundCallFails
  BY <1>0, <1>11, DockerSame, HistoryType, CountAssumption
     DEF RoundCallFails, Docker, TypeOK, dockerVars, watchVars
<1>12. CASE RoundBegins
  <2>1. quiet' \in BOOLEAN
    BY <1>12 DEF RoundBegins
  <2> QED
    BY <1>0, <1>12, <2>1, DockerSame
       DEF RoundBegins, Docker, TypeOK, watchVars, bounds
<1> QED
  BY <1>1, <1>2, <1>3, <1>4, <1>5, <1>6, <1>7, <1>8, <1>9, <1>10, <1>11,
     <1>12 DEF RoundStep

LEMMA WatchTypes ==
  ASSUME NetworkType, WatchStep
  PROVE  NetworkType'
<1> USE DEF NetworkType
<1>0. Docker /\ Bind \in Container
  BY ContainerAssumption DEF Docker, TypeOK
<1>1. CASE WatchBegins \/ WatchLooks \/ WatchFinds
  BY <1>0, <1>1, DockerSame
     DEF WatchBegins, WatchLooks, WatchFinds, Docker, TypeOK, dockerVars, roundVars,
         bounds, history, Undisturbed
<1>2. CASE WatchDisconnects
  <2>1. Docker' /\ network' = network
    BY <1>0, <1>2, DockerSame, DisconnectsFacts DEF WatchDisconnects, Disconnects, Docker,
       Endpoints
  <2> QED
    BY <1>2, <2>1, HistoryType
       DEF WatchDisconnects, Docker, TypeOK, roundVars, bounds
<1>3. CASE WatchUps
  <2>1. Docker' /\ network' = network
    BY <1>0, <1>3, StartsFacts, StartFailsFacts DEF WatchUps, Only
  <2> QED
    BY <1>3, <2>1, HistoryType DEF WatchUps, Docker, TypeOK, roundVars, bounds
<1>4. CASE WatchConnectsBack
  <2>1. Docker' /\ network' = network
    BY <1>0, <1>4, DockerSame, ConnectsFacts, ContainerAssumption
       DEF WatchConnectsBack, Connects, Docker, Endpoints, Free, Only
  <2> QED
    BY <1>4, <2>1, HistoryType DEF WatchConnectsBack, Docker, TypeOK, roundVars, bounds
<1>5. CASE WatchRecreates
  <2>1. Docker' /\ network' = network
    BY <1>0, <1>5, StartsFacts, StartFailsFacts DEF WatchRecreates, Only
  <2> QED
    BY <1>5, <2>1, HistoryType DEF WatchRecreates, Docker, TypeOK, roundVars, bounds
<1>6. CASE WatchCallFails
  BY <1>0, <1>6, DockerSame, HistoryType, CountAssumption
     DEF WatchCallFails, Docker, TypeOK, dockerVars, roundVars
<1> QED
  BY <1>1, <1>2, <1>3, <1>4, <1>5, <1>6 DEF WatchStep

LEMMA MoveTypes ==
  ASSUME NetworkType, Restart \/ \E c \in Container : Move(c)
  PROVE  NetworkType'
<1> USE DEF NetworkType
<1>0. Docker /\ Dappmanager \in Container
  BY ContainerAssumption DEF Docker, TypeOK
<1>1. CASE Restart
  <2>1. Docker' /\ network' = network
    BY <1>0, <1>1, StartsFacts DEF Restart, Only
  <2> QED
    BY <1>1, <2>1, HistoryType, CountAssumption DEF Restart, Docker, TypeOK
<1>2. ASSUME NEW c \in Container, Move(c)
      PROVE  NetworkType'
  <2>1. Docker' /\ network' = network
    BY <1>0, <1>2, StartsFacts, StartFailsFacts, ContainerAssumption
       DEF Move, Only, Docker, Endpoints
  <2> QED
    BY <1>2, <2>1, HistoryType, CountAssumption
       DEF Move, Docker, TypeOK, roundVars, watchVars
<1> QED
  BY <1>1, <1>2

LEMMA NetworkTypeNext == NetworkType /\ [Next]_vars => NetworkType'
<1>1. ASSUME NetworkType, UNCHANGED vars
      PROVE  NetworkType'
  BY <1>1 DEF NetworkType, TypeOK, Endpoints, vars, dockerVars, roundVars, watchVars,
     history, bounds
<1> QED
  BY <1>1, RoundTypes, WatchTypes, MoveTypes DEF Next

\* The state of the network, of a round and of the bind daemon is well typed.
THEOREM NetworkTypeCorrect == Spec => []TypeOK
<1>1. NetworkType => TypeOK
  BY DEF NetworkType
<1> QED
  BY <1>1, NetworkTypeInit, NetworkTypeNext, PTL DEF Spec

-----------------------------------------------------------------------------
(* The docker networks: two rounds settle the network.  The first that        *)
(* nothing disturbs gives bind and the dappmanager their addresses and may    *)
(* take others off the network; a second has nothing to take and connects     *)
(* what is not.                                                               *)

\* A container that has an address of its own is at it.
Home(c)   == Own(c) # None /\ state[c] # "gone" => state[c] = "up" /\ addr[c] = Own(c)
Joined(c) == state[c] = "up" => addr[c] # None

\* Nobody else is at the address of the current container.
Vacant == \A d \in Container \ {cur} : addr[d] # Own(cur)

Special == {"find", "free", "drop", "inspect", "restart", "attach", "detach"}

\* What is known at each await of the container the round is at.
ItsTurn ==
  /\ at # "recreate"
  /\ at \in {"look", "connect"} => Own(cur) = None
  /\ at \in Special => Own(cur) # None
  /\ at \in {"find", "free", "drop", "inspect"} => tries = 0
  /\ at \in {"restart", "detach"} => tries = 1
  /\ at = "attach" => tries = 1 \/ (tries = 2 /\ addr[cur] = None)
  /\ at = "drop" => victim # cur /\ addr[victim] = Own(cur)
  /\ at = "free" => addr[cur] # Own(cur)
  /\ at \in {"inspect", "restart", "attach", "detach"} => Vacant
  /\ at \in {"attach", "detach"} => state[cur] = "up"
  /\ at = "detach" => addr[cur] # None

Passed == Container \ (todo \cup (IF at = "next" THEN {} ELSE {cur}))

\* A round that nothing has disturbed.
QuietInv ==
  quiet =>
    /\ ItsTurn
    /\ at = "sleep" => calm > 0
    /\ at \in {"free", "drop", "restart", "attach", "detach"} => calm = 0
    /\ at \notin {"sleep", "list"} =>
         /\ \A c \in todo : state[c] # "gone"
         /\ at # "next" => state[cur] # "gone"
         /\ \A c \in Passed : Home(c)
         /\ calm > 0 => \A c \in Passed : Joined(c)

CalmInv ==
  /\ calm > 0 => quiet /\ \A c \in Container : Home(c)
  /\ calm = 2 => \A c \in Container : Joined(c)

SettleInv == NetworkType /\ QuietInv /\ CalmInv

LEMMA SettleDisturb ==
  ASSUME NetworkType, Disturb
  PROVE  QuietInv' /\ CalmInv'
<1>1. ~quiet' /\ ~(calm' > 0)
  BY DEF Disturb
<1>2. calm' # 2
  BY DEF Disturb
<1> QED
  BY <1>1, <1>2 DEF QuietInv, CalmInv

\* Steps that leave docker and the round alone.
LEMMA SettleSame ==
  ASSUME SettleInv, UNCHANGED <<dockerVars, roundVars, history>>
  PROVE  QuietInv' /\ CalmInv'
BY DEF SettleInv, QuietInv, CalmInv, ItsTurn, Passed, Home, Joined, Vacant, Own, Special,
       dockerVars, roundVars, history

\* With the addresses as they are, what is left is where the round goes on.
LEMMA SettleReads ==
  ASSUME SettleInv, UNCHANGED dockerVars
  PROVE  \A c \in Container :
           Own(c)' = Own(c) /\ (Home(c)' <=> Home(c)) /\ (Joined(c)' <=> Joined(c))
BY DEF dockerVars, Own, Home, Joined

LEMMA SettleRoundBegins == ASSUME SettleInv, RoundBegins PROVE QuietInv' /\ CalmInv'
<1>1. /\ at = "sleep" /\ at' = "list" /\ quiet' /\ calm' = calm
  BY DEF RoundBegins
<1>2. QuietInv'
  BY <1>1 DEF QuietInv, ItsTurn, Special
<1>3. CalmInv'
  BY <1>1, SettleReads DEF SettleInv, CalmInv, RoundBegins
<1> QED
  BY <1>2, <1>3

LEMMA SettleListPackages == ASSUME SettleInv, ListPackages PROVE QuietInv' /\ CalmInv'
<1>1. /\ at' = "next" /\ quiet' = quiet /\ calm' = calm /\ state' = state
      /\ todo' = {c \in Container : state[c] # "gone"}
  BY DEF ListPackages, Undisturbed, history, dockerVars
<1>2. \A c \in Container \ todo' : Home(c)' /\ Joined(c)'
  BY <1>1 DEF Home, Joined
<1>3. QuietInv'
  BY <1>1, <1>2 DEF QuietInv, ItsTurn, Special, Passed
<1>4. CalmInv'
  BY <1>1, SettleReads DEF SettleInv, CalmInv, ListPackages
<1> QED
  BY <1>3, <1>4

LEMMA SettleNextPackage ==
  ASSUME SettleInv, NEW c \in Container, NextPackage(c)
  PROVE  QuietInv' /\ CalmInv'
<1>1. /\ at = "next" /\ at' = (IF Own(c) = None THEN "look" ELSE "find")
      /\ quiet' = quiet /\ calm' = calm /\ state' = state
      /\ cur' = c /\ todo' = todo \ {c} /\ c \in todo /\ tries' = 0
      /\ UNCHANGED dockerVars
  BY DEF NextPackage, Undisturbed, history, dockerVars
<1>2. Passed' = Passed
  BY <1>1 DEF Passed
<1>3. Own(cur)' = Own(c)
  BY <1>1 DEF Own, dockerVars
<1>4. quiet => ItsTurn'
  BY <1>1, <1>3 DEF ItsTurn, Special
<1>5. QuietInv'
  BY <1>1, <1>2, <1>4, SettleReads, ContainerAssumption
     DEF SettleInv, QuietInv, Passed
<1>6. CalmInv'
  BY <1>1, SettleReads DEF SettleInv, CalmInv
<1> QED
  BY <1>5, <1>6

LEMMA SettleRoundEnds == ASSUME SettleInv, RoundEnds PROVE QuietInv' /\ CalmInv'
<1>1. /\ at = "next" /\ todo = {} /\ at' = "sleep" /\ quiet' = quiet
      /\ calm' = IF quiet /\ calm < 2 THEN calm + 1 ELSE calm
      /\ UNCHANGED dockerVars
  BY DEF RoundEnds
<1>2. calm \in 0..2
  BY DEF SettleInv, NetworkType, TypeOK
<1>3. CASE quiet
  <2>1. calm' > 0 /\ (calm' = 2 => calm > 0)
    BY <1>1, <1>2, <1>3
  <2>2. /\ \A c \in Container : Home(c)
        /\ calm > 0 => \A c \in Container : Joined(c)
    BY <1>1, <1>3 DEF SettleInv, QuietInv, Passed
  <2>3. CalmInv'
    BY <1>1, <1>3, <2>1, <2>2, SettleReads DEF CalmInv
  <2>4. QuietInv'
    BY <1>1, <2>1 DEF QuietInv, ItsTurn, Special
  <2> QED
    BY <2>3, <2>4
<1>4. CASE ~quiet
  <2>1. ~quiet' /\ ~(calm' > 0) /\ calm' # 2
    BY <1>1, <1>2, <1>4 DEF SettleInv, CalmInv
  <2> QED
    BY <2>1 DEF QuietInv, CalmInv
<1> QED
  BY <1>3, <1>4

\* A round that something disturbed stays so.
LEMMA SettleRest ==
  ASSUME SettleInv, ~quiet, UNCHANGED history
  PROVE  QuietInv' /\ CalmInv'
<1>1. ~quiet' /\ calm = 0 /\ calm' = 0
  <2>1. ~(calm > 0) /\ calm \in 0..2
    BY DEF SettleInv, CalmInv, NetworkType, TypeOK
  <2> QED
    BY <2>1 DEF history
<1>2. ~(calm' > 0) /\ calm' # 2
  BY <1>1
<1> QED
  BY <1>1, <1>2 DEF QuietInv, CalmInv

\* A step takes nobody from its place.
Kept == \A c \in Container : (Home(c) => Home(c)') /\ (Joined(c) => Joined(c)')

LEMMA CalmKept ==
  ASSUME SettleInv, UNCHANGED history, calm > 0 => Kept
  PROVE  CalmInv'
<1>1. (quiet' <=> quiet) /\ calm' = calm
  BY DEF history
<1>2. CASE calm > 0
  <2>1. quiet' /\ \A c \in Container : Home(c)'
    BY <1>1, <1>2 DEF SettleInv, CalmInv, Kept
  <2>2. calm' = 2 => \A c \in Container : Joined(c)'
    BY <1>1, <1>2 DEF SettleInv, CalmInv, Kept
  <2> QED
    BY <2>1, <2>2 DEF CalmInv
<1>3. CASE ~(calm > 0)
  <2>1. ~(calm' > 0) /\ calm' # 2
    BY <1>1, <1>3
  <2> QED
    BY <2>1 DEF CalmInv
<1> QED
  BY <1>2, <1>3

\* A step at the current container, by what it leaves: it ends its turn only at
\* its own address, and those that had theirs keep it.
LEMMA SettleTurn ==
  ASSUME SettleInv, quiet, UNCHANGED history,
         network' = network, todo' = todo, cur' = cur,
         at \notin {"sleep", "list", "next"}, at' \notin {"sleep", "list"},
         ItsTurn',
         at' \in {"free", "drop", "restart", "attach", "detach"} => calm = 0,
         calm > 0 => Kept,
         \A c \in Container : state[c] # "gone" => state'[c] # "gone",
         \A c \in Passed : Home(c)',
         at' = "next" => Home(cur)' /\ (calm > 0 => Joined(cur)')
  PROVE  QuietInv' /\ CalmInv'
<1>1. quiet' /\ calm' = calm
  BY DEF history
<1>2. cur \in Container /\ todo \subseteq Container
  BY DEF SettleInv, NetworkType, TypeOK
<1>3. Passed = Container \ (todo \cup {cur})
  BY DEF Passed
<1>4. Passed' = IF at' = "next" THEN Container \ todo ELSE Passed
  BY <1>3 DEF Passed
<1>5. \A c \in Passed' : Home(c)'
  BY <1>3, <1>4
<1>6. calm > 0 => \A c \in Passed' : Joined(c)'
  <2> SUFFICES ASSUME calm > 0
               PROVE  \A c \in Passed' : Joined(c)'
    OBVIOUS
  <2>1. \A c \in Passed : Joined(c)
    BY DEF SettleInv, QuietInv
  <2> QED
    BY <1>2, <1>3, <1>4, <2>1 DEF Kept
<1>7. /\ \A c \in todo : state[c] # "gone"
      /\ state[cur] # "gone"
  BY DEF SettleInv, QuietInv
<1>8. /\ \A c \in todo' : state'[c] # "gone"
      /\ state'[cur'] # "gone"
  BY <1>2, <1>7
<1>9. QuietInv'
  BY <1>1, <1>5, <1>6, <1>8 DEF QuietInv
<1>10. CalmInv'
  BY CalmKept
<1> QED
  BY <1>9, <1>10

\* What is known of the container that a quiet round is at.
LEMMA QuietTurn ==
  ASSUME SettleInv, quiet, at \notin {"sleep", "list", "next"}
  PROVE  /\ ItsTurn /\ cur \in Container /\ state[cur] # "gone" /\ Docker
         /\ \A c \in Passed : Home(c) /\ c # cur /\ c \in Container
         /\ calm > 0 => Home(cur)
BY DEF SettleInv, QuietInv, CalmInv, NetworkType, TypeOK, Docker, Passed

LEMMA SettleLookConnected == ASSUME SettleInv, quiet, LookConnected PROVE QuietInv' /\ CalmInv'
<1>1. /\ at = "look" /\ at' = IF addr[cur] # None THEN "next" ELSE "connect"
      /\ UNCHANGED <<dockerVars, todo, cur, tries, victim, watchVars, bounds>>
      /\ UNCHANGED history
  BY DEF LookConnected, Undisturbed
<1>2. network' = network /\ state' = state /\ addr' = addr /\ cur' = cur /\ todo' = todo
  BY <1>1 DEF dockerVars
<1>3. Own(cur) = None /\ Own(cur)' = None
  BY <1>1, <1>2, QuietTurn DEF ItsTurn, Own
<1>4. ItsTurn'
  BY <1>1, <1>3 DEF ItsTurn, Special
<1>5. at' = "next" => Home(cur)' /\ Joined(cur)'
  BY <1>1, <1>2, <1>3 DEF Home, Joined
<1>6. Kept /\ \A c \in Passed : Home(c)'
  BY <1>1, QuietTurn, SettleReads DEF Kept
<1> QED
  BY <1>1, <1>2, <1>4, <1>5, <1>6, SettleTurn

LEMMA SettleFindContainerByIP ==
  ASSUME SettleInv, quiet, FindContainerByIP
  PROVE  QuietInv' /\ CalmInv'
<1>1. /\ at = "find"
      /\ at' = IF \E d \in Container \ {cur} : addr[d] = Own(cur) THEN "free" ELSE "inspect"
      /\ UNCHANGED <<dockerVars, todo, cur, tries, victim, watchVars, bounds>>
      /\ UNCHANGED history
  BY DEF FindContainerByIP, Undisturbed
<1>2. network' = network /\ state' = state /\ addr' = addr /\ cur' = cur /\ todo' = todo
  BY <1>1 DEF dockerVars
<1>3. Own(cur) # None /\ Own(cur)' = Own(cur) /\ tries = 0
  BY <1>1, <1>2, QuietTurn DEF ItsTurn, Special, Own
<1>4. at' = "free" => addr[cur] # Own(cur)
  BY <1>1, <1>3, QuietTurn DEF Docker, Endpoints
<1>5. at' = "inspect" => Vacant'
  BY <1>1, <1>2, <1>3 DEF Vacant
<1>6. ItsTurn'
  BY <1>1, <1>2, <1>3, <1>4, <1>5 DEF ItsTurn, Special
<1>7. at' = "free" => calm = 0
  <2>1. at' = "free" => ~(calm > 0)
    BY <1>3, <1>4, QuietTurn, <1>1 DEF Home
  <2> QED
    BY <2>1 DEF SettleInv, NetworkType, TypeOK
<1>8. Kept /\ \A c \in Passed : Home(c)'
  BY <1>1, QuietTurn, SettleReads DEF Kept
<1> QED
  BY <1>1, <1>2, <1>6, <1>7, <1>8, SettleTurn

LEMMA SettleConnect == ASSUME SettleInv, quiet, Connect PROVE QuietInv' /\ CalmInv'
<1>1. /\ at = "connect" /\ at' = "next" /\ cur' = cur /\ todo' = todo
      /\ Own(cur) = None
  BY QuietTurn DEF Connect, ItsTurn
<1>2. CASE Disturb
  BY <1>2, SettleDisturb, NetworkTypeNext DEF SettleInv
<1>3. CASE /\ UNCHANGED dockerVars /\ UNCHANGED history
           /\ state[cur] # "up" \/ addr[cur] # None
  <2>1. network' = network /\ Own(cur)' = None
    BY <1>1, <1>3 DEF Own, dockerVars
  <2>2. ItsTurn'
    BY <1>1, <2>1 DEF ItsTurn, Special
  <2>3. Kept /\ \A c \in Passed : Home(c)'
    BY <1>1, <1>3, QuietTurn, SettleReads DEF Kept
  <2>4. Home(cur)' /\ Joined(cur)'
    BY <1>1, <1>3, <2>1 DEF Home, Joined, dockerVars
  <2> QED
    BY <1>1, <1>3, <2>1, <2>2, <2>3, <2>4, SettleTurn DEF dockerVars
<1>4. ASSUME NEW a \in Ip, Connects(cur, a), UNCHANGED history
      PROVE  QuietInv' /\ CalmInv'
  <2>1. Only(cur) /\ state' = state /\ addr'[cur] = a /\ cur \in Container
    BY <1>1, <1>4, QuietTurn, ConnectsFacts
  <2>2. \A c \in Container : Own(c)' = Own(c)
    BY <2>1, OwnSame DEF Only
  <2>3. Own(cur)' = None
    BY <1>1, <2>1 DEF Own, Only
  <2>4. \A c \in Container \ {cur} : (Home(c) => Home(c)') /\ (Joined(c) => Joined(c)')
    BY <2>1, <2>2 DEF Home, Joined, Only
  <2>5. \A c \in Container : c = cur => Home(c)' /\ Joined(c)'
    BY <1>1, <1>4, <2>1, <2>2, ContainerAssumption DEF Home, Joined
  <2>6. Kept /\ \A c \in Passed : Home(c)'
    BY <1>1, <2>4, <2>5, QuietTurn DEF Kept
  <2>7. ItsTurn'
    BY <1>1, <2>3 DEF ItsTurn, Special
  <2>8. Home(cur)' /\ Joined(cur)'
    BY <1>1, <1>4, <2>1, <2>3, ContainerAssumption DEF Home, Joined
  <2> QED
    BY <1>1, <1>4, <2>1, <2>6, <2>7, <2>8, SettleTurn DEF Only
<1> QED
  BY <1>2, <1>3, <1>4 DEF Connect, Undisturbed

LEMMA SettleFindConflicting ==
  ASSUME SettleInv, quiet, FindConflicting
  PROVE  QuietInv' /\ CalmInv'
<1>1. /\ at = "free" /\ tries = 0 /\ addr[cur] # Own(cur) /\ Own(cur) # None
      /\ calm = 0
  BY QuietTurn DEF FindConflicting, ItsTurn, Special, SettleInv, QuietInv
<1>2. /\ UNCHANGED dockerVars /\ UNCHANGED history /\ todo' = todo /\ cur' = cur
  BY DEF FindConflicting, Undisturbed
<1>3. network' = network /\ state' = state /\ addr' = addr /\ Own(cur)' = Own(cur)
  BY <1>2 DEF dockerVars, Own
<1>4. ItsTurn' /\ at' \in {"drop", "inspect"}
  <2>1. CASE \E d \in Container : addr[d] = Own(cur)
    <3>1. at' = "drop" /\ tries' = 0 /\ addr[victim'] = Own(cur)
      BY <1>1, <2>1 DEF FindConflicting
    <3> QED
      BY <1>1, <1>2, <1>3, <3>1 DEF ItsTurn, Special
  <2>2. CASE ~\E d \in Container : addr[d] = Own(cur)
    <3>1. at' = "inspect" /\ tries' = 0
      BY <1>1, <2>2 DEF FindConflicting, AfterDisconnect
    <3>2. Vacant'
      BY <1>2, <1>3, <2>2 DEF Vacant
    <3> QED
      BY <1>1, <1>3, <3>1, <3>2 DEF ItsTurn, Special
  <2> QED
    BY <2>1, <2>2
<1>5. Kept /\ \A c \in Passed : Home(c)'
  BY <1>1, <1>2, QuietTurn, SettleReads DEF Kept
<1> QED
  BY <1>1, <1>2, <1>3, <1>4, <1>5, SettleTurn

LEMMA SettleDisconnectConflicting ==
  ASSUME SettleInv, quiet, DisconnectConflicting
  PROVE  QuietInv' /\ CalmInv'
<1>1. /\ at = "drop" /\ tries = 0 /\ victim # cur /\ addr[victim] = Own(cur)
      /\ Own(cur) # None /\ calm = 0 /\ victim \in Container
  BY QuietTurn
     DEF DisconnectConflicting, ItsTurn, Special, SettleInv, QuietInv, NetworkType, TypeOK
<1>2. /\ Disconnects(victim) /\ at' = "inspect" /\ tries' = 0
      /\ UNCHANGED history /\ todo' = todo /\ cur' = cur
  BY <1>1 DEF DisconnectConflicting, AfterDisconnect, Undisturbed
<1>3. Only(victim) /\ state' = state /\ addr'[victim] = None
  BY <1>1, <1>2, QuietTurn, DisconnectsFacts
<1>4. network' = network /\ Own(cur)' = Own(cur) /\ \A c \in Container : Own(c)' = Own(c)
  BY <1>2, <1>3, OwnSame DEF Only, Own
<1>5. Vacant'
  BY <1>1, <1>2, <1>3, <1>4, QuietTurn DEF Vacant, Only, Docker, Endpoints
<1>6. ItsTurn'
  BY <1>1, <1>2, <1>4, <1>5 DEF ItsTurn, Special
<1>7. ASSUME NEW c \in Passed
      PROVE  Home(c)'
  <2>1. c \in Container /\ c # cur /\ Home(c)
    BY <1>1, QuietTurn
  <2>2. CASE c = victim
    <3>1. Own(c) # Own(cur)
      BY <1>1, <2>1, QuietTurn, OwnFacts
    <3>2. state[c] = "up"
      BY <1>1, <2>2, QuietTurn DEF Docker, Endpoints
    <3>3. Own(c) = None
      BY <1>1, <2>1, <2>2, <3>1, <3>2 DEF Home
    <3> QED
      BY <1>4, <2>1, <3>3 DEF Home
  <2>3. CASE c # victim
    BY <1>3, <1>4, <2>1, <2>3 DEF Home, Only
  <2> QED
    BY <2>2, <2>3
<1> QED
  BY <1>1, <1>2, <1>3, <1>4, <1>6, <1>7, SettleTurn

LEMMA SettleInspect == ASSUME SettleInv, quiet, Inspect PROVE QuietInv' /\ CalmInv'
<1>1. /\ at = "inspect" /\ Own(cur) # None /\ Vacant /\ tries' = 1
      /\ state[cur] \in {"up", "down"}
  BY QuietTurn DEF Inspect, ItsTurn, Special, Docker
<1>2. /\ UNCHANGED dockerVars /\ UNCHANGED history /\ todo' = todo /\ cur' = cur
  BY DEF Inspect, Undisturbed
<1>3. network' = network /\ state' = state /\ addr' = addr /\ Own(cur)' = Own(cur)
  BY <1>2 DEF dockerVars, Own
<1>4. \/ state[cur] = "down" /\ at' = "restart"
      \/ state[cur] = "up" /\ addr[cur] = Own(cur) /\ at' = "next"
      \/ state[cur] = "up" /\ addr[cur] # Own(cur) /\ at' = "attach"
  <2>1. CASE state[cur] = "down"
    <3>1. addr[cur] # Own(cur)
      BY <1>1, <2>1, QuietTurn DEF Docker, Endpoints
    <3> QED
      BY <2>1, <3>1 DEF Inspect
  <2>2. CASE state[cur] = "up" /\ addr[cur] = Own(cur)
    BY <2>2 DEF Inspect
  <2>3. CASE state[cur] = "up" /\ addr[cur] # Own(cur)
    BY <2>3 DEF Inspect
  <2> QED
    BY <1>1, <2>1, <2>2, <2>3
<1>5. ItsTurn'
  BY <1>1, <1>2, <1>3, <1>4 DEF ItsTurn, Special, Vacant
<1>6. at' # "next" => calm = 0
  <2>1. at' # "next" => ~(calm > 0)
    BY <1>1, <1>4, QuietTurn DEF Home
  <2> QED
    BY <2>1 DEF SettleInv, NetworkType, TypeOK
<1>7. Kept /\ \A c \in Passed : Home(c)'
  BY <1>1, <1>2, QuietTurn, SettleReads DEF Kept
<1>8. at' = "next" => Home(cur)' /\ Joined(cur)'
  BY <1>1, <1>2, <1>3, <1>4 DEF Home, Joined
<1> QED
  BY <1>1, <1>2, <1>3, <1>4, <1>5, <1>6, <1>7, <1>8, SettleTurn

\* Steps that change the current container and nobody else, in the first round.
LEMMA SettleCurrent ==
  ASSUME SettleInv, quiet, calm = 0, UNCHANGED history, Only(cur),
         todo' = todo, cur' = cur, at \notin {"sleep", "list", "next"},
         at' \notin {"sleep", "list"}, state'[cur] = "up", ItsTurn',
         at' = "next" => Home(cur)'
  PROVE  QuietInv' /\ CalmInv'
<1>1. network' = network /\ \A c \in Container : Own(c)' = Own(c)
  BY OwnSame DEF Only
<1>2. \A c \in Passed : Home(c)'
  BY <1>1, QuietTurn DEF Home, Only
<1>3. \A c \in Container : state[c] # "gone" => state'[c] # "gone"
  BY DEF Only
<1> QED
  BY <1>1, <1>2, <1>3, SettleTurn

LEMMA SettleRestartTarget ==
  ASSUME SettleInv, quiet, RestartTarget
  PROVE  QuietInv' /\ CalmInv'
<1>1. /\ at = "restart" /\ tries = 1 /\ Own(cur) # None /\ Vacant /\ calm = 0
      /\ state[cur] # "gone"
  BY QuietTurn DEF RestartTarget, ItsTurn, Special, SettleInv, QuietInv
<1>2. ~StartFails(cur)
  <2>1. cur = Bind => Own(cur) = BindIp
    BY ContainerAssumption DEF Own
  <2> QED
    BY <1>1, <2>1 DEF StartFails, Vacant
<1>3. /\ Starts(cur) /\ at' = "attach" /\ tries' = 1
      /\ UNCHANGED history /\ todo' = todo /\ cur' = cur
  BY <1>1, <1>2 DEF RestartTarget, Undisturbed
<1>4. Only(cur) /\ state'[cur] = "up"
  BY <1>1, <1>3, QuietTurn, StartsFacts
<1>5. Own(cur)' = Own(cur)
  BY <1>3, <1>4 DEF Only, Own
<1>6. Vacant'
  BY <1>1, <1>3, <1>4, <1>5 DEF Vacant, Only
<1>7. ItsTurn'
  BY <1>1, <1>3, <1>4, <1>5, <1>6 DEF ItsTurn, Special
<1> QED
  BY <1>1, <1>3, <1>4, <1>7, SettleCurrent

LEMMA SettleConnectWithIp ==
  ASSUME SettleInv, quiet, ConnectWithIp
  PROVE  QuietInv' /\ CalmInv'
<1>1. /\ at = "attach" /\ (tries = 1 \/ (tries = 2 /\ addr[cur] = None))
      /\ Own(cur) # None /\ Vacant /\ calm = 0 /\ state[cur] = "up"
  BY QuietTurn DEF ConnectWithIp, ItsTurn, Special, SettleInv, QuietInv
<1>2. /\ UNCHANGED history /\ todo' = todo /\ cur' = cur /\ tries' = tries
  BY DEF ConnectWithIp, Undisturbed
<1>3. CASE Connects(cur, Own(cur)) /\ at' = "next"
  <2>1. Only(cur) /\ state' = state /\ addr'[cur] = Own(cur)
    <3>1. Docker /\ cur \in Container
      BY <1>1, QuietTurn
    <3> QED
      BY <1>3, <3>1, ConnectsFacts
  <2>2. Own(cur)' = Own(cur)
    BY <1>2, <2>1 DEF Only, Own
  <2>3. ItsTurn' /\ Home(cur)'
    BY <1>1, <1>2, <1>3, <2>1, <2>2 DEF ItsTurn, Special, Home
  <2> QED
    BY <1>1, <1>2, <1>3, <2>1, <2>3, SettleCurrent
<1>4. CASE addr[cur] # None /\ at' = "detach" /\ UNCHANGED dockerVars
  <2>1. Only(cur) /\ state' = state /\ addr' = addr /\ network' = network
    BY <1>4 DEF Only, dockerVars
  <2>2. Own(cur)' = Own(cur)
    BY <1>2, <2>1 DEF Own
  <2>3. ItsTurn'
    BY <1>1, <1>2, <1>4, <2>1, <2>2 DEF ItsTurn, Special, Vacant
  <2> QED
    BY <1>1, <1>2, <1>4, <2>1, <2>3, SettleCurrent
<1> QED
  BY <1>1, <1>3, <1>4 DEF ConnectWithIp, Vacant

LEMMA SettleDetach == ASSUME SettleInv, quiet, Detach PROVE QuietInv' /\ CalmInv'
<1>1. /\ at = "detach" /\ tries = 1 /\ addr[cur] # None
      /\ Own(cur) # None /\ Vacant /\ calm = 0 /\ state[cur] = "up"
  BY QuietTurn DEF Detach, ItsTurn, Special, SettleInv, QuietInv
<1>2. /\ Disconnects(cur) /\ at' = "attach" /\ tries' = 2
      /\ UNCHANGED history /\ todo' = todo /\ cur' = cur
  BY <1>1, CountAssumption DEF Detach, AfterDisconnect, Undisturbed
<1>3. Only(cur) /\ state' = state /\ addr'[cur] = None
  BY <1>1, <1>2, QuietTurn, DisconnectsFacts
<1>4. Own(cur)' = Own(cur)
  BY <1>2, <1>3 DEF Only, Own
<1>5. Vacant'
  BY <1>1, <1>2, <1>3, <1>4 DEF Vacant, Only
<1>6. ItsTurn'
  BY <1>1, <1>2, <1>3, <1>4, <1>5 DEF ItsTurn, Special
<1> QED
  BY <1>1, <1>2, <1>3, <1>6, SettleCurrent

LEMMA SettleRound ==
  ASSUME SettleInv, RoundStep
  PROVE  QuietInv' /\ CalmInv'
<1>1. CASE RoundBegins \/ ListPackages \/ RoundEnds \/ \E c \in Container : NextPackage(c)
  BY <1>1, SettleRoundBegins, SettleListPackages, SettleRoundEnds, SettleNextPackage
<1>2. CASE RoundCallFails
  BY <1>2, SettleDisturb DEF RoundCallFails, SettleInv
<1>3. ASSUME LookConnected \/ Connect \/ FindContainerByIP \/ FindConflicting
              \/ DisconnectConflicting \/ Inspect \/ RestartTarget \/ ConnectWithIp
              \/ Detach \/ RecreateBind
      PROVE  QuietInv' /\ CalmInv'
  <2>1. CASE quiet
    <3>1. CASE RecreateBind
      BY <2>1, <3>1, QuietTurn DEF RecreateBind, ItsTurn
    <3> QED
      BY <1>3, <2>1, <3>1, SettleLookConnected, SettleConnect, SettleFindContainerByIP,
         SettleFindConflicting, SettleDisconnectConflicting, SettleInspect,
         SettleRestartTarget, SettleConnectWithIp, SettleDetach
  <2>2. CASE ~quiet
    <3>1. Disturb \/ UNCHANGED history
      BY <1>3 DEF LookConnected, Connect, FindContainerByIP, FindConflicting,
         DisconnectConflicting, Inspect, RestartTarget, ConnectWithIp, Detach,
         RecreateBind, Undisturbed
    <3> QED
      BY <2>2, <3>1, SettleRest, SettleDisturb DEF SettleInv
  <2> QED
    BY <2>1, <2>2
<1> QED
  BY <1>1, <1>2, <1>3 DEF RoundStep

LEMMA SettleNext == SettleInv /\ [Next]_vars => SettleInv'
<1> SUFFICES ASSUME SettleInv, [Next]_vars
             PROVE  SettleInv'
  OBVIOUS
<1>1. NetworkType'
  BY NetworkTypeNext DEF SettleInv
<1>2. UNCHANGED vars => QuietInv' /\ CalmInv'
  BY SettleSame DEF vars
<1>3. WatchBegins \/ WatchLooks \/ WatchFinds => QuietInv' /\ CalmInv'
  BY SettleSame DEF WatchBegins, WatchLooks, WatchFinds, Undisturbed
<1>4. WatchDisconnects \/ WatchUps \/ WatchConnectsBack \/ WatchRecreates
        \/ WatchCallFails \/ Restart \/ (\E c \in Container : Move(c)) => Disturb
  BY DEF WatchDisconnects, WatchUps, WatchConnectsBack, WatchRecreates,
     WatchCallFails, Restart, Move
<1>5. Disturb => QuietInv' /\ CalmInv'
  BY SettleDisturb DEF SettleInv
<1> QED
  BY <1>1, <1>2, <1>3, <1>4, <1>5, SettleRound DEF SettleInv, Next, WatchStep

\* However containers moved and calls of docker failed before, and whatever the
\* bind daemon does beside a round: after two rounds in a row that nothing
\* disturbed, every container that runs is on the network, bind and the
\* dappmanager at their addresses (index.ts 85-108).
THEOREM TwoRoundsAreEnough == Spec => []TwoRoundsSettle
<1>1. Init => SettleInv
  <2> SUFFICES ASSUME Init
               PROVE  SettleInv
    OBVIOUS
  <2>1. ~quiet /\ ~(calm > 0) /\ calm # 2
    BY DEF Init
  <2> QED
    BY <2>1, NetworkTypeInit DEF SettleInv, QuietInv, CalmInv
<1>2. SettleInv => TwoRoundsSettle
  <2> SUFFICES ASSUME SettleInv, calm = 2
               PROVE  Settled
    BY DEF TwoRoundsSettle
  <2>1. calm > 0
    OBVIOUS
  <2>2. \A c \in Container : Home(c) /\ Joined(c)
    BY <2>1 DEF SettleInv, CalmInv
  <2> QED
    BY <2>2 DEF Settled, Home, Joined
<1> QED
  BY <1>1, <1>2, SettleNext, PTL DEF Spec

-----------------------------------------------------------------------------
(* NAT renewal: types, and no port is missed by the run that is at work when  *)
(* it is published.                                                           *)

NatInv == NatTypeOK /\ PortsNotMissed

LEMMA NatInitInv == NatInit => NatInv
<1>1. 0 \in 0..MaxCrashes
  BY NatAssumption
<1> QED
  BY <1>1 DEF NatInit, NatInv, NatTypeOK, PortsNotMissed, Renewals

----------------------------------------------------------------------------
\* Types

\* The loop goes on with a port of those that are left.
LEMMA NextPortType ==
  ASSUME NatTypeOK, NEW left \in SUBSET Port, NextPort(left)
  PROVE  /\ unopened' \subseteq Port /\ port' \in Port \cup {NoPort}
         /\ renewal' \in {"verify", "close", "open"}
         /\ renewal' \in {"close", "open"} => port' \in unopened'
  BY DEF NextPort

LEMMA RequestTypes ==
  ASSUME NatTypeOK,
         \/ \E p \in Port :
              Publish(p) \/ Unpublish(p) \/ EndsSilently(p) \/ EmitRunNatRenewal(p)
         \/ Interval
         \/ \E enable \in BOOLEAN : NatRenewalEnable(enable)
  PROVE  NatTypeOK'
<1>1. CASE \E p \in Port : Publish(p) \/ Unpublish(p) \/ EndsSilently(p)
  BY <1>1 DEF NatTypeOK, Publish, Unpublish, EndsSilently, natDb, natLoop, natRun
<1>2. CASE \E p \in Port : EmitRunNatRenewal(p)
  BY <1>2 DEF NatTypeOK, EmitRunNatRenewal, RequestIfEnabled, natDb, natLoop
<1>3. CASE Interval \/ \E enable \in BOOLEAN : NatRenewalEnable(enable)
  BY <1>3 DEF NatTypeOK, Interval, NatRenewalEnable, RequestIfEnabled, natDb, natLoop
<1> QED
  BY <1>1, <1>2, <1>3

LEMMA RenewalTypes ==
  ASSUME NatTypeOK, RenewalStep
  PROVE  NatTypeOK'
<1>1. CASE Runs \/ RunFails \/ ListsMappings \/ Verifies
  BY <1>1 DEF NatTypeOK, Renewals, Runs, RunFails, ListsMappings, Verifies, natPorts, natDb,
              natLoop
<1>2. CASE ReadsPorts
  <2>1. published \in SUBSET Port
    BY DEF NatTypeOK
  <2>2. CASE published = {}
    BY <1>2, <2>2 DEF NatTypeOK, Renewals, ReadsPorts
  <2>3. CASE published # {} /\ NextPort(published)
    BY <1>2, <2>1, <2>3, NextPortType DEF NatTypeOK, Renewals, ReadsPorts
  <2> QED
    BY <1>2, <2>2, <2>3 DEF ReadsPorts
<1>3. CASE ClosesPort
  BY <1>3 DEF NatTypeOK, Renewals, ClosesPort, natPorts, natDb, natLoop
<1>4. CASE OpensPort \/ OpenFails
  <2>1. unopened \ {port} \in SUBSET Port
    BY DEF NatTypeOK
  <2>2. NextPort(unopened \ {port})
    BY <1>4 DEF OpensPort, OpenFails
  <2>3. port \in Port
    BY <1>4 DEF NatTypeOK, OpensPort, OpenFails
  <2> QED
    BY <1>4, <2>1, <2>2, <2>3, NextPortType
    DEF NatTypeOK, Renewals, OpensPort, OpenFails, natPorts, natDb
<1> QED
  BY <1>1, <1>2, <1>3, <1>4 DEF RenewalStep

LEMMA OutsideTypes ==
  ASSUME NatTypeOK, RouterForgets \/ RouterSwitches \/ NatRestart
  PROVE  NatTypeOK'
<1>1. CASE RouterForgets \/ RouterSwitches
  BY <1>1 DEF NatTypeOK, RouterForgets, RouterSwitches, natPorts, natDb, natLoop, natRun
<1>2. CASE NatRestart
  <2>1. crashes' \in 0..MaxCrashes
    BY <1>2, NatAssumption DEF NatTypeOK, NatRestart
  <2> QED
    BY <1>2, <2>1 DEF NatTypeOK, Renewals, NatRestart, natDb
<1> QED
  BY <1>1, <1>2

----------------------------------------------------------------------------
\* The ports that are published while a run is at work

\* A request is only ever added, and it is before its event is forgotten.
LEMMA RequestNotMissed ==
  ASSUME NatInv,
         \/ \E p \in Port :
              Publish(p) \/ Unpublish(p) \/ EndsSilently(p) \/ EmitRunNatRenewal(p)
         \/ Interval
         \/ \E enable \in BOOLEAN : NatRenewalEnable(enable)
  PROVE  PortsNotMissed'
  BY DEF NatInv, NatTypeOK, PortsNotMissed, Publish, Unpublish, EndsSilently,
         EmitRunNatRenewal, Interval, NatRenewalEnable, RequestIfEnabled, natDb, natLoop, natRun

\* A run takes the requests that wait before it reads the containers, and none
\* of its other steps takes any.
LEMMA RenewalNotMissed ==
  ASSUME NatInv, RenewalStep
  PROVE  PortsNotMissed'
<1>1. CASE Runs \/ RunFails \/ ListsMappings \/ Verifies
  BY <1>1 DEF PortsNotMissed, Runs, RunFails, ListsMappings, Verifies, natPorts
<1>2. CASE ReadsPorts
  BY <1>2 DEF PortsNotMissed, ReadsPorts
<1>3. CASE ClosesPort \/ OpensPort \/ OpenFails
  BY <1>3 DEF NatInv, PortsNotMissed, ClosesPort, OpensPort, OpenFails, natPorts, natDb
<1> QED
  BY <1>1, <1>2, <1>3 DEF RenewalStep

LEMMA OutsideNotMissed ==
  ASSUME NatInv, RouterForgets \/ RouterSwitches \/ NatRestart
  PROVE  PortsNotMissed'
  BY DEF NatInv, PortsNotMissed, RouterForgets, RouterSwitches, NatRestart, natPorts,
         natDb, natLoop, natRun

LEMMA NatNextInv == NatInv /\ [NatNext]_natVars => NatInv'
<1> SUFFICES ASSUME NatInv, [NatNext]_natVars PROVE NatInv'
  OBVIOUS
<1>1. CASE \/ \E p \in Port :
                Publish(p) \/ Unpublish(p) \/ EndsSilently(p) \/ EmitRunNatRenewal(p)
           \/ Interval
           \/ \E enable \in BOOLEAN : NatRenewalEnable(enable)
  BY <1>1, RequestTypes, RequestNotMissed DEF NatInv
<1>2. CASE RenewalStep
  BY <1>2, RenewalTypes, RenewalNotMissed DEF NatInv
<1>3. CASE RouterForgets \/ RouterSwitches \/ NatRestart
  BY <1>3, OutsideTypes, OutsideNotMissed DEF NatInv
<1>4. CASE UNCHANGED natVars
  BY <1>4 DEF NatInv, NatTypeOK, PortsNotMissed, natVars, natPorts, natDb, natLoop, natRun
<1> QED
  BY <1>1, <1>2, <1>3, <1>4 DEF NatNext

LEMMA NatInvariant == NatSpec => []NatInv
  BY NatInitInv, NatNextInv, PTL DEF NatSpec

(* The variables have their types, and a loop is at a port it has not opened
   yet, whatever the interleaving of calls, runs and restarts. *)
THEOREM NatTypeCorrect == NatSpec => []NatTypeOK
<1>1. NatInv => NatTypeOK
  BY DEF NatInv
<1> QED
  BY <1>1, NatInvariant, PTL

(* A port that is published while natRenewal is past the reading of the
   containers is on its list, or its call is at work, or another run follows,
   for any ports.  Only a port whose call ends without an event waits for the
   next request. *)
THEOREM NoPortMissed == NatSpec => []PortsNotMissed
<1>1. NatInv => PortsNotMissed
  BY DEF NatInv
<1> QED
  BY <1>1, NatInvariant, PTL
=============================================================================

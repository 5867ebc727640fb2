---------------------------- MODULE HttpsPortal ----------------------------
(***************************************************************************)
(* The https portal of @dappnode/httpsportal: subdomains mapped to the     *)
(* services of packages.  A mapping is an entry of the portal's API; what  *)
(* makes it work is that the container of the service is on the public     *)
(* network, and what keeps it working when the container is recreated is   *)
(* that the compose file has that network too.  The three are changed one  *)
(* after the other, with an await before each, by calls of the user and by *)
(* the installs and removals of packages.                                  *)
(***************************************************************************)
CONSTANTS
  Package,     \* packages
  Service,     \* their services
  PackageOf,   \* the package of a service
  Subdomain,   \* subdomains
  NoService,   \* none
  Exposable,   \* the mappings a package exposes by default
  Caller       \* calls that may be at work at the same time

Mapping == [sub : Subdomain, svc : Service]

ASSUME PortalAssumption ==
  /\ PackageOf \in [Service -> Package] /\ NoService \notin Service
  /\ Exposable \in [Package -> SUBSET Mapping]

VARIABLES
  present,   \* services with a container and a compose file
  onNet,     \* containers on the public network
  aliased,   \* services with the public network in their compose file
  entries,   \* the API of the portal: the service of a subdomain
  serving,   \* the https package runs
  removing,  \* packages whose containers packageRemove has yet to remove
  call,      \* what a call is doing
  leftover   \* history: services with a mapping that a failure or a removal left

dockerState == <<present, onNet, aliased>>
portalVars  == <<dockerState, entries, serving, removing, call, leftover>>

(***************************************************************************)
(* op:     "map", "unmap"; "recreate" and "readd", its two halves;         *)
(*         "uninstall" (removeMappings); "public" (connectToPublicNetwork),*)
(*         "expose" (exposeByDefaultHttpsPorts) and "rollback", its end    *)
(* at:     the await it is at; "next" before one of todo                   *)
(* known:  the container was connected when it was listed                  *)
(* update, backup: of an install; backup of the compose files              *)
(* other:  expose: the mappings to roll back; readd: those to recreate yet *)
(***************************************************************************)
Adding   == {"map", "readd", "expose"}
Deleting == {"unmap", "recreate", "uninstall", "rollback"}
Ops      == {"none", "public"} \cup Adding \cup Deleting
Awaits   == {"mappings", "next", "connect", "list", "post", "delete", "left", "leave",
             "check", "undo"}

NoMapping == [sub |-> NoService, svc |-> NoService]
Calls == [op : Ops, at : Awaits, pkg : Package \cup {NoService}, todo : SUBSET Mapping,
          other : SUBSET Mapping, item : Mapping \cup {NoMapping}, known : BOOLEAN,
          update : BOOLEAN, backup : SUBSET Service]
NoCall == [op |-> "none", at |-> "next", pkg |-> NoService, todo |-> {}, other |-> {},
           item |-> NoMapping, known |-> FALSE, update |-> FALSE, backup |-> {}]

ServicesOf(p) == {s \in Service : PackageOf[s] = p}
Mapped(s)     == \E d \in Subdomain : entries[d] = s
MappingsOf(S) == {m \in Mapping : m.svc \in S /\ entries[m.sub] = m.svc}

PortalInit ==
  /\ present = {} /\ onNet = {} /\ aliased = {}
  /\ entries = [d \in Subdomain |-> NoService] /\ serving \in BOOLEAN
  /\ removing = {} /\ call = [k \in Caller |-> NoCall] /\ leftover = {}

----------------------------------------------------------------------------
\* Calls, and how they end

Idle(k)    == call[k].op = "none"
Becomes(k, c) == call' = [call EXCEPT ![k] = c]
Now(k, at) == Becomes(k, [call[k] EXCEPT !.at = at])

Start(k, op, at, p, S) ==
  /\ Idle(k)
  /\ Becomes(k, [NoCall EXCEPT !.op = op, !.at = at, !.pkg = p, !.todo = S])

\* The item is done.  Recreating removes a mapping, then adds it again.
Ended(c) ==
  LET m == {c.item} \cap Mapping IN
  IF c.op = "recreate"
  THEN [c EXCEPT !.op = "readd", !.at = "next", !.todo = m, !.other = c.todo]
  ELSE IF c.op = "expose" THEN [c EXCEPT !.at = "next", !.other = @ \cup m]
  ELSE [c EXCEPT !.at = "next"]

\* The item has thrown.  Removals go on with the next one; exposing by default
\* removes the mappings that it went through; an install rolls back.
Thrown(c) ==
  IF c.op \in {"uninstall", "rollback"} THEN [c EXCEPT !.at = "next"]
  ELSE IF c.op = "expose"
  THEN [c EXCEPT !.op = "rollback", !.at = "next", !.todo = c.other, !.other = {}]
  ELSE IF c.op = "public" THEN [c EXCEPT !.at = "undo"]
  ELSE NoCall

End(k)   == Becomes(k, Ended(call[k]))
Throw(k) == Becomes(k, Thrown(call[k]))

(* Docker or the API answers with an error. *)
CallFails(k) ==
  /\ call[k].at # "undo" /\ (call[k].at = "next" => call[k].op = "public")
  /\ Throw(k)
  /\ UNCHANGED <<dockerState, entries, serving, removing, leftover>>

(* There is no item left. *)
LastItem(k) ==
  LET c == call[k] IN
  /\ ~Idle(k) /\ c.at = "next" /\ c.todo = {}
  /\ \/ /\ c.op = "public" /\ Exposable[c.pkg] # {}
        /\ IF serving
           THEN Becomes(k, [c EXCEPT !.op = "expose", !.todo = Exposable[c.pkg]])
           ELSE Now(k, "undo")
     \/ /\ c.op = "readd"
        /\ Becomes(k, [c EXCEPT !.op = "recreate", !.todo = c.other, !.other = {}])
     \/ c.op = "rollback" /\ Now(k, "undo")
     \/ /\ c.op \notin {"readd", "rollback"}
        /\ c.op = "public" => Exposable[c.pkg] = {}
        /\ Becomes(k, NoCall)
  /\ UNCHANGED <<dockerState, entries, serving, removing, leftover>>

----------------------------------------------------------------------------
\* addMapping and removeMapping

(* Nothing is done while the https package does not run; the containers are
   listed, and the one of the service is looked up. *)
BeginItem(k, m) ==
  LET c == [call[k] EXCEPT !.todo = @ \ {m}, !.item = m, !.known = m.svc \in onNet] IN
  /\ call[k].at = "next" /\ m \in call[k].todo /\ call[k].op # "public"
  /\ Becomes(k,
       IF ~serving THEN Ended(c)
       ELSE IF m.svc \notin present THEN Thrown(c)
       ELSE IF c.op \in Deleting THEN [c EXCEPT !.at = "delete"]
       ELSE [c EXCEPT !.at = IF c.known THEN "list" ELSE "connect"])
  /\ UNCHANGED <<dockerState, entries, serving, removing, leftover>>

(* dockerNetworkConnect throws if the container is connected already. *)
Connect(k) ==
  LET s == call[k].item.svc IN
  /\ call[k].at = "connect"
  /\ IF s \in present \ onNet
     THEN onNet' = onNet \cup {s} /\ Now(k, "list")
     ELSE UNCHANGED onNet /\ Throw(k)
  /\ UNCHANGED <<present, aliased, entries, serving, removing, leftover>>

(* Mutant: the compose file is only written with a new entry. *)
KeepUnwritten(k) ==
  /\ UNCHANGED <<aliased, leftover>>
  /\ IF call[k].item.svc \in present THEN End(k) ELSE Throw(k)

\* The compose file is written, unless the package is gone.
Keep(k) ==
  LET s == call[k].item.svc IN
  IF s \in present
  THEN aliased' = aliased \cup {s} /\ leftover' = leftover \ {s} /\ End(k)
  ELSE UNCHANGED aliased /\ leftover' = leftover \cup {s} /\ Throw(k)

(* hasApiMapping: any entry for the service will do. *)
ListEntries(k) ==
  /\ call[k].at = "list"
  /\ IF Mapped(call[k].item.svc) THEN Keep(k)
                                 ELSE Now(k, "post") /\ UNCHANGED <<aliased, leftover>>
  /\ UNCHANGED <<present, onNet, entries, serving, removing>>

(* The API refuses a subdomain that is taken, which does not matter to
   exposeByDefaultHttpsPorts. *)
PostEntry(k) ==
  LET c == call[k] IN
  /\ c.at = "post"
  /\ IF entries[c.item.sub] = NoService
     THEN entries' = [entries EXCEPT ![c.item.sub] = c.item.svc] /\ Keep(k)
     ELSE /\ UNCHANGED <<entries, aliased, leftover>>
          /\ Becomes(k, IF c.op = "expose" THEN [c EXCEPT !.at = "next"] ELSE Thrown(c))
  /\ UNCHANGED <<present, onNet, serving, removing>>

(* The entry is added and the answer is lost. *)
PostLost(k) ==
  LET m == call[k].item IN
  /\ call[k].at = "post" /\ entries[m.sub] = NoService
  /\ entries' = [entries EXCEPT ![m.sub] = m.svc]
  /\ leftover' = leftover \cup {m.svc} /\ Throw(k)
  /\ UNCHANGED <<dockerState, serving, removing>>

DeleteEntry(k) ==
  LET m == call[k].item IN
  /\ call[k].at = "delete"
  /\ entries' = [d \in Subdomain |->
       IF d = m.sub /\ entries[d] = m.svc THEN NoService ELSE entries[d]]
  /\ Now(k, "left")
  /\ UNCHANGED <<dockerState, serving, removing, leftover>>

\* The network leaves the compose file, unless the package is gone.
Forget(k) ==
  LET s == call[k].item.svc IN
  IF s \in present THEN aliased' = aliased \ {s} /\ End(k)
                   ELSE UNCHANGED aliased /\ Throw(k)

(* A container that is still mapped stays; while the https package does not
   run there are no mappings. *)
StillMapped(k) ==
  LET c == call[k] IN
  /\ c.at = "left"
  /\ IF serving /\ Mapped(c.item.svc) THEN End(k) /\ UNCHANGED aliased
     ELSE IF c.known THEN Now(k, "leave") /\ UNCHANGED aliased
     ELSE Forget(k)
  /\ UNCHANGED <<present, onNet, entries, serving, removing, leftover>>

(* dockerNetworkDisconnect throws if the container is not connected. *)
Leave(k) ==
  LET s == call[k].item.svc IN
  /\ call[k].at = "leave"
  /\ IF s \in onNet
     THEN onNet' = onNet \ {s} /\ Forget(k)
     ELSE UNCHANGED <<onNet, aliased>> /\ Throw(k)
  /\ UNCHANGED <<present, entries, serving, removing, leftover>>

----------------------------------------------------------------------------
\* The calls of the user

Map(k, m) ==
  /\ Start(k, "map", "next", NoService, {m})
  /\ UNCHANGED <<dockerState, entries, serving, removing, leftover>>

Unmap(k, m) ==
  /\ m \in MappingsOf(present) /\ Start(k, "unmap", "next", NoService, {m})
  /\ UNCHANGED <<dockerState, entries, serving, removing, leftover>>

MappingsRecreate(k) ==
  /\ Start(k, "recreate", "mappings", NoService, {})
  /\ UNCHANGED <<dockerState, entries, serving, removing, leftover>>

(* getMappings: none while the https package does not run. *)
GetMappings(k) ==
  LET c == call[k]
      S == IF c.op = "uninstall" THEN ServicesOf(c.pkg) ELSE present
  IN /\ c.at = "mappings"
     /\ Becomes(k, [c EXCEPT !.at = "next", !.todo = IF serving THEN MappingsOf(S) ELSE {}])
     /\ UNCHANGED <<dockerState, entries, serving, removing, leftover>>

----------------------------------------------------------------------------
\* Installs, updates and removals of packages

\* The containers of S are created anew, with the networks of the compose files.
Containers(S, compose) ==
  /\ present' = present \cup S
  /\ onNet' = (onNet \ S) \cup (S \cap compose)

\* Their packages are removed: what is still mapped is left behind.
Gone(S) ==
  /\ present' = present \ S /\ onNet' = onNet \ S
  /\ leftover' = leftover \cup {s \in S : Mapped(s)}

\* compose up, then connectToPublicNetwork unless the https package is stopped.
StartInstall(k, p) ==
  LET S == ServicesOf(p) IN
  /\ Idle(k)
  /\ Becomes(k, [NoCall EXCEPT !.op = "public", !.pkg = p,
       !.todo   = IF serving THEN {m \in Mapping : m.svc \in S} ELSE {},
       !.update = S \cap present # {},
       !.backup = S \cap aliased])
  /\ UNCHANGED <<entries, serving, removing, leftover>>

(* An update keeps the networks of the compose file: they are user settings. *)
InstallPackage(k, p) ==
  /\ StartInstall(k, p)
  /\ UNCHANGED aliased /\ Containers(ServicesOf(p), aliased)

(* connectToPublicNetwork: a service with an entry is connected, and its
   compose file is not written. *)
ConnectMapped(k, m) ==
  LET c == call[k] IN
  /\ c.op = "public" /\ c.at = "next" /\ m \in c.todo
  /\ onNet' = IF Mapped(m.svc) /\ m.svc \in present THEN onNet \cup {m.svc} ELSE onNet
  /\ Becomes(k, [c EXCEPT !.todo = {n \in @ : n.svc # m.svc}])
  /\ UNCHANGED <<present, aliased, entries, serving, removing, leftover>>

(* rollbackPackages: an update goes back to the compose file of the backup, a
   new package loses its containers and keeps its compose file. *)
UndoInstall(k) ==
  LET c == call[k]
      S == ServicesOf(c.pkg)
      old == (aliased \ S) \cup c.backup
  IN /\ c.at = "undo" /\ Becomes(k, NoCall)
     /\ IF c.update
        THEN /\ aliased' = old /\ Containers(S, old)
             /\ leftover' = leftover \cup {s \in S : Mapped(s) /\ s \notin old}
        ELSE UNCHANGED aliased /\ Gone(S)
     /\ UNCHANGED <<entries, serving, removing>>

(* packageRemove calls removeMappings, which it does not wait for. *)
RemovePackage(k, p) ==
  /\ ServicesOf(p) \cap present # {} /\ p \notin removing
  /\ Start(k, "uninstall", "mappings", p, {})
  /\ removing' = removing \cup {p}
  /\ UNCHANGED <<dockerState, entries, serving, leftover>>

(* Its containers and its files are removed. *)
PackageRemoved(p) ==
  /\ p \in removing /\ removing' = removing \ {p}
  /\ Gone(ServicesOf(p)) /\ aliased' = aliased \ ServicesOf(p)
  /\ UNCHANGED <<entries, serving, call>>

(* Containers are recreated, with other settings or after a reset of volumes. *)
RecreateContainers(k, p) ==
  /\ Idle(k) /\ Containers(ServicesOf(p) \cap present, aliased)
  /\ UNCHANGED <<aliased, entries, serving, removing, call, leftover>>

(* The https package is started or stopped. *)
SwitchPortal(k) ==
  /\ Idle(k) /\ serving' = ~serving
  /\ UNCHANGED <<dockerState, entries, removing, call, leftover>>

----------------------------------------------------------------------------
ItemStep(k) ==
  \/ Connect(k) \/ ListEntries(k) \/ PostEntry(k) \/ PostLost(k)
  \/ DeleteEntry(k) \/ StillMapped(k) \/ Leave(k)
  \/ \E m \in Mapping : BeginItem(k, m) \/ ConnectMapped(k, m)
  \/ GetMappings(k) \/ LastItem(k) \/ CallFails(k) \/ UndoInstall(k)

UserCall(k) ==
  \/ \E m \in Mapping : Map(k, m) \/ Unmap(k, m)
  \/ \E p \in Package : InstallPackage(k, p) \/ RemovePackage(k, p) \/ RecreateContainers(k, p)
  \/ MappingsRecreate(k) \/ SwitchPortal(k)

PortalNext ==
  \/ \E k \in Caller : ItemStep(k) \/ UserCall(k)
  \/ \E p \in Package : PackageRemoved(p)

PortalSpec == PortalInit /\ [][PortalNext]_portalVars

----------------------------------------------------------------------------
\* Properties

PortalTypeOK ==
  /\ present \subseteq Service /\ onNet \subseteq Service /\ aliased \subseteq Service
  /\ entries \in [Subdomain -> Service \cup {NoService}]
  /\ serving \in BOOLEAN /\ removing \subseteq Package
  /\ call \in [Caller -> Calls] /\ leftover \subseteq Service

(* One call at a time: a service with a mapping is on the public network, and
   stays there when its containers are recreated, from its compose file. *)
PortalReachable ==
  \A s \in present \ leftover : Mapped(s) => s \in onNet \cap aliased

(* packageRemove.ts:41-42: the mappings "MUST removed before deleting containers". *)
RemovedUnmapped == \A s \in Service \ present : ~Mapped(s)
=============================================================================

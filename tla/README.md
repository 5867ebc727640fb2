# A TLA+ model of the DAppNode package manager

DAPPMANAGER is the Node.js process that installs, updates, configures and watches
the docker packages of a DAppNode.  This directory holds TLA+ modules translated
from its source (`src/packages/*`), the TLC configurations that check them on
small instances, and proofs checked by TLAPS that hold for every instance.

    tlc -workers 2 -config InstallFaults.cfg MCPackageInstall.tla
    tlapm PackageInstallSafety.tla

`PROJECT.json` lists the components, the runs, for every property a mutant of the
code that breaks it, the source lines of every definition, and the hazards.

## 1. Inventory

The process is one event loop.  Code between two `await`s is atomic; everything
else interleaves.  There is no transaction over files, docker and the database,
and the process itself is a container that its own updates replace.

| part | state | operations | talks to |
|---|---|---|---|
| install pipeline (`installer/src/calls/packageInstall*.ts`, `installer/src/installer`) | `lastInstallTimestamp` (5-minute flags), the compose file, the manifest and a backup of each, per package | resolve, check and flag, download, write and validate, create, start, expose, roll back, clean | docker, compose wrapper, https portal, event bus |
| install calls (`packageSetEnvironment`, `packageRemove`, restarts of volumes, port mappings) | the same files and containers | edit a compose file and up it; down and delete | compose wrapper |
| compose wrapper (`dockerApi/src/dockerComposeUp.ts`) | `composeUpLocks` | `dockerComposeUpPackage`, `getContainersStatus` | docker |
| restart patch (`installer/restartPatch.ts`) | `coreUpdatePackagesData` in the database, a second container | hand over to a container that replaces the process; finish or roll back at the next start | docker, pipeline |
| package resolution (`installer/src/dappGet`) | caches of fetched versions | aggregate, permute, check, with a time-out | registry, IPFS |
| auto-updates daemon (`daemons/src/autoUpdates`) | settings, one pending version and a registry of results per package | check, delay, install, record | pipeline, notifications, event bus |
| https portal (`httpsPortal/src`) | mappings of an external API, networks of containers | add, remove, recreate, expose by default | pipeline, docker |
| stakers (`stakers/src`, `daemons/src/stakerConfig`) | the client selected per network, docker networks | set new, persist, check again at a start | pipeline, compose wrapper |
| docker network reconciliation (`daemons/src/dockerNetworkConfigs`, `daemons/src/bind`) | the networks of docker and the addresses on them | every 30 minutes connect every container, bind and the dappmanager with their addresses; every 10 minutes look after bind | docker, compose wrapper |
| NAT renewal (`daemons/src/natRenewal`, `upnpc`) | UPnP mappings, ports in the database | list, open, renew | event bus |
| async flows (`utils/src/asyncFlows.ts`) | a queue per function | one at a time, at most every, one for all | every daemon |
| ethical metrics, threshold daemons (disk, internet, host reboot, repositories) | last level, counts of failures | poll, notify once | notifications, pipeline |
| event bus, database, compose editor, docker API, toolkit, host scripts, migrations, API, nexus, optimism, chains, dyndns, admin UI | see `PROJECT.json` | | |

What is hard here:

- *overlap*: two requests whose package lists intersect; a call that ups a
  package in the middle of its install; a daemon and the user doing the same;
- *state read before an `await` and used after it*: the list of installed
  packages, the user's settings, which services are stopped;
- *partial failure*: package 2 of 3 fails to start, and everything must go back;
  the roll back itself fails;
- *crash*: memory (flags, locks) is lost, files and containers stay, backups of
  an interrupted install meet the next one;
- *time*: the flag that expires during a slow install, the delay of an
  auto-update, the wait for the restart container.

What makes each part correct: an install ends with each of its packages at the
new version or back at the previous one, never mixed, with nothing locked or
flagged; a stopped service stays stopped; a core update is finished or rolled
back exactly once; an auto-update happens only after its delay, for the version
that was seen, with the setting on; the mapping, network and staker records agree
with docker after a round of their daemon; a function run "one at a time" runs
again after the last request.

## 2. Plan

1. `PackageInstall` with the calls that touch the same packages, `InstallGuard`
   as its abstraction, the proofs (done).
2. `AutoUpdates`: settings, the pending slot and the registry, with installs,
   removals and restarts in between, and the proofs (done).
3. `CoreUpdate`: the restart patch, its record in the database and the process
   that reads it after the restart, and the proofs (done).
4. `DappGet`: the resolver, its concurrent aggregation and its choice, over small
   universes of versions, checked against their definitions, and the proofs (done).
5. `NatRenewal`, over the sequential runner of `asyncFlows`, and the proofs (done).
6. `Stakers` and `HttpsPortal`: the persisted selection, external mappings and
   networks, with installs that fail, and the proofs (done).
7. `DockerNetwork`: the rounds of docker network reconciliation beside the bind
   daemon, and the proofs (done).
8. Left: the threshold daemons; `basic.ts`, the resolver that skips `DappGet`;
   MEV boost and the signer in `Stakers`; an install pipeline composed with
   `CoreUpdate`.

Runs are few and each asks one question.  Components that share no state share a
run and not a state space: the resolver, the NAT renewal and the portal
(`MCNode`), the core update and the stakers (`MCCoreStakers`).

## 3. The modules

### `PackageInstall`

A request is named `r \in Req`; `DevReq` are the calls of `packageInstallDev`.
`pc[r]` is the `await` the request is at:

| pc | waiting for | code |
|---|---|---|
| `idle`, `list`, `gather`, `ask` | the resolution, `listPackages`, `getInstallerPackagesData`, a second look at docker for packages it did not list | `packageInstall.ts` 35-78, `packageInstallDev.ts` 70-114 |
| `prepare` | downloads, `docker load`, volumes | 89-93 |
| `validate` | `docker compose config` of package `idx[r]` | `writeAndValidateFiles.ts` |
| `create`, `start`, `starting`, `expose` | `docker compose up --no-start`, the copy of file uploads, `docker compose up` under the lock, the https portal | `runPackages.ts` |
| `undo`, `undoing` | the containers of a roll back | `rollbackPackages.ts` |
| `clean` | `dockerCleanOldImages`, after the backups of the package are removed | `postInstallClean.ts` |
| the rest (`Ended`) | nothing: the way the request ended | |

One action is what runs between two of these.  So `Flag(r)` is the step that reads
the last answer of docker, checks `packageIsInstalling` and flags: no `await`
lies between.  `Validate(r)` writes the manifest of one package and backs up and
writes the compose file of the next.  `RollbackFiles(r)` is the synchronous first
loop of `rollbackPackages`, part of the step that fails.

Data.  A compose file is `[ver, env]`: which request wrote it and which call
edited the user's environment in it.  A package's containers are `[from, up]`: the
file they were created from and if they run.  `isUpdate[r]` is what
`listPackages` said when the request was resolved, `wasStopped[r]` and `userSet[r]`
what `getInstallerPackagesData` read.  `composeUpLocks` is `upLock`, with the
content of the file as docker reads it when the command starts.  `hadCompose` is
a history variable for the properties.

`EnvOp` are calls of `packageSetEnvironment` (edit in place, then up under the lock or
throw), `RemoveOp` of `packageRemove` (down, then delete the folder).  `Crash` loses
the memory and keeps files and containers.  `FlagExpires` is the five minutes.
`Faults` says which failures an instance may have.

`Recreate(d)` is the recovery of `dockerComposeUpPackage` (94-100): where docker
cannot rename the container, everything is taken down and upped again with the
file that is there then, without looking at the services to start, and the call
goes on to end as any up does.  It is a step of the lock, whoever holds it (an
install, a roll back, an edit).  `recreated` is history: the packages it has
happened to, of which a stopped one comes up.

`InstallGuard` is the promise of the flags: a request takes all its packages at
once, only if nobody has one of them, and gives all of them back at once.  The
refinement maps `held[r]` to the packages of a request between flag and
`afterInstall`.

Simplifications, each on the side of more behaviours or out of reach of the
properties: the resolver may answer any non-empty list in any order; a package
has one container group (several services are stopped or run together); a
version is named by the request that writes it; `docker compose up` that fails
leaves the containers as they were, stopped, created or gone (`HalfUpped`); the
process is not the package being installed (the restart patch is another module).

### `AutoUpdates`

The daemon is one loop (`runAtMostEvery`), so one round at a time.  `daemon` is the
`await` the round is at:

| daemon | waiting for | code |
|---|---|---|
| `sleep` | the next interval | `startAutoUpdatesDaemon.ts` 62 |
| `check` | `getVersionAndIpfsHash` of the next name, or `getReleasesResolved` of the core | `updateMyPackages.ts` 27-46, `getCoreUpdateData.ts` 25-45 |
| `decide` | the notification of the update, or `listPackages` for the core | `updateMyPackages.ts` 60, `getCoreUpdateData.ts` 47 |
| `resolve` | `packageInstall` up to `listPackages` of the resolver | `updateMyPackages.ts` 138, `updateSystemPackages.ts` 46, `dappGet.ts` 70 |
| `resolved` | the rest of the resolution and the releases, nothing flagged yet | `dappGet.ts` 72-124, `packageInstall.ts` 47-78 |
| `install` | the rest of `packageInstall` (`PackageInstall` has its steps) | the same |

`todo` and `from` are the list of packages as it was at the start of the round:
what is installed may change under it.  It may change again between `ReadInstalled`,
which decides if there is anything left to install, and the flag of completion
(`ResolveNothing`) or the install (`Resolve`).  `Skip`, `Record` and `Authorize` are the
three outcomes of one synchronous step (`isDnpUpdateEnabled`,
`computeSemverUpdateType`, `isUpdateDelayCompleted`).  The database is `settings`,
`slot` (the version of the entry of `autoUpdatePending` and the ticks left before
`scheduledUpdate`) and `registry`.  `EditDnp`, `EditMyPackages`, `editCoreSetting`
are `autoUpdateSettingsEdit`; `UserInstall` is any install that is not the daemon's,
with the clearing of the registry that its event causes; `Remove` and
`RemovedEvent` are the two ends of `packageRemove`, between which the daemon goes
on and the process may end.  An update of the core may replace the process
(`CoreRestart`) or not (`InstallOK`); `clearCompletedCoreUpdatesIfAny` is not awaited
by the start and runs beside the first round.  `age`, `on` and `crossed` are history: for how
long a version is published and a name enabled, counted up to `MinDelay`, and the
packages that were removed while `packageInstall`, having found nothing to install
of them, was on its way to the flag of completion.

Data.  A version is a number; what makes an update too large for the daemon
(`computeSemverUpdateType`) is a set of versions, one for packages and one for the
core.  The delay is drawn in each process (36 hours give or take 12): a slot may
get any delay between `MinDelay` and `MaxDelay`.  The error message of a slot is
left out; `flagErrorUpdate` then changes nothing, and the entry without a version
that it leaves for a name that has none is `NoSlot`.  The `versionId` of the core
lists only the packages to be updated, so that a manual update of one of them
makes another `versionId` and starts the delay again: here it is one number, which
allows updates earlier than the code does.  The dependencies that an auto-update
brings are `UserInstall`s.

### `CoreUpdate`

What happens when the package to install is the dappmanager, that is the process
itself.  `pc[c]` is the `await` of `restartDappmanagerPatch` for the update
(`"update"`) and for a plain restart (`"restart"`); `script` is where the script of
the restart container is (stop and up, start, the fall-back to the backup, exit);
`post` is the `await` of `postRestartPatch` in the process that starts.  `WriteFiles`
and `RunPackages` stand for the pipeline up to the dappmanager's turn, whose steps
are in `PackageInstall`.

`record` is `coreUpdatePackagesData`: the only thing the next process knows.
`FreshProcess` is a process that starts, from the script or after a `Reboot`, in which
`post` begins.  `Faults` names what an instance may fail: `"up"` before the old
container is stopped, `"start"` after it, `"launch"` of the restart container,
`"remove"` of the old one, `"frozen"` (a call gives up waiting for an older restart
container), `"inspect"` (docker does not answer a wait for the restart container),
`"slow"` (`postRestartPatch` gives up after a minute) and `"overlap"`
(another update while `postRestartPatch` is at the last one, since its roll back
and its clean-up are not awaited).  `PostInspectFails` ends `postRestartPatch` with
nothing done (`restartPatch.ts` 230, logged by its caller); `missed` is history: it has
happened.  `Reboot` comes at any moment: it kills the script, which nothing resumes,
and starts the dappmanager anew, unless the script had stopped or removed its
container and not started another.

`AtomicUpdate` is what an update promises: it is decided in one step, the start of
the new dappmanager.  The refinement maps `target` to `tried` and `open` to `Undecided`:
`packageInstall` is at work, or the record says another version than the one that
runs.

Simplifications: the time-out of 15 minutes of the shell is one of its failures;
the commands of a manifest that replace the script are left out; that the `up` of
a roll back fails is in `PackageInstall` only.  `restartPatch.ts` 127-130 is taken
as said: the shell of a script that stops the dappmanager never answers.

### `DappGet`

A resolution in a `world` that stays as it is: the range that is requested, the
manifests, what is installed (and which of that has no registry), for which names
the registry is silent, which manifests are lost.  A version of a package is a
number, a range a set of them and the way it is looked up.

`graph` says what `dnps` has of a version: nothing, `"fetch"` (locked by
`setVersion(.., {})`, the manifest awaited), `"join"` (its dependencies awaited) or
`"in"`.  `calls[c]` are the names a version waits the answer of the registry for,
`<<n, 0>>` being the call that `aggregate` makes for `n`; all of them are
concurrent.  `RequestAggregated` is `cleanupDnps`, `getRelevantInstalledDnps` and
the start of the second round, which run without an `await`;
`InstalledAggregated` the labels and the removal of versions.  The least fixed
points of `Cleaned` and `Dependants` stand for the two loops.  `Strides`,
`Permutation` and `ValidState` are the table of permutations and its walk;
`NotResolved` includes the ten seconds after which the walk stops.

The definitions it is checked against (`Aggregate`, `Satisfied`, `Preferred`) are
not derived from the algorithm: a graph as a fixed point over manifests, what the
node has after the install, and a partial order on results.

Left out: versions that are hashes, optional dependencies (a manifest has them
merged), the bound of 1000 on the recursion, the 2 seconds of the search for
dependants.

### `NatRenewal`

`renewal` is the `await` that `natRenewal` is at: the list of mappings, the
containers, closing or opening `port` of the `unopened` ones, the second list.
`cargo` is the queue of `async.cargo`: any number of requests is one run.  `Publish`
is a call that publishes a port, and `publishing` has the ports whose call is not at
its end.  It ends with the event (`EmitRunNatRenewal`) or without one
(`EndsSilently`): `packageSetPortMappings` that puts the earlier ports back and throws
(53-76), an install that fails, and the start, restart or reset of a package with
ports that docker chooses.  `silent` is history: ports whose call ended so, until
somebody asks for a run or a run reads the containers.
The `router` forgets its mappings or stops answering at any time; `NatRestart`
keeps the database only.

### `Stakers`

One network and one role.  `selected` is the database, `tagged` the compose files
with the staker network, `joined` the containers on it.  `setting` is the `await` of
`setNewExecution` or `setNewConsensus`:

| setting | waiting for | code |
|---|---|---|
| `settings` | `getUserSettings`, after the previous client was read | `execution.ts` 124-132, `consensus.ts` 162-164 |
| `prev` | the package of the previous client | `stakerComponent.ts` 86 |
| `unset` | its containers, recreated and not started | 192-196 |
| `new` | the package of the new client | 101 |
| `up`, `install` | its containers, or `packageInstall` | 165, 142 |

and `persisting` that of the daemon, which comes at any moment of a switch and does
not look at it.  Between them the user starts, stops, recreates, removes and
installs clients.  `Created` is a compose up that ends: the containers join the
network if the compose file said so when it was written or when docker read it.
One that fails or is interrupted has recreated the containers or not
(`UpToAPoint`).  A client that is `Locked` is being upped: another compose up of it
throws.  `stakerConfigSet` calls the switches of a network one after the other; two
calls of it at a time are left out.

`stray` is history: the clients that a switch left tagged when it failed; those the
daemon wrote into the compose file when a switch was already past them (not
`OnTime`); those whose selection the daemon overwrote or cleared, or that a switch
brought in while the daemon wrote another selection (`Overwritten`, `Settles`).  A
client is no stray any more when a switch takes it off the network, or when a
switch or the daemon settles on it.

### `HttpsPortal`

`entries` is the API of the portal, `onNet` and `aliased` the public network in the
containers and in the compose files.  `call[k]` is what a call is doing: the list of
mappings it still has to work on, the one it is at and the `await`.  One set of
actions (`BeginItem` to `Leave`) is `addMapping` and `removeMapping`, which every call
goes through; `Ended` and `Thrown` are what the caller does with the result: the
next mapping, the second half of `httpsPortalMappingsRecreate`, the roll back of
`exposeByDefaultHttpsPorts`, the roll back of the install.  `InstallPackage` is the
compose up of an install or an update with what follows it; `RemovePackage` starts
`removeMappings` and goes on (`PackageRemoved`) without waiting for it.  `leftover`
is history: services whose mapping outlives a failure or a removal.

### `DockerNetwork`

Docker is `state` (a container runs, is stopped, is gone) and `addr` (its address on the
network, while it runs).  A round and the bind daemon each have the `await` they are
at:

| at | waiting for | code |
|---|---|---|
| `list` | `createDockerNetwork`, `packagesGet` | `index.ts` 78-83 |
| `next` | the compose up of the next package | 84-99 |
| `look`, `connect` | a container without an address of its own: is it on the network, connect it | `connectPkgContainers.ts` 59-69 |
| `find` | the first look at who has the address | 105 |
| `free`, `drop` | `disconnectConflictingContainerIfAny`: its look, its disconnection | 107, 196 |
| `inspect`, `restart` | the container and its restart | 114-117 |
| `attach`, `detach` | an attempt to connect, or to disconnect it from a wrong address | 189, 205 |
| `recreate` | bind was not there: its compose up | 145 |

| watch | waiting for | code |
|---|---|---|
| `running`, `network`, `address` | the three looks at bind | `ensureBindContainerIpAndRunning.ts` 28, 37, 49 |
| `free`, `drop` | `disconnectConflictingContainerIfAny` | 9 |
| `up`, `back` | bind's compose up, the other container connected back | 12, 20 |
| `recreate` | the compose up after any 404 | 70 |

`Move` is the user and everything else that starts, stops and removes containers at
any time, `Restart` the process, which is a container on the network itself.
`quiet` and `calm` are history: nothing but the round has changed or failed since it
began, and how many such rounds there were in a row.

One network at a time: a round goes over the two one after the other and nothing it
does on one changes the other, and the bind daemon knows only `dncore_network`.  A
package has one container, and bind and the dappmanager have an address each (the new
network has none for the dappmanager).  The edits of compose files by
`writeDockerNetworkConfig` are left out: whether a container that starts is on the
network, and where, is left open, except that bind starts with its address or not at
all, as `ensureBindComposeIp` writes it.

### `MCNode`

`DappGet`, `NatRenewal` and `HttpsPortal` in one specification.  `part` says which of
them a behaviour is about; the others rest in one state, so the states are the sum
of the three and every property holds for the part it is about and trivially for
the others.  The fairness of the parts is joined for the same reason: `part` never
changes, so weak fairness of `A \/ B`, where `A` is a step of one part and `B` of
another, is weak fairness of each.  The worlds of the resolver are enumerated here.

### `MCCoreStakers`

`CoreUpdate` and `Stakers` in one specification, in the same way, with the fairness
conditions of each restricted to the behaviours that are about it.

## 4. Runs

| run | instance | properties |
|---|---|---|
| `InstallFaults`, requests | 2 requests, 2 packages (one with `pid: service`), every failure but `"rename"`, and a restart, flags that last | `TypeOK`, `NoDoubleInstall`, `BackupSound`, `RollbackRestores`, `LockNotLeaked`, `ImplementsGuard` |
| `InstallFaults`, calls | a dev install of one package, 2 edits of its environment, its removal, every failure but `"rename"`, restart, expiry | the same |
| `InstallOutcome` | 2 requests, 2 packages, failures of preparation, of the renaming of a container, of the portal and clean-up, fairness | `QuietConsistent`, `RollbackUpsPrevious`, `RunningRunsAgain`, `StoppedStaysStopped`, `EventuallyUnflagged` |
| `AutoUpdates` | a package with 3 versions, a core with 2, a delay of 1 tick, a restart | `TypeOK`, `PendingOnlyWhenEnabled`, `CompletedReached`, `DelayEnforced`, `RemovedNotAuthorized` |
| `AutoUpdatesLive` | a package with 4 versions, the last breaking, a restart, fairness | `EventuallyUpdated` |
| `CoreStakers`, core | 2 updates of a core of 3 packages, 2 plain restarts, a reboot, every failure but `"slow"` and `"overlap"`, fairness | `CoreStakersTypeOK`, `PendingCanRollBack`, `FallbackHasBackup`, `FinishedIsNew`, `AllOrNothing`, `RecordSettles`, `UpdateRevives`, `ImplementsAtomicUpdate` |
| `CoreStakers`, stakers | 2 clients, switches and the daemon at any time, failures, any number of restarts, fairness | `CoreStakersTypeOK`, `OneClientStakes`, `TaggedIsSelected`, `SelectedJoins` |
| `Node`, resolver | 179 worlds of 3 packages with 2 versions | `NodeTypeOK`, `AggregateConfluent`, `ResultSound`, `DependantsKept`, `ResultBest`, `ResolutionEnds` |
| `Node`, NAT | 2 ports, a restart | `PortsNotMissed`, `PortsOpened` |
| `Node`, portal | a package with 2 services, 2 subdomains, every failure | `PortalReachable` |
| `DockerNetwork` | either network, 3 containers in any places, 3 addresses, the daemons overlapping or not, one move and one failure, fairness | `TypeOK`, `TwoRoundsSettle`, `NetworkSettles` |
| `InstallDevRace` | a `packageInstall` and a `packageInstallDev` | violates `NoDoubleInstall` |
| `InstallStaleUpdate` | two requests resolved before either installs | violates `DoneStaysInstalled` |
| `InstallEnvRace` | an update and an edit of the environment | violates `RollbackUpsPrevious` |
| `CoreDelay` | a core with 3 versions, the last more than a patch | violates `CoreDelayEnforced` |
| `CoreRestart` | a plain restart that fails | violates `RestartHasBackup` |

Bounds.  Two packages give every case of the loops (first, last, one before the
failing one, one after) and of overlapping lists in both orders; two requests
give a backup left by one and found by the other, since a request is made once
and a third adds only another predecessor.  The initial states are all
combinations of installed, stopped and absent.  The calls of
`InstallFaults` are about one package because the question is about one compose
file and four writers of it.  The fault `"rename"` is in `InstallOutcome` only, whose
properties are about what runs in the end; what it may do to locks, flags and
backups is in the proofs.  `ScenesSpec` in `MCPackageInstall` has the initial states
of the two instances: the requests and calls that the other instance is about have
ended, so that the states are added, not multiplied, and the action constraint `InScene`
keeps the calls to their package and the flags of the requests from expiring.  The
requests end, so the runs do not check deadlock; that a request is never stuck is
what `EventuallyUnflagged` says.

For the daemon, three versions give a slot that is replaced and an install that is
newer than the one the daemon is at, the fourth a breaking version that leaves
a slot behind; one package is enough because nothing of a package depends on
another (the proofs say so for any number).  A delay of one tick is as long as
`MinDelay`, so that a slot is due exactly when the delay has passed; that one drawn
longer changes nothing for safety is in the proofs.  `AutoUpdatesLive` gives the core one version and
drops the history (`MinDelay = 0`), which no liveness depends on: with both names
active the temporal check takes longer than the states are worth.  `PackagesSpec` is
`FairSpec` without the fairness of the core, which has nothing to do there.

For the core, two updates let the second find what the first left (a record, a
backup, an old restart container), and two restarts one in between and one at the
same time.  The worlds of the resolver have chains, a cycle, exact versions that
exclude each other, installed packages that depend on each other in the direction
of the request and against it, and one fault each; two versions give an upgrade, a
downgrade and a choice, three packages a dependency of a dependency.  `Bounded` leaves
out combinations of range, faults and installed packages, not kinds of them.  Two
ports give a loop with a first and a last and a port published behind its back;
two services of a package and two subdomains give
a service that is still mapped when one mapping goes, and a subdomain that is
taken.

On the network, one container is before bind in the list and the dappmanager after it,
which are the two cases of being taken off after one's turn or before it; the
third address is the one that a container can be moved to, and an address is free
whenever one of them is off the network, as on the real one.  Every initial place of
every container is tried, so that a move stands for what happens during a round, not
for how the network came to be.

For the stakers two clients are the previous one and the new one, whatever the roles
change to; restarts and the daemon's rounds have no bound.

Fairness of the core: `WF` of the calls, of the script and of `postRestartPatch`, which
wait on docker with time-outs.  Fairness of the NAT renewal: `WF` of the interval and
of the run, which catches every error; `SF` of the calls to the router and to docker
that may fail, not for ever.  Fairness of the stakers: a switch ends; the daemon
comes every 30 minutes, its calls do not fail for ever, and it is not at every one
of its rounds that a switch is bringing up or taking down the very client the daemon
is at (`Unheld`): a switch takes minutes.  The resolver's calls end.
The portal has no liveness property: a call that fails is not tried again.
Fairness of the network: `SF` of each of the two daemons, whose loops go on after
every error (`runAtMostEvery`) and whose calls docker answers.  That they take turns
from some time on is not fairness but the premise of `NetworkSettles`
(`<>[]~Overlapping`): a round takes seconds and a pass of the bind daemon less, every 30
and every 10 minutes, so that is the normal case, not a certainty (see below).

Fairness of the installs.  `WF` of each request that has been made and each call that has started:
`await`s of docker, downloads and validation end, by their own time-outs if need
be.  That a user makes a request is not assumed.  Fairness of the daemon: `WF` of time and of
the round, since the loop goes on after every error; `SF` of each outcome that is
not a failure, per name: the list, the registry, the notification, the resolution
and the install may fail any number of times, not for ever.

What the properties leave out, by a history variable that says exactly when (each
is what the code does, TLC refutes the property without the exception, and the
behaviour is in the list below):

| property | leaves out | history |
|---|---|---|
| `StoppedStaysStopped` | packages that docker compose up had to take down | `recreated` |
| `RunningRunsAgain` | packages some request found created and not started, or stopped | `wasStopped` |
| `CompletedReached` | packages removed between the list of the resolver and the flag | `crossed` |
| `AllOrNothing`, `ImplementsAtomicUpdate`, half of `FallbackHasBackup` | a plain restart, a restart of the host, an error of docker in `postRestartPatch` | `restarts`, `reboots`, `missed` |
| `RecordSettles` | the same two, without plain restarts | `reboots`, `missed` |
| `UpdateRevives` | a restart of the host while the script has the dappmanager down | `reboots` |
| `PortsNotMissed` | ports whose call ended without asking for a run | `silent` |
| `OneClientStakes`, `TaggedIsSelected` | clients left by a failed switch, or by a switch and the daemon that crossed | `stray` |
| `PortalReachable` | mappings that outlive a failure or a removal | `leftover` |

What the violations show:

1. `packageInstallDev` checks the flag, awaits docker twice, then flags without
   looking again: both installs work on one package.
2. `isUpdate` is from the time of resolution.  A request that was resolved while a
   package was absent, and fails after another one installed it, removes it.
3. `dockerComposeUpPackage` does not queue, it throws.  A call that holds the lock
   makes the update throw, and the up of the roll back throw too: the old file,
   the new containers.  The error of the roll back is only logged.
4. The delay of the core is checked for the version the round saw; `packageInstall`
   gets no version and resolves the last one.  A core version published in
   between is installed without a delay, even one that is more than a patch.
5. The script of `restartDappmanagerPatch` falls back to the backup of the compose
   file, which its caller must have written.  `packageRestart` (line 30) and
   `packageSetEnvironment` (line 40, after it edited the file) write none: if the
   new container does not start, nothing runs.

Behaviour the model has and no property forbids, because the code means it or
nothing in the repository says otherwise:

- a flag that expires admits a second install of the same package;
- a compose file that `docker compose config` refuses stays in place, with its
  backup beside it (the validation is outside the `try` that rolls back);
- `docker compose up --no-start` runs outside the lock;
- a container that was created and not started counts as stopped, so a restart
  in between, or a snapshot taken in between, leaves the package down: a request
  reads the packages while another has created and not yet started one that ran
  before, waits for it to end, installs, and starts nothing (without its exception
  TLC refutes `RunningRunsAgain` by it in 23 states);
- where docker cannot rename a container, docker compose up takes the package down and
  ups all of it: a stopped package comes up (`dockerComposeUp.ts` 94-100 looks at no
  list of services to start);
- an edit of the environment between the snapshot and the write is lost;
- the roll back of a first install removes containers and leaves the files;
- a package that is removed after the daemon has called `packageInstall` for it is
  installed again, and one removed before its turn in the round may get a slot
  that no event clears;
- the type of an update is that of the jump from the version listed at the start
  of the round: after a removal and an install of an older version in between
  the real jump may be a breaking one;
- an update that the user made while the daemon's was being resolved is flagged
  as an auto-update (`ResolveNothing`); an update that fails is tried again every 30
  minutes;
- the registry may show an update that was never reached: the daemon authorizes a
  version, the user installs it first, `dappGet` lists it (70) and finds nothing to do;
  before the completion is flagged (`updateMyPackages.ts` 143) the user removes the
  package and installs an older version.  TLC refutes `CompletedReached` without
  `crossed` by this, in 16 states; the entry stays until the next install or removal;
- *core*: a plain restart that fails clears the record of the update beside it
  (`restartPatch.ts` 138); the exit code of a restart container that still runs after a
  minute is 0 (223), so the update is finished before its outcome is known; a record
  whose restart container is gone stays until the next start (181); if the old
  restart container could not be removed, a reboot makes the next process read its
  code again, which is why `FinishedIsNew` stops at a reboot; a reboot after the new
  dappmanager has started and before the script ended rolls the other packages
  back; one before the record is written leaves files that never ran, which the
  next update backs up.  The roll back and the clean-up are not awaited (167, 172).
  An error of docker other than "no such container" while `postRestartPatch` waits
  (230) is logged by its caller and nothing else: record and backups stay, nothing is
  rolled back or cleaned, and the next start reads the record again.  If the host
  restarts after the script stopped the dappmanager and before it started the new
  one, nothing resumes the script, and where the container was already removed or
  the new one only created, nothing runs;
- *resolver*: `dappGet` succeeds without the request when every version of it goes and
  some dependency stays (`RequestResolved`, which TLC refutes; `aggregate/index.ts` 89
  only asks for an empty graph); a requested downgrade is reported as already
  updated; the dependants of a package that only an installed dependant brings in
  are not looked for; an error for an installed dependant is only logged; one
  unknown dependency of a newer version of an installed package fails the whole
  resolution (162-164); among packages of the same kind the order of the answers
  decides; exact versions are not asked to the registry;
- *NAT*: the ports of a package that is removed stay open until the router forgets
  them; the cargo would be stuck if `natRenewal` threw.  Ports that are published by a
  call that ends without the event (see `NatRenewal`) wait for the interval, or for
  anybody else's request: `PortsOpened` covers them, `PortsNotMissed` does not;
- *stakers*: the daemon does not look whether a switch is at work.  It reads the old
  client, the switch ends, the daemon tags and starts the old client and writes it to
  the database: both run on the staker network, and the selection is the one the
  user has just left.  It may also clear or overwrite the selection the switch has
  made (`execution.ts` 110, 119), or write the old one before the switch ends, which then
  stores the new client without taking the old one off the network.  These are the
  strays, and without any one of these exceptions TLC refutes `OneClientStakes` or
  `TaggedIsSelected` within 14 to 16 states.  A client that the user stopped is started again
  every half hour; the compatibility that is checked is that of the previous client
  (90-92), so that an incompatible one cannot be left; a switch whose last up fails
  leaves the new client tagged, for the next recreation to bring it in;
- *portal*: `RemovedUnmapped`, the comment of `packageRemove.ts` 41-42, does not hold, as
  `removeMappings` is not awaited (44) and does nothing while the portal is stopped;
  an entry that is left exposes the package when it is installed again.
  A second mapping of a service is silently not added (`hasApiMapping` looks at the
  service only); `httpsPortalMappingsRecreate` loses the mapping whose second half
  fails; `connectToPublicNetwork` connects without writing the compose file; a default
  exposure that fails removes mappings that were there before it; the comparison
  of line 217 is never true.  With two calls at a time TLC refutes
  `PortalReachable` in 9 states: an update recreates the containers between the look
  at a container and the entry of the portal;
- *network*: one round is not enough.  `setDappmanagerAndBindFirst` ("bind should be
  first", `index.ts` 113) compares names of packages with names of containers, which are
  never equal, and sorts nothing.  A package listed before bind that has bind's address is
  found connected, then disconnected when bind's turn comes, and stays off the
  network until the next round: TLC refutes `OneRoundSettles`, and with `Before` as the
  comments mean it (bind, then the dappmanager) finds it to hold.
  `connectPkgContainerWithIp` asks who has the address, and
  `disconnectConflictingContainerIfAny` asks again: if the bind daemon connected bind in
  between, the round disconnects bind (TLC refutes `OthersAreDisconnected`) and
  connects it again in the same turn.  Without its premise TLC refutes
  `NetworkSettles`, by a round and a pass of the bind daemon that always come at the same
  time and each undo what the other did; a 404 of any container is taken for bind's, and bind is recreated for it
  (`ensureBindContainerIpAndRunning.ts` 63); a container that the bind daemon took off
  the network is not connected back if bind does not start.

## 5. Proofs

`PackageInstallProofs` proves `Spec => []TypeOK` with no assumption beyond those of
the module, through `IndType`: well-typed, every request past its resolution has a
plan, `idx` points into it while the request is flagged, and the lock has a holder
with a package.  Without the last three, `Cur(r)` is not known to be a package and
no action's type follows.

`PackageInstallSafety` builds on it:

- `LocksNotLeaked` (`LockNotLeaked`), no assumption: a step of a request leaves
  the locks, takes its own or gives it back (`LockCases`), and a step of another
  moves neither its `pc` nor its package.
- `NoDoubleInstalls`, assuming `Guarded`: `DevReq = {}` and no `"expire"` fault, which are
  the two ways the first violation and the 5 minutes break it, or a single
  request, as in the calls of `InstallFaults`.  The inductive invariant adds `FlagsSet` (the packages
  of a flagged request are in `installing`): `NoDoubleInstall` alone does not say that
  the check of a newcomer sees the others.  `PipelineImplementsGuard` is proved for
  the first case.
- `BackupsSound` and `RollbacksRestore`, assuming `Guarded`, with edits and removals of the
  same packages, failures and restarts: `BackupInv` follows what
  request `r` wrote.  Before its first file nothing on disk is its own
  (`Unwritten`), inside the loop nothing at the packages still to come (`NotYet`,
  where the list having no repetition matters), after that each file it replaced
  has an older backup (`BackedUp`), after a roll back nothing is left
  (`RolledBack`).  A step of another request changes only its own packages, which
  `NoDoubleInstall` makes disjoint.
- All of these are with the fault `"rename"`: `RecreateFrame` says that a recreation moves
  no request and no file, only containers and the lock of their holder, and
  `RecreateKeepsOutcome` that containers it takes away are those of somebody at work.
- `StoppedStay` (`StoppedStaysStopped`), assuming no `packageRemove` and no failing
  command of docker (`"create"`, `"start"`, `"rollback"`): with dev installs,
  `packageSetEnvironment`, flags that expire and restarts.  `StoppedInv` says for one
  package that its containers are there and stopped, that whoever holds its lock
  does not ask for a start, and that each request that will touch it has it in
  `isUpdate` and, once its containers were read, in `wasStopped` (`KnowsStopped`).  This
  holds until docker takes the containers down to up them again, and `recreated`
  remembers that it did.
  The assumption is needed: a failed command may leave no container, and then
  nothing tells the next request that the package was stopped.  TLC finds such a
  behaviour for `"rollback"` with two requests, for `"create"` and for `"start"` with a
  dev install or a `packageSetEnvironment` besides (with two installs of
  two packages and nothing else it finds none: the flag is held until the roll back
  is over).
- `QuietlyConsistent` (`QuietConsistent`) and `RollbacksUpPrevious`
  (`RollbackUpsPrevious`), under `Undisturbed`: `packageInstall` alone, and no
  `"validate"`, `"rollback"`, `"expire"` or `"crash"`.  Failures of preparation, of
  `docker compose up` in `runPackages`, of the portal and of the clean-up are in.  Each
  excluded failure leaves containers and file apart by what the code does (an
  install that ends as `invalid` has replaced the file of a package it does not start),
  so `QuietConsistent` fails with any of them.  `RollbackUpsPrevious` by itself fails
  only with `"rollback"` or `"expire"`; its proof uses the same invariant, and so the
  same assumptions.
  `OutcomeInv` says where a package may differ from its file: at a position of a
  request that is behind (`Behind`), which every step moves on (`FlaggedSteps` lists
  the nine kinds of step); that a rollback is never refused the lock (`UndoFree`,
  from `LockNotLeaked` and `NoDoubleInstall`); that an update had a file and a backup
  of it (`UpdateKept`); and that containers that are gone are somebody's to bring
  up, or were removed by a request that took the package for a new one
  (`GoneUndone`).

`AutoUpdatesProofs` proves all safety properties of the `AutoUpdates` run for any
packages, versions and delays with `MinDelay <= MaxDelay`:

- `DelayIsEnforced` and `PendingInvariant` through `SlotInv`: what a slot still has to
  wait makes up for what its version's age, and the time its name has been
  enabled, are short of `MinDelay`.  A tick moves one unit from one side to the
  other, whoever clears the setting clears the slot, and an empty wait therefore
  means a full age.  `TaskInv` (the version a round decides on is published) is
  needed for the step that records it.
- `RemovedIsNotAuthorized` through `RemovedInv`: a package that is gone, still to be
  done in the round, and whose event has come, has no slot.
- `CompletedIsReached`: what is installed for a package is what was authorized, which
  does not hold for the core (`TaskInv`), and a package that the round has found
  nothing to install of is at the authorized version or a newer one as long as it is
  not crossed.

`CoreUpdateProofs`, for any packages of the core, any number of updates, restarts and
reboots:

- `TypeCorrect`, no assumption.
- `UpdateCanRollBack` (`PendingCanRollBack`), if updates do not overlap: `BackupInv`
  says who is at work (`Alone`), what the record means (`RecordInv`) and that a
  script of an update has the backups of its update (`ScriptInv`).
- `UpdateAllOrNothing` and `UpdateFallsBack`, if also `postRestartPatch` sees the script
  end: `OutcomeInv` lists the phases of an uninterrupted update (at rest, working,
  undoing, the process down, finishing) with what each has in files, backups and
  containers; a step leads from a phase to itself or the next.
- `UpdateFinishesNew` (`FinishedIsNew`), same assumptions, with plain restarts of the
  dappmanager at any moment: `FinishInv` says where the script is when a package of
  the core already runs the new version (`ReplacedInv`), which process is up
  (`ProcessInv`), and that an exit with 0 of the restart container means all of
  them do (`ExitInv`).
- `UpdateIsAtomic` (`ImplementsAtomicUpdate`), same assumptions, with restarts of the
  dappmanager and of the host and with errors of docker in `postRestartPatch`, up to the
  first of which the steps are those of `AtomicUpdate`: each phase of `OutcomeInv` is on one side of the decision (`Sides`), and an
  open update is of a version the dappmanager does not run yet (`Ahead`), so
  `ScriptStarts` is `Commit`, the two ways back (`ShellFails`, `PostRollsBack`) are `Abort`,
  and an up of a roll back is `Follow`, or `Advance` when the next update has
  written its files meanwhile.

`DappGetProofs`, for any names, any bound on versions, any manifests and any answers:

- `ResolverTypeCorrect`, `ResolvesSoundly` (`ResultSound`) and `KeepsDependants`
  (`DependantsKept`) through `ResolverInv`: which names a call may wait for
  (`CallsOK`), a version in the graph is one of a key (`KeysOK`), each dependant of
  what the request brings in is a key or is still asked for (`DependantsAsked`),
  from `resolve` on the graph is complete and keeps only versions the labels allow
  (`TableOK`), and the result is the first valid case of the walk (`ChosenOK`).
- `ResolvesForTheBest` (`ResultBest`): the index of a case is read as a number in a
  mixed radix whose digits are the positions in the columns (`DigitsAre`, with each
  stride the product of the lengths before it); every choice of digits has an index
  (`IndexExists`), the order of the columns and of the versions in each makes a
  preferred combination the one of the smaller index (`BetterIsEarlier`), and the
  walk returns the first index that is valid.
- `AggregatesConfluently` (`AggregateConfluent`) through `AggregateInv`: everything in
  the graph can be reached from what the stage starts with, a version whose
  dependencies were refused is on its way out (`JoiningOK`), and there is a set of
  versions `tried`, a history (`Explored`): it has what calls have answered, for
  each of its versions what that one leads to unless a call still waits for it, and
  those of its versions that last are in the graph.  With no call left `tried` is
  all that can be reached, whatever the order of the answers, and the graph what of
  it lasts: the definition `Aggregate`.

Induction here is over a counter: a least counterexample in an interval of naturals
(`LeastNat`, `CountingUp`, `CountingDown`), where the property is given as a set.
The products of the strides and the fixed points of the graph are reached that
way, without an induction theorem that takes an operator.

`DaemonProofs` proves `NetworkTypeCorrect` and `TwoRoundsAreEnough` for any containers,
addresses and order of names.  `QuietInv` says of a round that nothing has disturbed
what is known at each of its `await`s (`ItsTurn`): after `find` nobody else is at the
address (`Vacant`), so that the second attempt to connect succeeds at the latest and
neither a failed start nor a recreation of bind can happen; and that the containers
it has passed are at their own addresses (`Home`), since what it frees is the address
of the one it is at.  They need not be on the network (`Joined`): that takes a round
that has nothing to free, which the one after it is (`CalmInv`).  The proof uses no order
of the names, so two rounds are enough however the packages are sorted.

It also proves `NatTypeCorrect` and `NoPortMissed` for any ports.

`StakersProofs` proves `StakersTypeCorrect`, `OneClient` and `OnlySelectedTagged` for any
clients, with the daemon at any moment of a switch, failures and restarts, and no
assumption.  Among the clients that are tagged or joined and no stray (`Held`), only
the selected one is there until a switch is past the previous client, and only the
new one from then on (`HeldInv`); what the daemon is bringing up is stray or no switch
is past it (`OnTimeInv`); the two never up the same client at once (`LockInv`, from the
locks of compose files); a client that is not installed is on no network
(`AbsentInv`).

`HttpsPortalProofs` proves `PortalTypeCorrect` for any calls, and
`MappedReachable` for one caller: `ReachInv` adds what a call knows of the mapping it
is at (`Underway`), and that a service with a mapping and no container is a
`leftover` (`LeftBehind`), without which an install would bring in a mapped service
that is not in its compose file.

Only model-checked: all liveness (`EventuallyUnflagged`, `EventuallyUpdated`,
`RecordSettles`, `UpdateRevives`, `ResolutionEnds`, `PortsOpened`, `SelectedJoins`,
`NetworkSettles`), which TLAPS does not prove, and `RunningRunsAgain`.  `NodeTypeOK` and
`CoreStakersTypeOK` are conjunctions of the type invariants of their parts, each of
which has its theorem (`ResolverTypeCorrect`, `NatTypeCorrect`, `PortalTypeCorrect`;
`CoreUpdateProofs`' `TypeCorrect`, `StakersTypeCorrect`) over the specification of its part.

## 6. Not modelled

`PROJECT.json` gives the reason for each part.  Left of the plan: the threshold
daemons, the compose edits and aliases of docker network reconciliation, the resolver
`basic.ts`, MEV boost and the signer (one package each, on or off), the mapping of
the dappmanager itself and the repair of the portal's own network.  Out of reach of
what a model would say: pure conversions (compose editor, schemas); reads of external
services (toolkit, chains, dyndns); shell scripts of the host; the front end, which
is most of the repository's lines and keeps no state of the node.

------------------------------ MODULE DappGet ------------------------------
(***************************************************************************)
(* dappGet, the dependency resolver of @dappnode/installer.                *)
(*                                                                         *)
(* It first aggregates a graph of the versions that may be of interest:    *)
(* the requested package and its dependencies, fetched concurrently, then  *)
(* the installed packages that depend on them.  It then labels the graph,  *)
(* orders the packages and their versions by priority, and takes the first *)
(* combination whose dependencies are satisfied.                           *)
(*                                                                         *)
(* A world is what a resolution finds: the manifests, the registry and     *)
(* what is installed.  It does not change while the resolution runs.       *)
(***************************************************************************)
EXTENDS Integers, FiniteSets, Sequences, Functions

CONSTANTS
  Name,     \* packages
  Request,  \* the package that is requested
  MaxVer,   \* versions 1..MaxVer of every package are published
  Worlds    \* the worlds to resolve in

Ver  == 1..MaxVer
Node == Name \X Ver

(***************************************************************************)
(* A range is a set of versions and the way it is looked up: "latest" is   *)
(* "*", of which only the last published version is a candidate; "exact"   *)
(* is taken as it is; the versions of a "range" are asked to the registry. *)
(***************************************************************************)
Ranges == [kind : {"latest", "exact", "range"}, of : SUBSET Ver]

ASSUME ResolverAssumption ==
  /\ IsFiniteSet(Name) /\ Request \in Name /\ MaxVer \in Nat \ {0}
  /\ \A w \in Worlds :
       /\ w.want \in Ranges
       /\ DOMAIN w.dep = Node
       /\ \A x \in Node : DOMAIN w.dep[x] \subseteq Name
                          /\ \A d \in DOMAIN w.dep[x] : w.dep[x][d] \in Ranges
       /\ w.inst \in [Name -> 0..MaxVer]
       /\ w.local \subseteq Name /\ w.mute \subseteq Name /\ w.lost \subseteq Node

VARIABLES
  world,   \* want: the requested range; dep: the dependencies of a manifest;
           \*   inst: installed versions, 0 if not; local: installed from a
           \*   file (origin); mute: the registry does not answer for it;
           \*   lost: the manifest cannot be fetched
  stage,   \* where dappGet is
  graph,   \* dnps: what is known of a version of a package
  keys,    \* the keys of dnps, in the order of their insertion
  calls,   \* the running calls of aggregateDependencies: the names a
           \*   caller waits the versions of
  caller,  \* of a version that is being fetched: who started it
  broken,  \* subDepFailed
  asked,   \* requestedDnps
  chosen   \* the combination the resolver returns, or the empty function

resolverVars == <<world, stage, graph, keys, calls, caller, broken, asked, chosen>>

Stages == {"idle", "request", "installed", "resolve", "done", "failed"}
\* <<n, 0>> stands for the call of aggregateDependencies by aggregate.
Callers == Name \X (0..MaxVer)

KeySet    == Range(keys)
Running   == {x \in Node : graph[x] \in {"fetch", "join"}}
Present   == {x \in Node : graph[x] # "none"}
NamesOf(S) == {x[1] : x \in S}
InstalledDnps == {n \in Name : world.inst[n] # 0}
NoGraph   == [x \in Node |-> "none"]
NoCalls   == [c \in Callers |-> {}]
Top(n)    == <<n, 0>>

\* The members of a set, in some order
Listing(S) == CHOOSE s \in Bijection(1..Cardinality(S), S) : TRUE
AddKeys(S) == keys' = keys \o Listing(S \ KeySet)


ResolverStart(w) ==
  /\ world = w /\ stage = "request"
  /\ graph = NoGraph /\ keys = <<>>
  /\ calls = [NoCalls EXCEPT ![Top(Request)] = {Request}]
  /\ caller = [x \in Node |-> Top(x[1])] /\ broken = {}
  /\ asked = {} /\ chosen = <<>>

ResolverInit == \E w \in Worlds : ResolverStart(w)

\* A set of numbers in ascending order: the k-th has k - 1 smaller ones.
Ascending(S) ==
  [k \in 1..Cardinality(S) |-> CHOOSE v \in S : Cardinality({u \in S : u < v}) = k - 1]

\* The keys that are in S, in the order of dnps
KeysIn(S) ==
  LET at == Ascending({i \in DOMAIN keys : keys[i] \in S}) IN [k \in DOMAIN at |-> keys[at[k]]]

----------------------------------------------------------------------------
\* Aggregation

From(v)   == [kind |-> "range", of |-> v..MaxVer]
Listed(r) == IF r.kind = "latest" THEN {MaxVer} ELSE r.of
Silent(w, n, r) == n \in w.mute /\ r.kind # "exact"

\* The range of d that a caller asks for.
RangeOf(c, d) ==
  IF c[2] # 0 THEN world.dep[c][d]
  ELSE IF stage = "request" THEN world.want ELSE From(world.inst[d])

(* Mutant: versions that are locked by another call are fetched again. *)
VersionsAnsweredAgain(c, d) ==
  LET fresh == {d} \X Listed(RangeOf(c, d))
  IN /\ stage \in {"request", "installed"} /\ d \in calls[c]
     /\ ~Silent(world, d, RangeOf(c, d))
     /\ calls' = [calls EXCEPT ![c] = @ \ {d}]
     /\ graph' = [x \in Node |-> IF x \in fresh THEN "fetch" ELSE graph[x]]
     /\ caller' = [x \in Node |-> IF x \in fresh THEN c ELSE caller[x]]
     /\ AddKeys(NamesOf(fresh))
     /\ UNCHANGED <<world, stage, broken, asked, chosen>>

(***************************************************************************)
(* The registry answers a call: the versions that are not in the graph are *)
(* locked and their manifests are fetched, the others are skipped.         *)
(***************************************************************************)
VersionsAnswered(c, d) ==
  LET r     == RangeOf(c, d)
      fresh == {x \in {d} \X Listed(r) : graph[x] = "none"}
  IN /\ stage \in {"request", "installed"} /\ d \in calls[c]
     /\ ~Silent(world, d, r)
     /\ calls' = [calls EXCEPT ![c] = @ \ {d}]
     /\ graph' = [x \in Node |-> IF x \in fresh THEN "fetch" ELSE graph[x]]
     /\ caller' = [x \in Node |-> IF x \in fresh THEN c ELSE caller[x]]
     /\ AddKeys(NamesOf(fresh))
     /\ UNCHANGED <<world, stage, broken, asked, chosen>>

(* It does not: a version whose dependency it is will be removed; for the
   request dappGet fails; for an installed package the error is logged. *)
VersionsFailed(c, d) ==
  /\ stage \in {"request", "installed"} /\ d \in calls[c]
  /\ Silent(world, d, RangeOf(c, d))
  /\ calls' = [calls EXCEPT ![c] = @ \ {d}]
  /\ broken' = IF c[2] # 0 THEN broken \cup {c} ELSE broken
  /\ stage' = IF c[2] = 0 /\ stage = "request" THEN "failed" ELSE stage
  /\ UNCHANGED <<world, graph, keys, caller, asked, chosen>>

(* The manifest arrives, and the dependencies are asked for. *)
DependenciesAnswered(x) ==
  /\ graph[x] = "fetch" /\ x \notin world.lost
  /\ graph' = [graph EXCEPT ![x] = "join"]
  /\ calls' = [calls EXCEPT ![x] = DOMAIN world.dep[x]]
  /\ UNCHANGED <<world, stage, keys, caller, broken, asked, chosen>>

(* Mutant: without its manifest the whole package is removed. *)
DependenciesFailedAll(x) ==
  /\ graph[x] = "fetch" /\ x \in world.lost
  /\ graph' = [y \in Node |-> IF y[1] = x[1] THEN "none" ELSE graph[y]]
  /\ calls' = [c \in Callers |-> IF c[2] # 0 /\ c[1] = x[1] THEN {} ELSE calls[c]]
  /\ UNCHANGED <<world, stage, keys, caller, broken, asked, chosen>>

(* It does not: the version is removed, its package stays. *)
DependenciesFailed(x) ==
  /\ graph[x] = "fetch" /\ x \in world.lost
  /\ graph' = [graph EXCEPT ![x] = "none"]
  /\ caller' = [caller EXCEPT ![x] = Top(x[1])]
  /\ UNCHANGED <<world, stage, keys, calls, broken, asked, chosen>>

(* All the calls for the dependencies of a version have returned. *)
Returned(c) == calls[c] = {} /\ \A y \in Running : caller[y] # c

VersionJoined(x) ==
  /\ graph[x] = "join" /\ Returned(x)
  /\ graph' = [graph EXCEPT ![x] = IF x \in broken THEN "none" ELSE "in"]
  /\ broken' = broken \ {x}
  /\ caller' = [caller EXCEPT ![x] = Top(x[1])]
  /\ UNCHANGED <<world, stage, keys, calls, asked, chosen>>

Aggregated == Running = {} /\ \A c \in Callers : calls[c] = {}

----------------------------------------------------------------------------
\* cleanupDnps and getRelevantInstalledDnps

\* A version stays as long as each of its dependencies has a version that stays.
SelfContained(dep, S) == \A x \in S : DOMAIN dep[x] \subseteq NamesOf(S)
Cleaned(dep, S) == UNION {T \in SUBSET S : SelfContained(dep, T)}

\* The installed packages that depend, directly or not, on one of S.
DependsOn(w, n, S) == w.inst[n] # 0 /\ DOMAIN w.dep[<<n, w.inst[n]>>] \cap S # {}
Dependants(w, S) ==
  LET Closed(T) == /\ {n \in S : w.inst[n] # 0} \subseteq T
                   /\ \A n \in Name : DependsOn(w, n, T) => n \in T
  IN {n \in Name : \A T \in SUBSET Name : Closed(T) => n \in T}

(* Mutant: only direct dependants are looked for. *)
RelevantDirect(S) == {n \in Name : DependsOn(world, n, S)} \ S

Relevant(S) == Dependants(world, S) \ S

(***************************************************************************)
(* The request is aggregated: clean up, and add the installed packages     *)
(* that depend on it.  Those without a registry are set to their installed *)
(* version, the others are asked for from their installed version on.      *)
(***************************************************************************)
RequestAggregated ==
  LET kept   == Cleaned(world.dep, Present)
      names  == NamesOf(kept)
      added  == Relevant(names)
      direct == added \cap world.local
  IN /\ stage = "request" /\ Aggregated
     /\ IF kept = {}
        THEN stage' = "failed" /\ UNCHANGED <<graph, keys, calls, asked>>
        ELSE /\ stage' = "installed" /\ asked' = names
             /\ graph' = [x \in Node |->
                  IF x \in kept \cup {<<n, world.inst[n]>> : n \in direct}
                  THEN "in" ELSE "none"]
             /\ keys' = KeysIn(names) \o Listing(direct)
             /\ calls' = [c \in Callers |->
                  IF c \in {Top(n) : n \in added \ direct} THEN {c[1]} ELSE {}]
     /\ UNCHANGED <<world, caller, broken, chosen>>

----------------------------------------------------------------------------
\* Labels and resolution

(* Mutant: installed packages may be downgraded. *)
AllowedAny(w, n, v) == IF n = Request THEN v \in w.want.of ELSE TRUE

\* The versions that may be chosen: in the requested range, or no downgrade.
Allowed(w, n, v) == IF n = Request THEN v \in w.want.of ELSE v >= w.inst[n]

(* The installed packages are aggregated: versions out of range and
   downgrades go, and no package may be left without a version. *)
InstalledAggregated ==
  LET left == {x \in Present : Allowed(world, x[1], x[2])}
  IN /\ stage = "installed" /\ Aggregated
     /\ graph' = [x \in Node |-> IF x \in left THEN "in" ELSE "none"]
     /\ stage' = IF NamesOf(left) = KeySet THEN "resolve" ELSE "failed"
     /\ UNCHANGED <<world, keys, calls, caller, broken, asked, chosen>>

VersionsOf(n) == {v \in Ver : <<n, v>> \in Present}

(* prioritizeVersions; 0 is a package that is not installed. *)
PrioritizedVersions(n) ==
  LET oldest == Ascending(VersionsOf(n))
      newest == [k \in DOMAIN oldest |-> oldest[Len(oldest) + 1 - k]]
  IN IF n = Request THEN newest
     ELSE IF n \in InstalledDnps THEN oldest
     ELSE <<0>> \o newest

(* Mutant: new packages move last. *)
PrioritizedDnpsSwapped ==
  KeysIn(InstalledDnps \ {Request}) \o KeysIn(Name \ (InstalledDnps \cup {Request}))
    \o KeysIn({Request})

(* prioritizeDnps: the last of the table is the last to move. *)
PrioritizedDnps ==
  KeysIn(Name \ (InstalledDnps \cup {Request})) \o KeysIn(InstalledDnps \ {Request})
    \o KeysIn({Request})

\* Products of the numbers of versions: m[k] before the k-th package.
Strides ==
  LET table == PrioritizedDnps
      m[k \in 1..Len(table) + 1] ==
        IF k = 1 THEN 1 ELSE m[k - 1] * Len(PrioritizedVersions(table[k - 1]))
  IN m

TotalCases == Strides[Len(PrioritizedDnps) + 1]

(* getPermutation: the i-th combination. *)
Permutation(i) ==
  LET table == PrioritizedDnps
      m     == Strides
  IN [n \in KeySet |->
       LET vs == PrioritizedVersions(n)
           k  == CHOOSE j \in DOMAIN table : table[j] = n
       IN vs[((i \div m[k]) % Len(vs)) + 1]]

(* verifyState *)
ValidState(s) ==
  \A n \in DOMAIN s : s[n] # 0 =>
    \A d \in DOMAIN world.dep[<<n, s[n]>>] :
      d \in DOMAIN s /\ s[d] \in world.dep[<<n, s[n]>>][d].of

(* The first valid combination is returned. *)
Resolved ==
  /\ stage = "resolve"
  /\ \E i \in 0..TotalCases - 1 :
       /\ ValidState(Permutation(i))
       /\ \A j \in 0..i - 1 : ~ValidState(Permutation(j))
       /\ chosen' = Permutation(i)
  /\ stage' = "done"
  /\ UNCHANGED <<world, graph, keys, calls, caller, broken, asked>>

(* No combination is valid, or none of those that were tried in ten seconds. *)
NotResolved ==
  /\ stage = "resolve" /\ ~ValidState(Permutation(0))
  /\ stage' = "failed"
  /\ UNCHANGED <<world, graph, keys, calls, caller, broken, asked, chosen>>

AggregateStep ==
  \/ \E c \in Callers : \E d \in calls[c] :
       VersionsAnswered(c, d) \/ VersionsFailed(c, d)
  \/ \E x \in Running :
       DependenciesAnswered(x) \/ DependenciesFailed(x) \/ VersionJoined(x)
  \/ RequestAggregated \/ InstalledAggregated

ResolverNext == AggregateStep \/ Resolved \/ NotResolved

ResolverSpec == ResolverInit /\ [][ResolverNext]_resolverVars

----------------------------------------------------------------------------
\* Properties

ResolverTypeOK ==
  /\ stage \in Stages
  /\ graph \in [Node -> {"none", "fetch", "join", "in"}]
  /\ keys \in Seq(Name) /\ IsInjective(keys)
  /\ calls \in [Callers -> SUBSET Name]
  /\ caller \in [Node -> Callers] /\ broken \subseteq Node
  /\ asked \subseteq Name
  /\ chosen = <<>> \/ chosen \in [KeySet -> 0..MaxVer]

\* What the aggregation should come to: the versions that can be reached from
\* the calls made at first, through versions with a manifest that were not there.
Reachable(w, start, base) ==
  LET Closed(T) ==
        /\ start \subseteq T
        /\ \A x \in T \ (w.lost \cup base) : \A d \in DOMAIN w.dep[x] :
             ~Silent(w, d, w.dep[x][d]) => {d} \X Listed(w.dep[x][d]) \subseteq T
  IN {x \in Node : \A T \in SUBSET Node : Closed(T) => x \in T}

\* Of these, the ones that have a manifest and dependencies with versions.
Aggregate(w, start, base) ==
  base \cup {x \in Reachable(w, start, base) \ w.lost :
               \A d \in DOMAIN w.dep[x] : ~Silent(w, d, w.dep[x][d])}

RequestGraph(w) ==
  Aggregate(w, {x \in {Request} \X Listed(w.want) : ~Silent(w, Request, w.want)}, {})

InstalledGraph(w) ==
  LET kept   == Cleaned(w.dep, RequestGraph(w))
      names  == NamesOf(kept)
      added  == Dependants(w, names) \ names
      direct == {<<n, w.inst[n]>> : n \in added \cap w.local}
      start  == UNION {{n} \X (w.inst[n]..MaxVer) : n \in added \ (w.local \cup w.mute)}
  IN Aggregate(w, start, kept \cup direct)

(* Versions are fetched concurrently, a version that another call locked is
   skipped, and one that fails may be fetched again: whatever the order of the
   answers, the graph is the one the manifests and the registry define. *)
AggregateConfluent ==
  Aggregated =>
    /\ stage = "request" => Present = RequestGraph(world)
    /\ stage = "installed" => Present = InstalledGraph(world)

\* The node once the packages that shouldUpdate keeps in the result are there.
After(n) ==
  IF n \in DOMAIN chosen /\ chosen[n] > world.inst[n] THEN chosen[n] ELSE world.inst[n]

\* dappGet reports a requested downgrade as already updated.
RequestIn    == Request \in DOMAIN chosen
RequestMoves == RequestIn => chosen[Request] >= world.inst[Request]

Satisfied(n) ==
  After(n) # 0 => LET dep == world.dep[<<n, After(n)>>]
                  IN \A d \in DOMAIN dep : After(d) \in dep[d].of

(* A resolution brings the request to a version of its range, downgrades no
   other package, and every package of the result finds its dependencies. *)
ResultSound ==
  stage = "done" =>
    /\ RequestIn => chosen[Request] \in world.want.of
    /\ \A n \in DOMAIN chosen \ {Request} : n \in InstalledDnps => chosen[n] >= world.inst[n]
    /\ RequestMoves => \A n \in DOMAIN chosen : Satisfied(n)

(* An installed package that depends, directly or not, on a package that the
   request brings in still finds its dependencies after the installation, as
   long as the registry answers for it or is not asked. *)
DependantsKept ==
  stage = "done" /\ RequestMoves =>
    \A n \in Dependants(world, asked) \ (world.mute \ world.local) : Satisfied(n)

\* s is preferred to t: the request is newer; or the installed packages change
\* less; or fewer new packages come in, and newer ones.
Preferred(s, t) ==
  LET inst == {n \in KeySet : n # Request /\ n \in InstalledDnps}
      new  == {n \in KeySet : n # Request /\ n \notin InstalledDnps}
      req  == KeySet \cap {Request}
      Rank(v) == IF v = 0 THEN 0 ELSE MaxVer + 1 - v
  IN \/ \E n \in req : s[n] > t[n]
     \/ /\ \A n \in req : s[n] = t[n]
        /\ \A n \in inst : s[n] <= t[n]
        /\ \E n \in inst : s[n] < t[n]
     \/ /\ \A n \in inst \cup req : s[n] = t[n]
        /\ \A n \in new : Rank(s[n]) <= Rank(t[n])
        /\ \E n \in new : Rank(s[n]) < Rank(t[n])

(* What the error of aggregate says: a request that cannot be resolved fails. *)
RequestResolved == stage = "done" => RequestIn

(* No valid combination of the graph is preferred to the one that is returned:
   the indices of the cases walk the combinations by priority. *)
ResultBest ==
  stage = "done" =>
    ~\E s \in [KeySet -> 0..MaxVer] :
        /\ \A n \in KeySet :
             s[n] \in VersionsOf(n) \cup (IF n = Request \/ n \in InstalledDnps THEN {} ELSE {0})
        /\ ValidState(s) /\ Preferred(s, chosen)

(* A resolution ends, also when packages depend on each other and when versions
   that could not be fetched are asked for again. *)
ResolutionEnds == stage = "request" ~> stage \in {"done", "failed"}
=============================================================================

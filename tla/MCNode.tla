------------------------------- MODULE MCNode -------------------------------
(***************************************************************************)
(* One run for three components that share no state: the resolver, the NAT *)
(* renewal and the https portal.  part says which of them the behaviour is *)
(* about; the other two rest in one state.  The states of the run are the  *)
(* sum of the states of the three, not their product.                      *)
(***************************************************************************)
EXTENDS DappGet, NatRenewal, HttpsPortal, TLC

VARIABLE part

Parts    == {"resolver", "nat", "portal"}
nodeVars == <<part, resolverVars, natVars, portalVars>>

----------------------------------------------------------------------------
\* The worlds of the resolver

Span(a, b) == [kind |-> "range", of |-> a..b]
Exact(v)   == [kind |-> "exact", of |-> {v}]
Newest     == [kind |-> "latest", of |-> Ver]

\* Chains, a cycle and exact versions that exclude each other.
MCDeps ==
  {<<"app", 1>> :> ("dep" :> Span(1, 2)) @@ <<"app", 2>> :> a2 @@
   <<"dep", 1>> :> <<>> @@ <<"dep", 2>> :> d2 @@
   <<"aux", 1>> :> x1 @@ <<"aux", 2>> :> ("dep" :> Exact(2)) :
     a2 \in {"dep" :> Exact(2), "dep" :> Span(1, 2) @@ "aux" :> Span(1, 2)},
     d2 \in {<<>>, "aux" :> Exact(1), "app" :> Span(1, 2)},
     x1 \in {<<>>, "dep" :> Exact(1)}}

\* aux depends on dep, and dep on app.
Dependents ==
  <<"app", 1>> :> <<>> @@ <<"app", 2>> :> <<>> @@
  <<"dep", 1>> :> ("app" :> Exact(1)) @@ <<"dep", 2>> :> ("app" :> Exact(2)) @@
  <<"aux", 1>> :> ("dep" :> Exact(1)) @@ <<"aux", 2>> :> ("dep" :> Exact(2))

MCInst == {"app" :> a @@ "dep" :> d @@ "aux" :> x : a \in 0..1, d \in 0..2, x \in 0..2}

\* Silent registries, and manifests that cannot be fetched.
MCFaults ==
  {<<{}, {}>>, <<{"app"}, {}>>, <<{"dep"}, {}>>, <<{"aux"}, {}>>, <<{}, {<<"dep", 2>>}>>}

\* What is installed finds its dependencies.
Settled(w) ==
  \A n \in Name : w.inst[n] # 0 =>
    LET dep == w.dep[<<n, w.inst[n]>>] IN \A d \in DOMAIN dep : w.inst[d] \in dep[d].of

\* A bound on the number of worlds: faults with a request for a range, and only if
\* <<"aux", 1>> has no dependency, as in a request for the newest version; a version
\* without a manifest has no dependencies that matter; if the newest version has two
\* dependencies at most one of them is installed, and for a range nothing is.
Bounded(w) ==
  /\ w.local # {} => w.inst["aux"] # 0 /\ w.mute \cup w.lost = {}
  /\ w.want.kind = "latest" \/ w.inst["dep"] = 2 => w.mute \cup w.lost = {} /\ w.local = {}
  /\ w.want.kind = "latest" \/ w.mute \cup w.lost # {} => w.dep[<<"aux", 1>>] = <<>>
  /\ \A x \in w.lost : w.dep[x] = <<>>
  /\ "aux" \in DOMAIN w.dep[<<"app", 2>>] =>
       /\ w.inst["app"] = 0 /\ 0 \in {w.inst["dep"], w.inst["aux"]}
       /\ w.want.kind # "latest" =>
            w.mute \cup w.lost # {} /\ w.inst["dep"] = 0 /\ w.inst["aux"] = 0

MCWorlds ==
  {w \in {[want |-> r, dep |-> d, inst |-> i, local |-> l, mute |-> f[1], lost |-> f[2]] :
            r \in {Span(1, 2), Newest}, d \in MCDeps \cup {Dependents}, i \in MCInst,
            l \in {{}, {"aux"}}, f \in MCFaults} : Settled(w) /\ Bounded(w)}

----------------------------------------------------------------------------
\* The services of the portal

MCPackageOf == [s \in Service |-> "pkg"]
MCExposable ==
  "pkg" :> {[sub |-> "one", svc |-> "web"], [sub |-> "two", svc |-> "api"]}

----------------------------------------------------------------------------
\* The parts

ResolverRests ==
  /\ world = CHOOSE w \in MCWorlds : TRUE
  /\ stage = "idle" /\ graph = NoGraph /\ keys = <<>> /\ calls = NoCalls
  /\ caller = [x \in Node |-> Top(x[1])] /\ broken = {} /\ asked = {} /\ chosen = <<>>

NatRests     == NatInit /\ published = {} /\ ~upnp /\ disabled
PortalRests  == PortalInit /\ ~serving

NodeInit ==
  /\ part \in Parts
  /\ IF part = "resolver" THEN ResolverInit ELSE ResolverRests
  /\ IF part = "nat"      THEN NatInit      ELSE NatRests
  /\ IF part = "portal"   THEN PortalInit   ELSE PortalRests

NodeNext ==
  \/ /\ part = "resolver" /\ ResolverNext
     /\ UNCHANGED <<part, natVars, portalVars>>
  \/ /\ part = "nat" /\ NatNext
     /\ UNCHANGED <<part, resolverVars, portalVars>>
  \/ /\ part = "portal" /\ PortalNext
     /\ UNCHANGED <<part, resolverVars, natVars>>

\* Steps of the parts that are scheduled.
ResolverDoes(A) == part = "resolver" /\ A
NatDoes(A)      == part = "nat" /\ A

(* The fairness of the parts, in the behaviours that are about them. *)
NodeFairness ==
  /\ WF_resolverVars(ResolverDoes(ResolverNext))
  /\ WF_natVars(NatDoes(Interval)) /\ WF_natVars(NatDoes(RenewalStep))
  /\ SF_natVars(NatDoes(ListsMappings)) /\ SF_natVars(NatDoes(ReadsPorts))
  /\ \A p \in Port : SF_natVars(NatDoes(port = p /\ OpensPort))

NodeSpec == NodeInit /\ [][NodeNext]_nodeVars /\ NodeFairness

(* The state of each of the three components is well formed. *)
NodeTypeOK == ResolverTypeOK /\ NatTypeOK /\ PortalTypeOK
=============================================================================

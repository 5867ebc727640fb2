------------------------- MODULE HttpsPortalProofs -------------------------
(***************************************************************************)
(* Theorems about HttpsPortal, for any packages, services, subdomains and  *)
(* default exposures: its state is well formed, and with one call at a     *)
(* time what is mapped is reachable.                                       *)
(***************************************************************************)
EXTENDS HttpsPortal, TLAPS

\* Calls that have an item, and calls of an install, after their parameters.
CallShape(c) ==
  /\ c.at \in {"connect", "list", "post", "delete", "left", "leave"} => c.item \in Mapping
  /\ c.op \in {"public", "expose", "rollback", "uninstall"} \/ c.at = "undo"
       => c.pkg \in Package
  /\ c.op = "none" => c.at = "next" /\ c.todo = {}

ShapeInv == PortalTypeOK /\ \A k \in Caller : CallShape(call[k])

----------------------------------------------------------------------------
\* Type correctness

LEMMA NoCallShaped == NoCall \in Calls /\ CallShape(NoCall)
  BY DEF NoCall, Calls, Ops, Awaits, Adding, Deleting, CallShape

LEMMA EndedShaped ==
  ASSUME NEW c \in Calls, CallShape(c), c.op # "none"
  PROVE  Ended(c) \in Calls /\ CallShape(Ended(c)) /\ Ended(c).at = "next"
  BY DEF Ended, Calls, Ops, Awaits, Adding, Deleting, CallShape

LEMMA ThrownShaped ==
  ASSUME NEW c \in Calls, CallShape(c), c.op # "none"
  PROVE  Thrown(c) \in Calls /\ CallShape(Thrown(c)) /\ Thrown(c).at \in {"next", "undo"}
<1>1. CASE c.op \in {"uninstall", "rollback"}
  BY <1>1 DEF Thrown, Calls, Ops, Awaits, Adding, Deleting, CallShape
<1>2. CASE c.op = "expose"
  BY <1>2 DEF Thrown, Calls, Ops, Awaits, Adding, Deleting, CallShape
<1>3. CASE c.op = "public"
  BY <1>3 DEF Thrown, Calls, Ops, Awaits, Adding, Deleting, CallShape
<1>4. CASE c.op \notin {"uninstall", "rollback", "expose", "public"}
  BY <1>4, NoCallShaped DEF Thrown, NoCall
<1> QED BY <1>1, <1>2, <1>3, <1>4

\* A step of a call that becomes c and does not disturb the types.
LEMMA BecomesShaped ==
  ASSUME ShapeInv, NEW k \in Caller, NEW c \in Calls, CallShape(c), Becomes(k, c)
  PROVE  call' \in [Caller -> Calls] /\ \A j \in Caller : CallShape(call'[j])
  BY DEF ShapeInv, PortalTypeOK, Becomes

LEMMA NowShaped ==
  ASSUME NEW c \in Calls, CallShape(c), NEW at \in Awaits,
         at \in {"connect", "list", "post", "delete", "left", "leave"} => c.item \in Mapping,
         at = "undo" => c.pkg \in Package, c.op = "none" => at = "next"
  PROVE  [c EXCEPT !.at = at] \in Calls /\ CallShape([c EXCEPT !.at = at])
  BY DEF Calls, CallShape

LEMMA ShapeInit == PortalInit => ShapeInv
  BY PortalAssumption, NoCallShaped DEF PortalInit, ShapeInv, PortalTypeOK

LEMMA ItemShaped ==
  ASSUME ShapeInv, NEW k \in Caller, call[k].op # "none",
         End(k) \/ Throw(k)
  PROVE  call' \in [Caller -> Calls] /\ \A j \in Caller : CallShape(call'[j])
<1>1. call[k] \in Calls /\ CallShape(call[k])
  BY DEF ShapeInv, PortalTypeOK
<1> QED BY <1>1, EndedShaped, ThrownShaped, BecomesShaped DEF End, Throw

LEMMA AwaitShaped ==
  ASSUME ShapeInv, NEW k \in Caller, NEW at \in Awaits, call[k].op # "none", Now(k, at),
         at \in {"connect", "list", "post", "delete", "left", "leave"}
           => call[k].item \in Mapping,
         at = "undo" => call[k].pkg \in Package
  PROVE  call' \in [Caller -> Calls] /\ \A j \in Caller : CallShape(call'[j])
<1>1. call[k] \in Calls /\ CallShape(call[k])
  BY DEF ShapeInv, PortalTypeOK
<1> QED BY <1>1, NowShaped, BecomesShaped DEF Now

LEMMA AtWork ==
  ASSUME ShapeInv, NEW k \in Caller, call[k].at # "next"
  PROVE  call[k].op # "none"
  BY DEF ShapeInv, CallShape

LEMMA ConnectShaped == ASSUME ShapeInv, NEW k \in Caller, Connect(k) PROVE ShapeInv'
<1>1. call[k].item \in Mapping /\ call[k].op # "none" /\ "list" \in Awaits
  BY AtWork DEF Connect, ShapeInv, CallShape, Awaits
<1>2. call' \in [Caller -> Calls] /\ \A j \in Caller : CallShape(call'[j])
  BY <1>1, ItemShaped, AwaitShaped DEF Connect
<1> QED BY <1>1, <1>2 DEF Connect, ShapeInv, PortalTypeOK, Mapping

LEMMA ListShaped == ASSUME ShapeInv, NEW k \in Caller, ListEntries(k) PROVE ShapeInv'
<1>1. call[k].item \in Mapping /\ call[k].op # "none" /\ "post" \in Awaits
  BY AtWork DEF ListEntries, ShapeInv, CallShape, Awaits
<1>2. call' \in [Caller -> Calls] /\ \A j \in Caller : CallShape(call'[j])
  BY <1>1, ItemShaped, AwaitShaped DEF ListEntries, Keep
<1> QED BY <1>1, <1>2 DEF ListEntries, Keep, ShapeInv, PortalTypeOK, Mapping

LEMMA PostShaped == ASSUME ShapeInv, NEW k \in Caller, PostEntry(k) PROVE ShapeInv'
<1>1. call[k].item \in Mapping /\ call[k].op # "none" /\ "next" \in Awaits
  BY AtWork DEF PostEntry, ShapeInv, CallShape, Awaits
<1>2. call' \in [Caller -> Calls] /\ \A j \in Caller : CallShape(call'[j])
  <2>1. CASE End(k) \/ Throw(k)
    BY <1>1, <2>1, ItemShaped
  <2>2. CASE Now(k, "next")
    BY <1>1, <2>2, AwaitShaped
  <2> QED BY <2>1, <2>2 DEF PostEntry, Keep, Now, Throw
<1> QED BY <1>1, <1>2 DEF PostEntry, Keep, ShapeInv, PortalTypeOK, Mapping

LEMMA PostLostShaped == ASSUME ShapeInv, NEW k \in Caller, PostLost(k) PROVE ShapeInv'
<1>1. call[k].item \in Mapping /\ call[k].op # "none"
  BY AtWork DEF PostLost, ShapeInv, CallShape
<1>2. call' \in [Caller -> Calls] /\ \A j \in Caller : CallShape(call'[j])
  BY <1>1, ItemShaped DEF PostLost
<1> QED BY <1>1, <1>2 DEF PostLost, ShapeInv, PortalTypeOK, Mapping, dockerState

LEMMA DeleteShaped == ASSUME ShapeInv, NEW k \in Caller, DeleteEntry(k) PROVE ShapeInv'
<1>1. call[k].item \in Mapping /\ call[k].op # "none" /\ "left" \in Awaits
  BY AtWork DEF DeleteEntry, ShapeInv, CallShape, Awaits
<1>2. call' \in [Caller -> Calls] /\ \A j \in Caller : CallShape(call'[j])
  BY <1>1, AwaitShaped DEF DeleteEntry
<1> QED BY <1>1, <1>2 DEF DeleteEntry, ShapeInv, PortalTypeOK, Mapping, dockerState

LEMMA LeftShaped == ASSUME ShapeInv, NEW k \in Caller, StillMapped(k) PROVE ShapeInv'
<1>1. call[k].item \in Mapping /\ call[k].op # "none" /\ "leave" \in Awaits
  BY AtWork DEF StillMapped, ShapeInv, CallShape, Awaits
<1>2. call' \in [Caller -> Calls] /\ \A j \in Caller : CallShape(call'[j])
  BY <1>1, ItemShaped, AwaitShaped DEF StillMapped, Forget
<1> QED BY <1>1, <1>2 DEF StillMapped, Forget, ShapeInv, PortalTypeOK, Mapping

LEMMA LeaveShaped == ASSUME ShapeInv, NEW k \in Caller, Leave(k) PROVE ShapeInv'
<1>1. call[k].item \in Mapping /\ call[k].op # "none"
  BY AtWork DEF Leave, ShapeInv, CallShape
<1>2. call' \in [Caller -> Calls] /\ \A j \in Caller : CallShape(call'[j])
  BY <1>1, ItemShaped DEF Leave, Forget
<1> QED BY <1>1, <1>2 DEF Leave, Forget, ShapeInv, PortalTypeOK, Mapping

LEMMA BeginShaped ==
  ASSUME ShapeInv, NEW k \in Caller, NEW m \in Mapping, BeginItem(k, m) PROVE ShapeInv'
<1> DEFINE c == [call[k] EXCEPT !.todo = @ \ {m}, !.item = m, !.known = m.svc \in onNet]
<1>1. call[k] \in Calls /\ CallShape(call[k])
  BY DEF ShapeInv, PortalTypeOK
<1>2. c \in Calls /\ c.item = m /\ c.op = call[k].op /\ c.at = "next" /\ c.pkg = call[k].pkg
  <2>1. c \in Calls
    <3>1. call[k].todo \ {m} \subseteq Mapping /\ (m.svc \in onNet) \in BOOLEAN
      BY <1>1 DEF Calls
    <3> HIDE DEF c
    <3> QED BY <1>1, <3>1 DEF Calls, c
  <2>2. c.item = m /\ c.op = call[k].op /\ c.at = call[k].at /\ c.pkg = call[k].pkg
    BY <1>1 DEF Calls
  <2>3. call[k].at = "next"
    BY DEF BeginItem
  <2> QED BY <2>1, <2>2, <2>3
<1>3. call[k].op # "none"
  BY <1>1 DEF CallShape, BeginItem
<1>4. c.op # "none" /\ CallShape(c)
  BY <1>1, <1>2, <1>3 DEF CallShape
<1>5. call' \in [Caller -> Calls] /\ \A j \in Caller : CallShape(call'[j])
  <2>1. Ended(c) \in Calls /\ CallShape(Ended(c)) /\ Thrown(c) \in Calls /\ CallShape(Thrown(c))
    BY <1>2, <1>4, EndedShaped, ThrownShaped
  <2>2. \A at \in {"delete", "list", "connect"} :
          [c EXCEPT !.at = at] \in Calls /\ CallShape([c EXCEPT !.at = at])
    BY <1>2, <1>4, NowShaped DEF Awaits
  <2>3. \E d \in Calls : CallShape(d) /\ Becomes(k, d)
    BY <2>1, <2>2 DEF BeginItem
  <2> QED BY <2>3, BecomesShaped
<1> QED BY <1>5 DEF BeginItem, ShapeInv, PortalTypeOK, dockerState

LEMMA MappedShaped ==
  ASSUME ShapeInv, NEW k \in Caller, NEW m \in Mapping, ConnectMapped(k, m) PROVE ShapeInv'
<1> DEFINE c == [call[k] EXCEPT !.todo = {n \in @ : n.svc # m.svc}]
<1>1. call[k] \in Calls /\ CallShape(call[k])
  BY DEF ShapeInv, PortalTypeOK
<1>2. c \in Calls
  <2>1. {n \in call[k].todo : n.svc # m.svc} \subseteq Mapping
    BY <1>1 DEF Calls
  <2> HIDE DEF c
  <2> QED BY <1>1, <2>1 DEF Calls, c
<1>3. CallShape(c)
  BY <1>1 DEF CallShape, Calls, ConnectMapped
<1> HIDE DEF c
<1>4. call' \in [Caller -> Calls] /\ \A j \in Caller : CallShape(call'[j])
  <2>1. Becomes(k, c)
    BY DEF ConnectMapped, c
  <2> QED BY <1>2, <1>3, <2>1, BecomesShaped
<1> QED BY <1>4 DEF ConnectMapped, ShapeInv, PortalTypeOK, Mapping

LEMMA GetShaped == ASSUME ShapeInv, NEW k \in Caller, GetMappings(k) PROVE ShapeInv'
<1>1. call[k] \in Calls /\ CallShape(call[k]) /\ call[k].op # "none"
  BY AtWork DEF ShapeInv, PortalTypeOK, GetMappings
<1>2. \A T \in SUBSET Mapping : [call[k] EXCEPT !.at = "next", !.todo = T] \in Calls
  BY <1>1 DEF Calls, Awaits
<1>3. \A T \in SUBSET Mapping : CallShape([call[k] EXCEPT !.at = "next", !.todo = T])
  BY <1>1 DEF Calls, CallShape
<1>4. \E T \in SUBSET Mapping : Becomes(k, [call[k] EXCEPT !.at = "next", !.todo = T])
  BY DEF GetMappings, MappingsOf
<1>5. call' \in [Caller -> Calls] /\ \A j \in Caller : CallShape(call'[j])
  BY <1>2, <1>3, <1>4, BecomesShaped
<1> QED BY <1>5 DEF GetMappings, ShapeInv, PortalTypeOK, dockerState

LEMMA LastShaped == ASSUME ShapeInv, NEW k \in Caller, LastItem(k) PROVE ShapeInv'
<1>1. call[k] \in Calls /\ CallShape(call[k]) /\ call[k].op # "none" /\ call[k].at = "next"
  BY DEF ShapeInv, PortalTypeOK, LastItem, Idle
<1>2. CASE Now(k, "undo") /\ call[k].op \in {"public", "rollback"}
  <2>1. call[k].pkg \in Package
    BY <1>1, <1>2 DEF CallShape
  <2>2. call' \in [Caller -> Calls] /\ \A j \in Caller : CallShape(call'[j])
    BY <1>1, <1>2, <2>1, AwaitShaped DEF Awaits
  <2> QED BY <2>2 DEF LastItem, ShapeInv, PortalTypeOK, dockerState
<1>3. CASE Becomes(k, NoCall)
  <2>1. call' \in [Caller -> Calls] /\ \A j \in Caller : CallShape(call'[j])
    BY <1>3, NoCallShaped, BecomesShaped
  <2> QED BY <2>1 DEF LastItem, ShapeInv, PortalTypeOK, dockerState
<1>4. CASE /\ call[k].op = "public"
           /\ Becomes(k, [call[k] EXCEPT !.op = "expose", !.todo = Exposable[call[k].pkg]])
  <2> DEFINE c == [call[k] EXCEPT !.op = "expose", !.todo = Exposable[call[k].pkg]]
  <2>1. call[k].pkg \in Package /\ Exposable[call[k].pkg] \in SUBSET Mapping
    BY <1>1, <1>4, PortalAssumption DEF CallShape
  <2>2. c \in Calls
    BY <1>1, <2>1 DEF Calls, Ops, Adding
  <2>3. CallShape(c)
    BY <1>1, <2>1 DEF Calls, CallShape
  <2>4. call' \in [Caller -> Calls] /\ \A j \in Caller : CallShape(call'[j])
    BY <1>4, <2>2, <2>3, BecomesShaped
  <2> QED BY <2>4 DEF LastItem, ShapeInv, PortalTypeOK, dockerState
<1>5. CASE Becomes(k, [call[k] EXCEPT !.op = "recreate", !.todo = call[k].other, !.other = {}])
  <2> DEFINE c == [call[k] EXCEPT !.op = "recreate", !.todo = call[k].other, !.other = {}]
  <2>1. c \in Calls
    BY <1>1 DEF Calls, Ops, Deleting
  <2>2. CallShape(c)
    BY <1>1 DEF Calls, CallShape
  <2>3. call' \in [Caller -> Calls] /\ \A j \in Caller : CallShape(call'[j])
    BY <1>5, <2>1, <2>2, BecomesShaped
  <2> QED BY <2>3 DEF LastItem, ShapeInv, PortalTypeOK, dockerState
<1> QED BY <1>2, <1>3, <1>4, <1>5 DEF LastItem

LEMMA FailsShaped == ASSUME ShapeInv, NEW k \in Caller, CallFails(k) PROVE ShapeInv'
<1>1. call[k].op # "none"
  BY DEF CallFails, ShapeInv, CallShape
<1>2. call' \in [Caller -> Calls] /\ \A j \in Caller : CallShape(call'[j])
  BY <1>1, ItemShaped DEF CallFails
<1> QED BY <1>2 DEF CallFails, ShapeInv, PortalTypeOK, dockerState

LEMMA UndoShaped == ASSUME ShapeInv, NEW k \in Caller, UndoInstall(k) PROVE ShapeInv'
<1>1. call[k] \in Calls /\ call[k].backup \subseteq Service
  BY DEF ShapeInv, PortalTypeOK, Calls
<1>2. call' \in [Caller -> Calls] /\ \A j \in Caller : CallShape(call'[j])
  BY NoCallShaped, BecomesShaped DEF UndoInstall
<1> QED BY <1>1, <1>2 DEF UndoInstall, ShapeInv, PortalTypeOK, Containers, Gone, ServicesOf

\* The calls of the user start from NoCall.
LEMMA StartShaped ==
  ASSUME NEW op \in Ops \ {"none"}, NEW at \in {"next", "mappings"}, NEW S \in SUBSET Mapping,
         NEW p \in Package \cup {NoService},
         op \in {"public", "expose", "rollback", "uninstall"} => p \in Package
  PROVE  LET c == [NoCall EXCEPT !.op = op, !.at = at, !.pkg = p, !.todo = S]
         IN c \in Calls /\ CallShape(c)
<1> DEFINE c == [NoCall EXCEPT !.op = op, !.at = at, !.pkg = p, !.todo = S]
<1>1. c \in Calls
  BY DEF NoCall, Calls, Awaits
<1>2. CallShape(c)
  BY DEF NoCall, CallShape
<1> QED BY <1>1, <1>2

LEMMA UserShaped == ASSUME ShapeInv, NEW k \in Caller, UserCall(k) PROVE ShapeInv'
<1> USE DEF Ops, Adding, Deleting
<1>1. ASSUME NEW m \in Mapping, Map(k, m) PROVE ShapeInv'
  <2>1. call' \in [Caller -> Calls] /\ \A j \in Caller : CallShape(call'[j])
    BY <1>1, StartShaped, BecomesShaped DEF Map, Start
  <2> QED BY <1>1, <2>1 DEF Map, ShapeInv, PortalTypeOK, dockerState
<1>2. ASSUME NEW m \in Mapping, Unmap(k, m) PROVE ShapeInv'
  <2>1. call' \in [Caller -> Calls] /\ \A j \in Caller : CallShape(call'[j])
    BY <1>2, StartShaped, BecomesShaped DEF Unmap, Start
  <2> QED BY <1>2, <2>1 DEF Unmap, ShapeInv, PortalTypeOK, dockerState
<1>3. ASSUME NEW p \in Package, RemovePackage(k, p) PROVE ShapeInv'
  <2>1. call' \in [Caller -> Calls] /\ \A j \in Caller : CallShape(call'[j])
    BY <1>3, StartShaped, BecomesShaped DEF RemovePackage, Start
  <2> QED BY <1>3, <2>1 DEF RemovePackage, ShapeInv, PortalTypeOK, dockerState
<1>4. CASE MappingsRecreate(k)
  <2>1. call' \in [Caller -> Calls] /\ \A j \in Caller : CallShape(call'[j])
    BY <1>4, StartShaped, BecomesShaped DEF MappingsRecreate, Start
  <2> QED BY <1>4, <2>1 DEF MappingsRecreate, ShapeInv, PortalTypeOK, dockerState
<1>5. ASSUME NEW p \in Package, InstallPackage(k, p) PROVE ShapeInv'
  <2> DEFINE S == ServicesOf(p)
             T == IF serving THEN {m \in Mapping : m.svc \in S} ELSE {}
             c == [NoCall EXCEPT !.op = "public", !.pkg = p, !.todo = T,
                     !.update = S \cap present # {}, !.backup = S \cap aliased]
  <2>1. T \subseteq Mapping /\ S \cap aliased \subseteq Service /\ (S \cap present # {}) \in BOOLEAN
    BY DEF ServicesOf
  <2>2. c \in Calls
    <3> HIDE DEF T, S
    <3> QED BY <2>1 DEF NoCall, Calls, Awaits
  <2>3. CallShape(c)
    BY DEF NoCall, CallShape
  <2>4. Becomes(k, c)
    BY <1>5 DEF InstallPackage, StartInstall
  <2>5. call' \in [Caller -> Calls] /\ \A j \in Caller : CallShape(call'[j])
    BY <2>2, <2>3, <2>4, BecomesShaped
  <2> QED BY <1>5, <2>5
        DEF InstallPackage, StartInstall, Containers, ServicesOf, ShapeInv, PortalTypeOK
<1>6. ASSUME NEW p \in Package, RecreateContainers(k, p) PROVE ShapeInv'
  BY <1>6 DEF RecreateContainers, Containers, ServicesOf, ShapeInv, PortalTypeOK
<1>7. CASE SwitchPortal(k)
  BY <1>7 DEF SwitchPortal, ShapeInv, PortalTypeOK, dockerState
<1> QED BY <1>1, <1>2, <1>3, <1>4, <1>5, <1>6, <1>7 DEF UserCall

LEMMA ShapeNext == ShapeInv /\ [PortalNext]_portalVars => ShapeInv'
<1> SUFFICES ASSUME ShapeInv, [PortalNext]_portalVars PROVE ShapeInv'
  OBVIOUS
<1>1. ASSUME NEW k \in Caller, ItemStep(k) PROVE ShapeInv'
  BY <1>1, ConnectShaped, ListShaped, PostShaped, PostLostShaped, DeleteShaped, LeftShaped,
     LeaveShaped, BeginShaped, MappedShaped, GetShaped, LastShaped, FailsShaped, UndoShaped
     DEF ItemStep
<1>2. ASSUME NEW k \in Caller, UserCall(k) PROVE ShapeInv'
  BY <1>2, UserShaped
<1>3. ASSUME NEW p \in Package, PackageRemoved(p) PROVE ShapeInv'
  BY <1>3 DEF PackageRemoved, Gone, ServicesOf, ShapeInv, PortalTypeOK
<1>4. CASE UNCHANGED portalVars
  BY <1>4 DEF portalVars, dockerState, ShapeInv, PortalTypeOK
<1> QED BY <1>1, <1>2, <1>3, <1>4 DEF PortalNext

(* The state of the portal, of the containers and of every call is well formed. *)
THEOREM PortalTypeCorrect == PortalSpec => []PortalTypeOK
<1>1. ShapeInv => PortalTypeOK
  BY DEF ShapeInv
<1> QED BY <1>1, ShapeInit, ShapeNext, PTL DEF PortalSpec

----------------------------------------------------------------------------
\* One call at a time: what is mapped is reachable

OneCall == \A j, k \in Caller : j = k

\* A mapping of a service without a container was left behind; and what the
\* call at work relies on still holds.
LeftBehind == \A s \in Service \ present : Mapped(s) => s \in leftover

Underway(c) ==
  /\ c.at \in {"list", "post"} /\ c.item.svc \in present => c.item.svc \in onNet
  /\ c.at = "leave" => ~Mapped(c.item.svc)
  /\ c.at \in {"delete", "left"} => serving

ReachInv == ShapeInv /\ LeftBehind /\ PortalReachable /\ \A k \in Caller : Underway(call[k])

LEMMA SettledUnderway ==
  ASSUME ReachInv, NEW k \in Caller, call[k].op # "none", End(k) \/ Throw(k), OneCall
  PROVE  \A j \in Caller : call'[j].at \in {"next", "undo"}
<1>1. call[k] \in Calls /\ CallShape(call[k]) /\ call \in [Caller -> Calls]
  BY DEF ReachInv, ShapeInv, PortalTypeOK
<1>2. \A j \in Caller : call'[j] \in {Ended(call[k]), Thrown(call[k])}
  BY <1>1 DEF End, Throw, Becomes, OneCall
<1> QED BY <1>1, <1>2, EndedShaped, ThrownShaped

LEMMA NowAt ==
  ASSUME ReachInv, NEW k \in Caller, NEW at \in Awaits, Now(k, at), OneCall
  PROVE  \A j \in Caller : call'[j].at = at /\ call'[j].item = call[k].item
<1>1. call[k] \in Calls /\ call \in [Caller -> Calls]
  BY DEF ReachInv, ShapeInv, PortalTypeOK
<1>2. \A j \in Caller : call'[j] = [call[k] EXCEPT !.at = at]
  BY <1>1 DEF Now, Becomes, OneCall
<1> QED BY <1>1, <1>2 DEF Calls

LEMMA ItemAt ==
  ASSUME ReachInv, NEW k \in Caller, call[k].at # "next"
  PROVE  /\ call[k].op # "none"
         /\ call[k].at \in {"connect", "list", "post", "delete", "left", "leave"}
              => call[k].item.svc \in Service /\ call[k].item.sub \in Subdomain
<1>1. ShapeInv /\ CallShape(call[k])
  BY DEF ReachInv, ShapeInv
<1> QED BY <1>1, AtWork DEF CallShape, Mapping

LEMMA ConnectReach ==
  ASSUME ReachInv, OneCall, NEW k \in Caller, Connect(k) PROVE ReachInv'
<1>1. ShapeInv' BY ConnectShaped DEF ReachInv
<1>2. call[k].op # "none" /\ "list" \in Awaits
  BY ItemAt DEF Connect, Awaits
<1>3. (LeftBehind /\ PortalReachable)'
  BY DEF Connect, ReachInv, LeftBehind, PortalReachable, Mapped
<1>4. \A j \in Caller : Underway(call[j])'
  <2>1. CASE Throw(k)
    BY <1>2, <2>1, SettledUnderway DEF Underway
  <2>2. CASE Now(k, "list") /\ onNet' = onNet \cup {call[k].item.svc}
    BY <1>2, <2>2, NowAt DEF Underway
  <2> QED BY <2>1, <2>2 DEF Connect
<1> QED BY <1>1, <1>3, <1>4 DEF ReachInv

LEMMA KeepReach ==
  ASSUME ReachInv, OneCall, NEW k \in Caller, Keep(k),
         call[k].at \in {"list", "post"},
         UNCHANGED <<present, onNet>>,
         \A s \in Service \ {call[k].item.svc} : Mapped(s)' => Mapped(s)
  PROVE  (LeftBehind /\ PortalReachable)' /\ \A j \in Caller : Underway(call[j])'
<1>1. call[k].op # "none" /\ call[k].item.svc \in Service
  BY ItemAt
<1>2. call[k].item.svc \in present => call[k].item.svc \in onNet
  BY DEF ReachInv, Underway
<1>3. present \subseteq Service
  BY DEF ReachInv, ShapeInv, PortalTypeOK
<1>4. (LeftBehind /\ PortalReachable)'
  BY <1>1, <1>2, <1>3 DEF Keep, ReachInv, LeftBehind, PortalReachable
<1>5. \A j \in Caller : Underway(call[j])'
  BY <1>1, SettledUnderway DEF Keep, Underway
<1> QED BY <1>4, <1>5

LEMMA ListReach ==
  ASSUME ReachInv, OneCall, NEW k \in Caller, ListEntries(k) PROVE ReachInv'
<1>1. ShapeInv' BY ListShaped DEF ReachInv
<1>2. CASE Keep(k)
  <2>1. \A s \in Service : Mapped(s)' => Mapped(s)
    BY DEF ListEntries, Mapped
  <2>2. (LeftBehind /\ PortalReachable)' /\ \A j \in Caller : Underway(call[j])'
    BY <1>2, <2>1, KeepReach DEF ListEntries
  <2> QED BY <1>1, <2>2 DEF ReachInv
<1>3. CASE Now(k, "post") /\ UNCHANGED <<aliased, leftover>>
  <2>1. \A j \in Caller : Underway(call[j])'
    BY <1>3, NowAt DEF ListEntries, ReachInv, Underway, Awaits
  <2>2. (LeftBehind /\ PortalReachable)'
    BY <1>3 DEF ListEntries, ReachInv, LeftBehind, PortalReachable, Mapped
  <2> QED BY <1>1, <2>1, <2>2 DEF ReachInv
<1> QED BY <1>2, <1>3 DEF ListEntries

LEMMA PostReach ==
  ASSUME ReachInv, OneCall, NEW k \in Caller, PostEntry(k) PROVE ReachInv'
<1>1. ShapeInv' BY PostShaped DEF ReachInv
<1>2. call[k].op # "none" /\ call[k].item.svc \in Service /\ call[k].item.sub \in Subdomain
  BY ItemAt DEF PostEntry
<1>3. CASE entries[call[k].item.sub] = NoService
  <2>1. \A s \in Service \ {call[k].item.svc} : Mapped(s)' => Mapped(s)
    BY <1>2, <1>3 DEF PostEntry, Mapped, ReachInv, ShapeInv, PortalTypeOK
  <2>2. Keep(k) /\ UNCHANGED <<present, onNet>>
    BY <1>3 DEF PostEntry
  <2>3. (LeftBehind /\ PortalReachable)' /\ \A j \in Caller : Underway(call[j])'
    BY <2>1, <2>2, KeepReach DEF PostEntry
  <2> QED BY <1>1, <2>3 DEF ReachInv
<1>4. CASE entries[call[k].item.sub] # NoService
  <2>1. CASE Throw(k)
    BY <1>1, <1>2, <1>4, <2>1, SettledUnderway
       DEF PostEntry, ReachInv, LeftBehind, PortalReachable, Mapped, Underway
  <2>2. CASE Now(k, "next")
    BY <1>1, <1>4, <2>2, NowAt
       DEF PostEntry, ReachInv, LeftBehind, PortalReachable, Mapped, Underway, Awaits
  <2> QED BY <1>4, <2>1, <2>2 DEF PostEntry, Throw, Now
<1> QED BY <1>3, <1>4

LEMMA PostLostReach ==
  ASSUME ReachInv, OneCall, NEW k \in Caller, PostLost(k) PROVE ReachInv'
<1>1. ShapeInv' BY PostLostShaped DEF ReachInv
<1>2. call[k].op # "none" /\ call[k].item.svc \in Service /\ call[k].item.sub \in Subdomain
  BY ItemAt DEF PostLost
<1>3. \A s \in Service \ {call[k].item.svc} : Mapped(s)' => Mapped(s)
  BY <1>2 DEF PostLost, Mapped, ReachInv, ShapeInv, PortalTypeOK
<1>4. (LeftBehind /\ PortalReachable)'
  BY <1>3 DEF PostLost, ReachInv, LeftBehind, PortalReachable, dockerState, ShapeInv, PortalTypeOK
<1>5. \A j \in Caller : Underway(call[j])'
  BY <1>2, SettledUnderway DEF PostLost, Underway
<1> QED BY <1>1, <1>4, <1>5 DEF ReachInv

LEMMA DeleteReach ==
  ASSUME ReachInv, OneCall, NEW k \in Caller, DeleteEntry(k) PROVE ReachInv'
<1>1. ShapeInv' BY DeleteShaped DEF ReachInv
<1>2. \A s \in Service : Mapped(s)' => Mapped(s)
  BY PortalAssumption DEF DeleteEntry, Mapped
<1>3. present \subseteq Service
  BY DEF ReachInv, ShapeInv, PortalTypeOK
<1>4. (LeftBehind /\ PortalReachable)'
  BY <1>2, <1>3 DEF DeleteEntry, ReachInv, LeftBehind, PortalReachable, dockerState
<1>5. \A j \in Caller : Underway(call[j])'
  BY NowAt DEF DeleteEntry, Underway, Awaits, ReachInv
<1> QED BY <1>1, <1>4, <1>5 DEF ReachInv

LEMMA ForgetReach ==
  ASSUME ReachInv, OneCall, NEW k \in Caller, Forget(k), call[k].at \in {"left", "leave"},
         UNCHANGED <<present, entries, serving, leftover>>,
         onNet' \in {onNet, onNet \ {call[k].item.svc}}, ~Mapped(call[k].item.svc)
  PROVE  (LeftBehind /\ PortalReachable)' /\ \A j \in Caller : Underway(call[j])'
<1>1. call[k].op # "none"
  BY ItemAt
<1>2. (LeftBehind /\ PortalReachable)'
  BY DEF Forget, ReachInv, LeftBehind, PortalReachable, Mapped
<1>3. \A j \in Caller : Underway(call[j])'
  BY <1>1, SettledUnderway DEF Forget, Underway
<1> QED BY <1>2, <1>3

LEMMA LeftReach ==
  ASSUME ReachInv, OneCall, NEW k \in Caller, StillMapped(k) PROVE ReachInv'
<1>1. ShapeInv' BY LeftShaped DEF ReachInv
<1>2. call[k].op # "none" /\ serving
  BY ItemAt DEF StillMapped, ReachInv, Underway
<1>3. CASE End(k) /\ UNCHANGED aliased
  BY <1>1, <1>2, <1>3, SettledUnderway
     DEF StillMapped, ReachInv, LeftBehind, PortalReachable, Mapped, Underway
<1>4. CASE Now(k, "leave") /\ UNCHANGED aliased /\ ~Mapped(call[k].item.svc)
  BY <1>1, <1>4, NowAt
     DEF StillMapped, ReachInv, LeftBehind, PortalReachable, Mapped, Underway, Awaits
<1>5. CASE Forget(k) /\ ~Mapped(call[k].item.svc)
  <2>1. (LeftBehind /\ PortalReachable)' /\ \A j \in Caller : Underway(call[j])'
    BY <1>5, ForgetReach DEF StillMapped
  <2> QED BY <1>1, <2>1 DEF ReachInv
<1> QED BY <1>2, <1>3, <1>4, <1>5 DEF StillMapped

LEMMA LeaveReach ==
  ASSUME ReachInv, OneCall, NEW k \in Caller, Leave(k) PROVE ReachInv'
<1>1. ShapeInv' BY LeaveShaped DEF ReachInv
<1>2. call[k].op # "none" /\ ~Mapped(call[k].item.svc)
  BY ItemAt DEF Leave, ReachInv, Underway
<1>3. CASE Throw(k) /\ UNCHANGED <<onNet, aliased>>
  BY <1>1, <1>2, <1>3, SettledUnderway
     DEF Leave, ReachInv, LeftBehind, PortalReachable, Mapped, Underway
<1>4. CASE onNet' = onNet \ {call[k].item.svc} /\ Forget(k)
  <2>1. (LeftBehind /\ PortalReachable)' /\ \A j \in Caller : Underway(call[j])'
    BY <1>2, <1>4, ForgetReach DEF Leave
  <2> QED BY <1>1, <2>1 DEF ReachInv
<1> QED BY <1>3, <1>4 DEF Leave

\* Only the call changes, to an await that relies on nothing.
LEMMA RestReach ==
  ASSUME ReachInv, ShapeInv',
         UNCHANGED <<dockerState, entries, serving, leftover>>,
         \A j \in Caller : Underway(call'[j])
  PROVE  ReachInv'
  BY DEF ReachInv, LeftBehind, PortalReachable, Mapped, Underway, dockerState

LEMMA BeginReach ==
  ASSUME ReachInv, OneCall, NEW k \in Caller, NEW m \in Mapping, BeginItem(k, m)
  PROVE  ReachInv'
<1> DEFINE c == [call[k] EXCEPT !.todo = @ \ {m}, !.item = m, !.known = m.svc \in onNet]
<1>1. call[k] \in Calls /\ CallShape(call[k]) /\ call \in [Caller -> Calls]
  BY DEF ReachInv, ShapeInv, PortalTypeOK
<1>2. c.item = m /\ c.op = call[k].op /\ c.at = "next" /\ c.known = (m.svc \in onNet)
  BY <1>1 DEF Calls, BeginItem
<1>3. Ended(c).at = "next" /\ Thrown(c).at \in {"next", "undo"}
  BY <1>2 DEF Ended, Thrown, Calls, NoCall
<1>4. \A at \in {"delete", "list", "connect"} :
        [c EXCEPT !.at = at].at = at /\ [c EXCEPT !.at = at].item = m
  BY <1>1 DEF Calls
<1>5. \/ call'[k] \in {Ended(c), Thrown(c)}
      \/ serving /\ call'[k] = [c EXCEPT !.at = "delete"]
      \/ call'[k] = [c EXCEPT !.at = "list"] /\ c.known
      \/ call'[k] = [c EXCEPT !.at = "connect"]
  BY <1>1 DEF BeginItem, Becomes
<1>6. \A j \in Caller : Underway(call'[j])
  <2>1. Underway(call'[k])
    <3>1. CASE call'[k] \in {Ended(c), Thrown(c)}
      BY <1>3, <3>1 DEF Underway
    <3>2. CASE serving /\ call'[k] = [c EXCEPT !.at = "delete"]
      BY <1>4, <3>2 DEF Underway
    <3>3. CASE call'[k] = [c EXCEPT !.at = "list"] /\ c.known
      BY <1>2, <1>4, <3>3 DEF Underway
    <3>4. CASE call'[k] = [c EXCEPT !.at = "connect"]
      BY <1>4, <3>4 DEF Underway
    <3> QED BY <1>5, <3>1, <3>2, <3>3, <3>4
  <2> QED BY <2>1 DEF OneCall
<1>7. ShapeInv'
  BY BeginShaped DEF ReachInv
<1> QED BY <1>6, <1>7, RestReach DEF BeginItem

LEMMA MappedReach ==
  ASSUME ReachInv, OneCall, NEW k \in Caller, NEW m \in Mapping, ConnectMapped(k, m)
  PROVE  ReachInv'
<1>1. ShapeInv' BY MappedShaped DEF ReachInv
<1>2. (LeftBehind /\ PortalReachable)'
  BY DEF ConnectMapped, ReachInv, LeftBehind, PortalReachable, Mapped
<1>3. \A j \in Caller : call'[j].at = "next"
  BY DEF ConnectMapped, Becomes, OneCall, ReachInv, ShapeInv, PortalTypeOK, Calls
<1> QED BY <1>1, <1>2, <1>3 DEF ReachInv, Underway

LEMMA GetReach ==
  ASSUME ReachInv, OneCall, NEW k \in Caller, GetMappings(k) PROVE ReachInv'
<1>1. \A j \in Caller : call'[j].at = "next"
  BY DEF GetMappings, Becomes, OneCall, ReachInv, ShapeInv, PortalTypeOK, Calls
<1>2. ShapeInv' BY GetShaped DEF ReachInv
<1> QED BY <1>1, <1>2, RestReach DEF GetMappings, Underway

LEMMA LastReach ==
  ASSUME ReachInv, OneCall, NEW k \in Caller, LastItem(k) PROVE ReachInv'
<1>1. call[k] \in Calls /\ call \in [Caller -> Calls] /\ call[k].at = "next"
  BY DEF ReachInv, ShapeInv, PortalTypeOK, LastItem
<1>2. call'[k].at \in {"next", "undo"}
  <2>1. CASE Now(k, "undo")
    BY <1>1, <2>1 DEF Now, Becomes, Calls
  <2>2. CASE Becomes(k, NoCall)
    BY <1>1, <2>2 DEF Becomes, NoCall
  <2>3. CASE Becomes(k, [call[k] EXCEPT !.op = "expose", !.todo = Exposable[call[k].pkg]])
    BY <1>1, <2>3 DEF Becomes, Calls
  <2>4. CASE Becomes(k, [call[k] EXCEPT !.op = "recreate", !.todo = call[k].other,
                           !.other = {}])
    BY <1>1, <2>4 DEF Becomes, Calls
  <2> QED BY <2>1, <2>2, <2>3, <2>4 DEF LastItem
<1>3. \A j \in Caller : call'[j].at \in {"next", "undo"}
  BY <1>2 DEF OneCall
<1>4. ShapeInv' BY LastShaped DEF ReachInv
<1> QED BY <1>3, <1>4, RestReach DEF LastItem, Underway

LEMMA FailsReach ==
  ASSUME ReachInv, OneCall, NEW k \in Caller, CallFails(k) PROVE ReachInv'
<1>1. call[k].op # "none"
  BY DEF CallFails, ReachInv, ShapeInv, CallShape
<1>2. \A j \in Caller : call'[j].at \in {"next", "undo"}
  BY <1>1, SettledUnderway DEF CallFails
<1>3. ShapeInv' BY FailsShaped DEF ReachInv
<1> QED BY <1>2, <1>3, RestReach DEF CallFails, Underway

LEMMA UndoReach ==
  ASSUME ReachInv, OneCall, NEW k \in Caller, UndoInstall(k) PROVE ReachInv'
<1> DEFINE S == ServicesOf(call[k].pkg)
           old == (aliased \ S) \cup call[k].backup
<1>1. ShapeInv' BY UndoShaped DEF ReachInv
<1>2. \A j \in Caller : call'[j].at = "next"
  BY DEF UndoInstall, Becomes, OneCall, ReachInv, ShapeInv, PortalTypeOK, NoCall
<1>3. present \subseteq Service /\ S \subseteq Service
  BY DEF ReachInv, ShapeInv, PortalTypeOK, ServicesOf
<1>4. \A s \in Service : Mapped(s)' <=> Mapped(s)
  BY DEF UndoInstall, Mapped
<1>5. CASE call[k].update
  <2>1. /\ aliased' = old /\ present' = present \cup S
        /\ onNet' = (onNet \ S) \cup (S \cap old)
        /\ leftover' = leftover \cup {s \in S : Mapped(s) /\ s \notin old}
    BY <1>5 DEF UndoInstall, Containers
  <2>2. (LeftBehind /\ PortalReachable)'
    BY <1>3, <1>4, <2>1 DEF ReachInv, LeftBehind, PortalReachable
  <2> QED BY <1>1, <1>2, <2>2 DEF ReachInv, Underway
<1>6. CASE ~call[k].update
  <2>1. (LeftBehind /\ PortalReachable)'
    BY <1>3, <1>4, <1>6 DEF UndoInstall, Gone, ReachInv, LeftBehind, PortalReachable
  <2> QED BY <1>1, <1>2, <2>1 DEF ReachInv, Underway
<1> QED BY <1>5, <1>6

\* With one call, a call can only start when none is at work.
LEMMA IdleAll ==
  ASSUME ReachInv, OneCall, NEW k \in Caller, Idle(k)
  PROVE  \A j \in Caller : call[j].at = "next"
  BY DEF ReachInv, ShapeInv, CallShape, Idle, OneCall

\* Containers that are created from compose files keep what is mapped reachable.
LEMMA ContainersReach ==
  ASSUME ReachInv, NEW S \in SUBSET Service, Containers(S, aliased),
         UNCHANGED <<aliased, entries, leftover>>
  PROVE  (LeftBehind /\ PortalReachable)'
<1>1. present \subseteq Service
  BY DEF ReachInv, ShapeInv, PortalTypeOK
<1> QED BY <1>1 DEF Containers, ReachInv, LeftBehind, PortalReachable, Mapped

LEMMA UserReach ==
  ASSUME ReachInv, OneCall, NEW k \in Caller, UserCall(k) PROVE ReachInv'
<1>1. ShapeInv' BY UserShaped DEF ReachInv
<1>2. ASSUME NEW op, NEW at \in {"next", "mappings"}, NEW p, NEW T, Start(k, op, at, p, T)
      PROVE  \A j \in Caller : call'[j].at \in {"next", "mappings"}
  BY <1>2 DEF Start, Becomes, OneCall, ReachInv, ShapeInv, PortalTypeOK, NoCall
<1>3. ASSUME NEW m \in Mapping, Map(k, m) \/ Unmap(k, m) PROVE ReachInv'
  BY <1>1, <1>2, <1>3, RestReach DEF Map, Unmap, Underway
<1>4. CASE MappingsRecreate(k)
  BY <1>1, <1>2, <1>4, RestReach DEF MappingsRecreate, Underway
<1>5. ASSUME NEW p \in Package, RemovePackage(k, p) PROVE ReachInv'
  BY <1>1, <1>2, <1>5, RestReach DEF RemovePackage, Underway
<1>6. ASSUME NEW p \in Package, InstallPackage(k, p) PROVE ReachInv'
  <2>1. \A j \in Caller : call'[j].at = "next"
    BY <1>6 DEF InstallPackage, StartInstall, Becomes, OneCall, ReachInv, ShapeInv,
                PortalTypeOK, NoCall
  <2>2. (LeftBehind /\ PortalReachable)'
    BY <1>6, ContainersReach DEF InstallPackage, StartInstall, ServicesOf
  <2> QED BY <1>1, <2>1, <2>2 DEF ReachInv, Underway
<1>7. ASSUME NEW p \in Package, RecreateContainers(k, p) PROVE ReachInv'
  <2>1. \A j \in Caller : call'[j].at = "next"
    BY <1>7, IdleAll DEF RecreateContainers
  <2>2. (LeftBehind /\ PortalReachable)'
    BY <1>7, ContainersReach DEF RecreateContainers, ServicesOf
  <2> QED BY <1>1, <2>1, <2>2 DEF ReachInv, Underway
<1>8. CASE SwitchPortal(k)
  <2>1. \A j \in Caller : call'[j].at = "next"
    BY <1>8, IdleAll DEF SwitchPortal
  <2> QED BY <1>1, <1>8, <2>1
          DEF SwitchPortal, ReachInv, LeftBehind, PortalReachable, Mapped, Underway, dockerState
<1> QED BY <1>3, <1>4, <1>5, <1>6, <1>7, <1>8 DEF UserCall

LEMMA RemovedReach ==
  ASSUME ReachInv, NEW p \in Package, PackageRemoved(p) PROVE ReachInv'
<1>1. ShapeInv'
  BY DEF PackageRemoved, Gone, ServicesOf, ReachInv, ShapeInv, PortalTypeOK
<1>2. (LeftBehind /\ PortalReachable)'
  BY DEF PackageRemoved, Gone, ServicesOf, ReachInv, LeftBehind, PortalReachable, Mapped
<1>3. \A j \in Caller : Underway(call[j])'
  BY DEF PackageRemoved, Gone, ReachInv, Underway, Mapped
<1> QED BY <1>1, <1>2, <1>3 DEF ReachInv

LEMMA ReachInit == PortalInit => ReachInv
  BY ShapeInit, PortalAssumption
     DEF PortalInit, ReachInv, LeftBehind, PortalReachable, Mapped, Underway, NoCall

LEMMA ReachNext == OneCall /\ ReachInv /\ [PortalNext]_portalVars => ReachInv'
<1> SUFFICES ASSUME OneCall, ReachInv, [PortalNext]_portalVars PROVE ReachInv'
  OBVIOUS
<1>1. ASSUME NEW k \in Caller, ItemStep(k) PROVE ReachInv'
  BY <1>1, ConnectReach, ListReach, PostReach, PostLostReach, DeleteReach, LeftReach,
     LeaveReach, BeginReach, MappedReach, GetReach, LastReach, FailsReach, UndoReach
     DEF ItemStep
<1>2. ASSUME NEW k \in Caller, UserCall(k) PROVE ReachInv'
  BY <1>2, UserReach
<1>3. ASSUME NEW p \in Package, PackageRemoved(p) PROVE ReachInv'
  BY <1>3, RemovedReach
<1>4. CASE UNCHANGED portalVars
  BY <1>4, ShapeNext DEF portalVars, dockerState, ReachInv, LeftBehind, PortalReachable,
     Mapped, Underway
<1> QED BY <1>1, <1>2, <1>3, <1>4 DEF PortalNext

(* With one call of the portal at a time, every mapped service with a container
   is on the public network, and in its compose file, unless a failure or a
   removal left its mapping behind. *)
THEOREM MappedReachable == OneCall => (PortalSpec => []PortalReachable)
<1> SUFFICES ASSUME OneCall PROVE PortalSpec => []PortalReachable
  OBVIOUS
<1>1. ReachInv /\ [PortalNext]_portalVars => ReachInv'
  BY ReachNext
<1>2. ReachInv => PortalReachable
  BY DEF ReachInv
<1> QED BY <1>1, <1>2, ReachInit, PTL DEF PortalSpec
=============================================================================

---------------------------- MODULE InstallGuard ----------------------------
(***************************************************************************)
(* What the installing flags promise: a request takes all its packages at  *)
(* once, only if nobody has one of them, and gives all of them back.       *)
(***************************************************************************)
CONSTANTS Req, Dnp

VARIABLE held   \* the packages each request has

Init == held = [r \in Req |-> {}]

\* Taking is all or nothing: two requests that need each other's packages
\* cannot each hold a part and wait.
Take(r) ==
  /\ held[r] = {}
  /\ \E S \in (SUBSET Dnp) \ {{}} :
       /\ \A q \in Req : held[q] \cap S = {}
       /\ held' = [held EXCEPT ![r] = S]

Give(r) ==
  /\ held[r] # {}
  /\ held' = [held EXCEPT ![r] = {}]

\* A restart of the process empties the table.
GiveAll == held' = [r \in Req |-> {}]

Next == GiveAll \/ \E r \in Req : Take(r) \/ Give(r)

Spec == Init /\ [][Next]_held
=============================================================================

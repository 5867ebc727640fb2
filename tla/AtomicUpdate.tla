---------------------------- MODULE AtomicUpdate ----------------------------
(***************************************************************************)
(* What an update of the core promises: it is decided in one step, the one *)
(* that replaces the dappmanager.  Until then any of the other packages    *)
(* may be at the new version; from then on all of them are, and stay.      *)
(***************************************************************************)
EXTENDS Naturals

CONSTANTS Pkg, DM   \* the packages of the core, and the one that decides

VARIABLES
  cont,    \* the version that runs of each package
  target,  \* the version of the last update
  open     \* that update is undecided

vars == <<cont, target, open>>

Init ==
  /\ cont = [p \in Pkg \cup {DM} |-> 0]
  /\ target = 0 /\ open = FALSE

Begin ==
  /\ ~open /\ open' = TRUE
  /\ target' = target + 1
  /\ UNCHANGED cont

\* Any number of packages is replaced at once.
Advance ==
  /\ open
  /\ \E S \in SUBSET Pkg : cont' = [p \in Pkg \cup {DM} |-> IF p \in S THEN target ELSE cont[p]]
  /\ UNCHANGED <<target, open>>

Commit ==
  /\ open /\ \A p \in Pkg : cont[p] = target
  /\ cont' = [cont EXCEPT ![DM] = target]
  /\ open' = FALSE
  /\ UNCHANGED target

Abort ==
  /\ open /\ open' = FALSE
  /\ UNCHANGED <<cont, target>>

\* After the decision a package only goes to the version of the dappmanager.
Follow(p) ==
  /\ ~open
  /\ cont' = [cont EXCEPT ![p] = cont[DM]]
  /\ UNCHANGED <<target, open>>

Next == Begin \/ Advance \/ Commit \/ Abort \/ \E p \in Pkg : Follow(p)

Spec == Init /\ [][Next]_vars
=============================================================================

-------------------------- MODULE MCPackageInstall --------------------------
(***************************************************************************)
(* Instances of PackageInstall for TLC.                                    *)
(***************************************************************************)
EXTENDS PackageInstall

(***************************************************************************)
(* Two instances in one run.  A behaviour is about requests for all        *)
(* packages, whose flags last, or about a packageInstallDev, the calls     *)
(* that touch its package meanwhile and flags that expire; the packages of *)
(* the second are those of PidDnp, and no other is installed.  What a      *)
(* behaviour is not about has ended before it begins.                      *)
(***************************************************************************)
RequestsInit ==
  /\ pc = [r \in Req |-> IF r \in DevReq THEN "rejected" ELSE "idle"]
  /\ op = [o \in Op |-> "done"]

CallsInit ==
  /\ pc = [r \in Req |-> IF r \in DevReq THEN "idle" ELSE "rejected"]
  /\ op = [o \in Op |-> "idle"]
  /\ \A d \in Dnp \ PidDnp : compose[d] = None

ScenesInit == Fresh /\ (RequestsInit \/ CallsInit)

ScenesSpec == ScenesInit /\ [][Next]_vars

\* A bound on the steps: the packages of the second, and the flags of the first.
InScene ==
  /\ \A r \in DevReq : Range(pkgs'[r]) \subseteq PidDnp
  /\ \A o \in Op : opDnp'[o] \in PidDnp \cup {None}
  /\ (\A r \in DevReq : pc[r] = "rejected") => ~FlagExpires
=============================================================================

---------------------------- MODULE MCAutoUpdates ----------------------------
(***************************************************************************)
(* Instances of AutoUpdates for TLC.                                       *)
(***************************************************************************)
EXTENDS AutoUpdates

(* FairSpec without what it says of the core, which in the instance for
   liveness has one version and so nothing to be fair about: what holds with
   less fairness holds with more. *)
PackagesSpec == Spec /\ FairFor(Dnp)
=============================================================================

---------------------------- MODULE MCCoreUpdate ----------------------------
(***************************************************************************)
(* Instances of CoreUpdate for TLC.                                        *)
(***************************************************************************)
EXTENDS CoreUpdate
=============================================================================

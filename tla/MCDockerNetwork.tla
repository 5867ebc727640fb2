--------------------------- MODULE MCDockerNetwork ---------------------------
(***************************************************************************)
(* Instances of DockerNetwork for TLC.                                     *)
(***************************************************************************)
EXTENDS DockerNetwork

\* In the order of the names of their packages.
Names == <<"besu", "bind", "dappmanager">>
ByName == [c \in {"besu", "bind", "dappmanager"} |-> CHOOSE i \in 1..3 : Names[i] = c]
=============================================================================

---------------------------- MODULE MCHostConfig ----------------------------
(* The instance of HostConfig.cfg: every client has a build of its own, and *)
(* is like any other.                                                      *)
EXTENDS HostConfig, TLC

MCBuildOf == [c \in Clients |-> c]
\* A card has two names, its UUID and a number.
MCCardAt == [i \in Indices |-> CHOOSE x \in Cards : TRUE]
AnyClient == Permutations(Clients)
=============================================================================

---- MODULE MCHostQueue ----
(* Small instances of HostQueue for TLC. *)
EXTENDS HostQueue, TLC

MCWants == [j \in Jobs |-> 1]
MainOnly == <<"main">>
RunnerSymmetry == Permutations(Runners)
RunnerAndCardSymmetry == Permutations(Runners) \cup Permutations(Cards)
====

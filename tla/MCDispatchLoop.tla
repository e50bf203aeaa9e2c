---- MODULE MCDispatchLoop ----
(* Four jobs on two cards, one or two wide (the first one wide), each to be *)
(* stopped or not; the last one may be more urgent than the rest.           *)
EXTENDS DispatchLoop
MCJobSpecs ==
  {f \in [Jobs -> [priority: {0, 1}, gpus: {1, 2}, fills: BOOLEAN]] :
     \A j \in Jobs : (f[j].priority = 0 => j = 4) /\ (f[j].gpus = 2 => j # 1)}
====

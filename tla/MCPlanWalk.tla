------------------------------ MODULE MCPlanWalk ------------------------------
(* Every queue of up to three requests on two owned cards and a shared one. *)
EXTENDS PlanWalk, TLC

\* Requests 2, 4 and 6 and candidates 3 and 7: one candidate sorts between the
\* requests, one behind them all.
Requests(j, widths) ==
  [job: {j}, priority: {0}, gpus: widths, borrows: BOOLEAN, fills: BOOLEAN]
MCQueues == {<<a, b, c>> : a \in Requests(2, 1..3), b \in Requests(4, 1..3), c \in Requests(6, 1..2)}
OwnedSymmetry == Permutations(Owned)
MCCandidates == {[job |-> 3, priority |-> 0, started |-> 1], [job |-> 7, priority |-> 0, started |-> 2]}
=============================================================================

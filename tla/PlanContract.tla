----------------------------- MODULE PlanContract -----------------------------
(***************************************************************************)
(* What one pass of plan.plan promises of a host's own cards, stated       *)
(* without the walk that computes it.  HostQueue's dispatcher acts on any  *)
(* set of decisions that keeps this promise; PlanWalk shows that the walk  *)
(* of gpuc/host/plan.py keeps it.                                          *)
(***************************************************************************)
EXTENDS Integers, FiniteSets

\* QueueEntry's order: (priority, job id).
Before(q, k) == q.priority < k.priority \/ (q.priority = k.priority /\ q.job < k.job)

\* The decisions `ds` (a job and the cards it is assigned) a pass may make for
\* the requests `rs`, with `free` cards, `capacity` cards in all and wants[j]
\* asked for by job j.  Jobs in `fills` may pass a job that is waiting.
\*  - a job gets as many cards as it wants, all of them free, each card once;
\*  - a job wider than the host is assigned nothing;
\*  - a job that could run is left waiting only if the cards not taken by the
\*    jobs before it are too few, for it or for one waiting before it;
\*  - a job assigned cards goes before every job left waiting, unless it fills.
Keeps(rs, ds, free, capacity, wants, fills) ==
  LET Fits(q) == wants[q.job] <= capacity
      Given(q) == \E d \in ds : d.job = q.job
      TakenBefore(q) == UNION {d.gpus : d \in {e \in ds : \E k \in rs : k.job = e.job /\ Before(k, q)}}
      Waiting == {q \in rs : Fits(q) /\ ~Given(q)}
  IN /\ \A d \in ds : /\ \E q \in rs : q.job = d.job /\ Fits(q)
                      /\ d.gpus \subseteq free
                      /\ Cardinality(d.gpus) = wants[d.job]
     /\ \A d, e \in ds : d # e => d.job # e.job /\ d.gpus \cap e.gpus = {}
     /\ \A q \in Waiting : \E k \in Waiting :
          (k = q \/ Before(k, q)) /\ wants[k.job] > Cardinality(free \ TakenBefore(k))
     /\ \A q \in Waiting, k \in rs :
          Given(k) /\ wants[k.job] > 0 /\ k.job \notin fills => Before(k, q)
=============================================================================

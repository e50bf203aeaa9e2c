----------------------------- MODULE DispatchLoop -----------------------------
(***************************************************************************)
(* The dispatcher's passes over a queue with jobs that may be stopped:     *)
(* launch_ready and preempt_for_waiting, pass after pass, both on the walk *)
(* of PlanRule, while jobs arrive, runners claim, end and exit.  What one  *)
(* walk promises is PlanWalk's subject; here is what many of them amount   *)
(* to.  All cards are owned, and nothing dies.                             *)
(***************************************************************************)
EXTENDS PlanRule, SequencesExt

CONSTANTS
  Jobs,      \* job ids, in order of submission
  Cards,     \* the cards this host owns
  JobSpecs   \* what the jobs may ask for: see JobSpec

ASSUME JobsAssumption == Jobs \subseteq Nat \ {0} /\ IsFiniteSet(Jobs) /\ IsFiniteSet(Cards)
ASSUME JobSpecsAssumption == JobSpecs \subseteq [Jobs -> [priority: Nat, gpus: Nat, fills: BOOLEAN]]

VARIABLES
  JobSpec, \* JobSpec[j]: [priority, gpus, fills], of spec.json; never changes
  at,      \* at[j]: where job j is
  cards,   \* cards[j]: the cards of the dispatcher's entry for it
  age,     \* the jobs a runner of ours has claimed, in the order of started_at
  pass     \* which half of its pass the dispatcher is at

vars == <<JobSpec, at, cards, age, pass>>

\* Not submitted; waiting; launched, not yet claimed; running; asked to stop;
\* over on disk, its runner not yet gone; over and forgotten.
Places == {"away", "queued", "launched", "running", "stopping",
           "requeued", "ended", "finished"}

HasEntry(j) == at[j] \in {"launched", "running", "stopping", "requeued", "ended"}

\* Jobs have cards only under an entry, and are dated from their claim until
\* they are reaped.
TypeOK ==
  /\ JobSpec \in JobSpecs
  /\ at \in [Jobs -> Places]
  /\ cards \in [Jobs -> SUBSET Cards]
  /\ pass \in {"launch", "preempt"}
  /\ \A j \in Jobs : cards[j] # {} => HasEntry(j)
  /\ \A j \in Jobs : Cardinality({i \in DOMAIN age : age[i] = j}) =
                      IF HasEntry(j) /\ at[j] # "launched" THEN 1 ELSE 0

-----------------------------------------------------------------------------
\* Mutant: only the intent is asked, not the state a runner has written.
LeavingByIntent(j) == at[j] = "stopping"

\* _leaving: asked to stop, or past its last write with its runner still there.
Leaving(j) == at[j] \in {"stopping", "requeued", "ended"}

\* _requests: the queued jobs with no entry, in queue order.
Requests ==
  LET Request(j) == [job |-> j, priority |-> JobSpec[j].priority, gpus |-> JobSpec[j].gpus,
                     borrows |-> FALSE, fills |-> JobSpec[j].fills]
  IN SetToSortSeq({Request(j) : j \in {k \in Jobs : at[k] = "queued"}}, Before)

\* auto_preemptable
AutoPreemptable ==
  {[job |-> j, priority |-> JobSpec[j].priority, gpus |-> cards[j],
    started |-> CHOOSE i \in DOMAIN age : age[i] = j] :
     j \in {k \in Jobs : at[k] = "running" /\ JobSpec[k].fills}}

\* _pool
Pool ==
  [owned |-> Cards, shared |-> {}, theirs |-> 0,
   coming |-> UNION {cards[j] : j \in {k \in Jobs : HasEntry(k) /\ Leaving(k)}},
   preemptable |-> AutoPreemptable]

\* plan.plan: the decisions a walk of the whole queue may come to.
Plans ==
  LET free == Cards \ UNION {cards[j] : j \in Jobs}
      pool == Pool
      reqs == Requests
      Step(w, q) == Failing(pool, w, q) \cup Assigning(pool, w, q) \cup SteppingOver(pool, w, q)
                      \cup Filling(pool, w, q) \cup Holding(pool, w, q)
      Walks[i \in 0..Len(reqs)] ==
        IF i = 0 THEN {Start(free, {}, Cards)} ELSE UNION {Step(w, reqs[i]) : w \in Walks[i - 1]}
  IN {w.decisions : w \in Walks[Len(reqs)]}

-----------------------------------------------------------------------------
\* enqueue; ids are in order of submission.
Arrive(j) ==
  /\ at[j] = "away" /\ \A k \in Jobs : k < j => at[k] # "away"
  /\ at' = [at EXCEPT ![j] = "queued"]
  /\ UNCHANGED <<JobSpec, cards, age, pass>>

\* The runner's claim, which writes started_at.
Claim(j) ==
  /\ at[j] = "launched"
  /\ at' = [at EXCEPT ![j] = "running"]
  /\ age' = Append(age, j)
  /\ UNCHANGED <<JobSpec, cards, pass>>

\* The attempt ends by itself.
Finish(j) ==
  /\ at[j] = "running"
  /\ at' = [at EXCEPT ![j] = "ended"]
  /\ UNCHANGED <<JobSpec, cards, age, pass>>

\* The stop lands: the runner queues the job again, and is still there.
StopLands(j) ==
  /\ at[j] = "stopping"
  /\ at' = [at EXCEPT ![j] = "requeued"]
  /\ UNCHANGED <<JobSpec, cards, age, pass>>

\* The runner exits and the next pass reaps it.
Reap(j) ==
  /\ pass = "launch"
  /\ at[j] \in {"requeued", "ended"}
  /\ at' = [at EXCEPT ![j] = IF @ = "requeued" THEN "queued" ELSE "finished"]
  /\ cards' = [cards EXCEPT ![j] = {}]
  /\ age' = SelectSeq(age, LAMBDA k : k # j)
  /\ UNCHANGED <<JobSpec, pass>>

\* launch_ready, when the walk comes to these decisions.
LaunchReady ==
  /\ pass = "launch"
  /\ \E ds \in Plans :
       LET given == {ds[i] : i \in {k \in DOMAIN ds : ds[k].kind = "assigned"}}
           failed == {ds[i].job : i \in {k \in DOMAIN ds : ds[k].kind = "fails"}}
           started == {d.job : d \in given}
       IN /\ at' = [j \in Jobs |-> IF j \in started THEN "launched"
                                   ELSE IF j \in failed THEN "finished" ELSE at[j]]
          /\ cards' = [j \in Jobs |-> IF j \in started
                                      THEN (CHOOSE d \in given : d.job = j).gpus ELSE cards[j]]
  /\ pass' = "preempt"
  /\ UNCHANGED <<JobSpec, age>>

\* preempt_for_waiting: what the first job with a gap asks for is stopped.
PreemptForWaiting ==
  /\ pass = "preempt"
  /\ \E ds \in Plans :
       LET stuck == {i \in DOMAIN ds : ds[i].kind = "holds" /\ ds[i].gap > 0}
           first == IF stuck = {} THEN {} ELSE ds[Min(stuck)].preempts
       IN at' = [j \in Jobs |-> IF j \in first THEN "stopping" ELSE at[j]]
  /\ pass' = "launch"
  /\ UNCHANGED <<JobSpec, cards, age>>

Init ==
  /\ JobSpec \in JobSpecs
  /\ at = [j \in Jobs |-> "away"]
  /\ cards = [j \in Jobs |-> {}]
  /\ age = <<>>
  /\ pass = "launch"

Next ==
  \/ \E j \in Jobs : Arrive(j) \/ Claim(j) \/ Finish(j) \/ StopLands(j) \/ Reap(j)
  \/ LaunchReady
  \/ PreemptForWaiting

\* The passes go on, runners claim and stop when they are asked to, and a job
\* that may not be stopped ends some day; one that may be stopped need not.
Fairness ==
  /\ []<><<pass' # pass>>_vars
  /\ \A j \in Jobs : /\ WF_vars(Claim(j)) /\ WF_vars(StopLands(j)) /\ SF_vars(Reap(j))
                     /\ WF_vars(~JobSpec[j].fills /\ Finish(j))

Spec == Init /\ [][Next]_vars /\ Fairness

-----------------------------------------------------------------------------
Entry(j) == [job |-> j, priority |-> JobSpec[j].priority]
Unfinished(j) == at[j] \notin {"away", "finished"}

\* Nothing goes before it, running or waiting.
FirstInLine(j) ==
  at[j] = "queued" /\ \A k \in Jobs \ {j} : Unfinished(k) => Before(Entry(j), Entry(k))

\* plan's strict order and automatic preemption: the job at the front of the
\* queue starts, however many jobs that may be stopped, and never end by
\* themselves, are on the cards it waits for.
FirstIsServed == \A j \in Jobs : FirstInLine(j) ~> ~FirstInLine(j)

\* preempt_for_waiting: stopping is not for ever. Once no job arrives any more
\* the dispatcher stops stopping jobs.
StopsEnd == <>[](\A j \in Jobs : at[j] # "stopping")
=============================================================================

------------------------------- MODULE PlanWalk -------------------------------
(***************************************************************************)
(* plan.plan: one pass's walk of the queue, a step per request, from every *)
(* pool a pass can find.                                                   *)
(***************************************************************************)
EXTENDS PlanRule

CONSTANTS
  Owned, Shared,   \* the cards nvidia-smi reports, owned and shared
  Gone,            \* cards it does not report, under jobs that still run
  Queues,          \* the queues a pass may find, each in dispatch order
  Candidates       \* running auto_preempt jobs: [job, priority, started]

Cards == Owned \cup Shared \cup Gone

ASSUME CardsAssumption ==
  /\ IsFiniteSet(Cards)
  /\ Owned \cap Shared = {} /\ Gone \cap (Owned \cup Shared) = {}
\* A job's id is a nonzero number here, and two jobs have two.
Request == [job : Nat \ {0}, priority : Int, gpus : Nat, borrows : BOOLEAN, fills : BOOLEAN]

ASSUME QueuesAssumption ==
  \A queue \in Queues :
    /\ queue \in Seq(Request)
    /\ \A i, k \in DOMAIN queue :
         i < k => queue[i].job # queue[k].job /\ Before(queue[i], queue[k])
\* No two start in the same microsecond.
ASSUME CandidatesAssumption ==
  /\ Candidates \subseteq [job : Nat \ {0}, priority : Int, started : Int]
  /\ IsFiniteSet(Candidates)
  /\ \A k, l \in Candidates : k # l => k.job # l.job /\ k.started # l.started

VARIABLES
  queue,  \* the requests of this pass
  on,     \* on[c]: what is on card c: a candidate, by its job, or one of the below
  walk    \* see PlanRule

vars == <<queue, on, walk>>

Free == 0      \* nothing
Theirs == -1   \* somebody else's job
Leaving == -2  \* a job of ours that is on its way out
Staying == -3  \* a job of ours that may not be stopped
Uses == {Free, Theirs, Leaving, Staying} \cup {k.job : k \in Candidates}

FreeOwned == {c \in Owned : on[c] = Free}
FreeShared == {c \in Shared : on[c] = Free}

\* dispatcher._pool
Pool ==
  [owned |-> Owned, shared |-> Shared,
   theirs |-> Cardinality({c \in Shared : on[c] = Theirs}),
   coming |-> {c \in Owned \cup Shared : on[c] = Leaving},
   preemptable |-> {[job |-> k.job, priority |-> k.priority, started |-> k.started,
                     gpus |-> {c \in Cards : on[c] = k.job}] :
                    k \in {l \in Candidates : \E c \in Cards : on[c] = l.job}}]

Init ==
  /\ queue \in Queues
  /\ on \in [Cards -> Uses]
  /\ \A c \in Owned : on[c] # Theirs
  /\ \A c \in Gone : on[c] \notin {Free, Theirs}
  /\ walk = Start(FreeOwned, FreeShared, Owned \cup Shared)

Position == Len(walk.decisions) + 1
Done == Position > Len(queue)

\* One decision: walk' is one of the walks a case allows.
Walks(Case(_, _, _)) ==
  /\ ~Done
  /\ walk' \in Case(Pool, walk, queue[Position])
  /\ UNCHANGED <<queue, on>>

Fail == Walks(Failing)
Assign == Walks(Assigning)
StepOver == Walks(SteppingOver)
Fill == Walks(Filling)
HoldCards == Walks(Holding)

\* The walk is over; every request must have come to this, or TLC says deadlock.
Return == Done /\ UNCHANGED vars

Next == Fail \/ Assign \/ StepOver \/ Fill \/ HoldCards \/ Return

Spec == Init /\ [][Next]_vars

-----------------------------------------------------------------------------
Decision(i) == walk.decisions[i]
Made == DOMAIN walk.decisions
Assigned(i) == Decision(i).kind = "assigned"
Held(i) == Decision(i).kind = "holds"

\* A job that starts once the stops in flight, or those asked for it, land.
Covered(i) == Held(i) /\ (Decision(i).gap = 0 \/ Decision(i).preempts # {})

TypeOK ==
  /\ walk.ownedFree \subseteq FreeOwned /\ walk.sharedFree \subseteq FreeShared
  /\ walk.held \in [Owned \cup Shared -> {0} \cup {queue[i].job : i \in DOMAIN queue}]
  /\ \A i \in Made :
       /\ Decision(i).job = queue[i].job
       /\ Decision(i).gpus \subseteq Owned \cup Shared
       /\ Decision(i).gap \in 0..queue[i].gpus

\* plan and _take: each job assigned cards gets as many as it asked for, all of
\* them free, none handed out twice, and shared ones only if it may borrow.
GivenOnce ==
  \A i \in Made : Assigned(i) =>
    /\ Cardinality(Decision(i).gpus) = queue[i].gpus
    /\ Decision(i).gpus \subseteq FreeOwned \cup (IF queue[i].borrows THEN FreeShared ELSE {})
    /\ \A k \in Made \ {i} : Assigned(k) => Decision(i).gpus \cap Decision(k).gpus = {}

\* plan's first rule: nothing behind a job that waits is given a card it holds,
\* except a job that may be stopped, and that only while the one that holds the
\* card is not covered: otherwise the jobs stopped for it would be relaunched
\* onto the cards they gave up.
HeldInOrder ==
  \A i, k \in Made : k < i /\ Held(k) /\ Assigned(i) /\ Decision(i).gpus \cap Decision(k).gpus # {} =>
    queue[i].fills /\ ~Covered(k)

\* Owned cards first, always: a job is lent a shared card only if every owned
\* card that was free is handed out or held by then.
BorrowsOnlyTheShortfall ==
  \A i \in Made : Assigned(i) /\ Decision(i).gpus \cap Shared # {} =>
    \A c \in FreeOwned : \E k \in Made : k <= i /\ c \in Decision(k).gpus

\* enough_to_start: whoever is stopped is stopped for one job, sorts behind it,
\* and with what it holds gives it every card it asked for.
StopsStartSomebody ==
  \A i \in Made : Decision(i).preempts # {} =>
    LET stopped == {c \in Pool.preemptable : c.job \in Decision(i).preempts}
        usable == Owned \cup (IF queue[i].borrows THEN Shared ELSE {})
    IN /\ \A c \in stopped : Before(queue[i], c)
       /\ Cardinality(Decision(i).gpus \cup UNION {c.gpus \cap usable : c \in stopped}) >= queue[i].gpus
       /\ \A k \in Made \ {i} : Decision(k).preempts = {}
       /\ \A k \in Made : k < i /\ Held(k) => Decision(k).gap = 0

\* What HostQueue takes of the rule: with no borrower in the queue, the
\* assignments of a whole walk keep the contract.
KeepsContract ==
  Done /\ (\A i \in DOMAIN queue : ~queue[i].borrows) =>
    Keeps({queue[i] : i \in DOMAIN queue},
          {[job |-> Decision(i).job, gpus |-> Decision(i).gpus] : i \in {k \in Made : Assigned(k)}},
          FreeOwned, Cardinality(Owned),
          [j \in {queue[i].job : i \in DOMAIN queue} |->
             (CHOOSE q \in {queue[i] : i \in DOMAIN queue} : q.job = j).gpus],
          {queue[i].job : i \in {k \in DOMAIN queue : queue[k].fills}})
=============================================================================

------------------------------- MODULE PlanRule -------------------------------
(***************************************************************************)
(* The dispatch rule of gpuc/host/plan.py, one request at a time.          *)
(*                                                                         *)
(* A request is [job, priority, gpus, borrows, fills].  A pool is what one *)
(* pass has to hand out, as it stood before the walk: the cards nvidia-smi *)
(* reports (owned, shared), how many shared cards somebody else is on      *)
(* (theirs), the cards on their way back (coming) and the running jobs     *)
(* that may be stopped (preemptable).  A walk is what the pass carries     *)
(* from one request to the next.                                           *)
(*                                                                         *)
(* The lists of the code are sets here, and "the first n of a list" is any *)
(* n of the set: what is shown holds in whatever order nvidia-smi and the  *)
(* host's config put the cards.  Each operator below returns the walks its *)
(* case may go on with, none if the case is not this request's.            *)
(***************************************************************************)
EXTENDS Integers, Sequences, FiniteSets, FiniteSetsExt, PlanContract

\* (first + second)[:n]
Cut(first, second, n) ==
  LET m == n - Cardinality(first) IN
  IF m <= 0
  THEN kSubset(n, first)
  ELSE {first \cup c : c \in kSubset(IF m < Cardinality(second) THEN m ELSE Cardinality(second), second)}

-----------------------------------------------------------------------------
\* Preemptable.frees: the cards of a candidate the waiting job could run on; a
\* card that has dropped off nvidia-smi is in neither list.
Frees(c, pool, q) ==
  c.gpus \cap (IF q.borrows THEN pool.owned \cup pool.shared ELSE pool.owned)

\* enough_to_start's order: least important first, then the latest started (no
\* two jobs start at the same instant).
StopBefore(c, d) == c.priority > d.priority \/ (c.priority = d.priority /\ c.started > d.started)

\* Mutant: a candidate that goes before the waiting job is stopped all the same.
EnoughFromAnybody(pool, q, gap) ==
  LET Eligible == {c \in pool.preemptable : Frees(c, pool, q) # {}}
      Enough == {cs \in SUBSET Eligible :
                   /\ \A c \in cs, d \in Eligible : StopBefore(d, c) => d \in cs
                   /\ Cardinality(UNION {Frees(c, pool, q) : c \in cs}) >= gap}
  IN {c \in Eligible : Enough # {} /\ \A cs \in Enough : c \in cs}

\* enough_to_start: down that list, passing the candidates that go before the
\* waiting job or free nothing for it, until the gap is covered; nobody at all
\* if it never is.
EnoughToStart(pool, q, gap) ==
  LET Eligible == {c \in pool.preemptable : Before(q, c) /\ Frees(c, pool, q) # {}}
      Enough == {cs \in SUBSET Eligible :
                   /\ \A c \in cs, d \in Eligible : StopBefore(d, c) => d \in cs
                   /\ Cardinality(UNION {Frees(c, pool, q) : c \in cs}) >= gap}
  IN {c \in Eligible : Enough # {} /\ \A cs \in Enough : c \in cs}

-----------------------------------------------------------------------------
\* capacity_failure
CapacityFailure(pool, q) ==
  q.gpus > Cardinality(pool.owned) + (IF q.borrows THEN Cardinality(pool.shared) ELSE 0)

\* Mutant: a job behind may have the cards a job ahead is holding.
UnheldIgnored(w, cards) == cards

\* The cards among these that no job ahead is holding.
Unheld(w, cards) == {c \in cards : w.held[c] = 0}

\* Mutant: shared cards first.
OfferedLentFirst(pool, w, q) ==
  Cut(IF q.borrows THEN Unheld(w, w.sharedFree) ELSE {}, Unheld(w, w.ownedFree), q.gpus)

\* The cards q is offered: owned first, and a borrower's shortfall from the
\* shared cards nobody is on.
Offered(pool, w, q) ==
  Cut(Unheld(w, w.ownedFree), IF q.borrows THEN Unheld(w, w.sharedFree) ELSE {}, q.gpus)

\* The cards on their way back it would take as well, owned first.
ComingTo(pool, w, q, n) ==
  LET back == Unheld(w, pool.coming)
  IN Cut(back \ pool.shared, IF q.borrows THEN back \cap pool.shared ELSE {}, n)

\* The cards it could have once every job of ours has ended.
Ours(pool, q) ==
  Cardinality(pool.owned) + (IF q.borrows THEN Cardinality(pool.shared) - pool.theirs ELSE 0)

\* Mutant: a filler is given any free card, a covered job's too.
OpenToAnybody(w, c) == TRUE

\* A filler may have a card that is not held for a job that is covered.
OpenToIt(w, c) == w.held[c] \notin w.covered

\* _fill: unheld cards before held ones, owned before borrowed.
FillOf(w, q) ==
  LET own == {c \in w.ownedFree : OpenToIt(w, c)}
      lent == {c \in w.sharedFree : q.borrows /\ OpenToIt(w, c)}
      rest == IF Cardinality(own) < q.gpus THEN q.gpus - Cardinality(own) ELSE 0
  IN {cs \in {a \cup b : a \in Cut(Unheld(w, own), own \ Unheld(w, own), q.gpus),
                         b \in Cut(Unheld(w, lent), lent \ Unheld(w, lent), rest)} :
        Cardinality(cs) = q.gpus}

-----------------------------------------------------------------------------
Decide(kind, q, cards, gap, preempts) ==
  [job |-> q.job, kind |-> kind, gpus |-> cards, gap |-> gap, preempts |-> preempts]

Decided(w, d) == [w EXCEPT !.decisions = Append(@, d)]

\* Mutant: a shared card stays on offer once it is taken.
GiveOwned(w, q, cards) ==
  [Decided(w, Decide("assigned", q, cards, 0, {})) EXCEPT !.ownedFree = @ \ cards]

\* _take
Give(w, q, cards) ==
  [Decided(w, Decide("assigned", q, cards, 0, {})) EXCEPT
     !.ownedFree = @ \ cards, !.sharedFree = @ \ cards]

\* The request asks for more cards than the host has.
Failing(pool, w, q) ==
  IF CapacityFailure(pool, q) THEN {Decided(w, Decide("fails", q, {}, 0, {}))} ELSE {}

\* What is offered is enough.
Assigning(pool, w, q) ==
  {Give(w, q, cs) : cs \in {f \in Offered(pool, w, q) :
                              ~CapacityFailure(pool, q) /\ Cardinality(f) = q.gpus}}

\* What it may still get: <<offered, coming, short>> for a request that must wait.
Shortfalls(pool, w, q) ==
  UNION {{<<f, c, q.gpus - Cardinality(f) - Cardinality(c)>> :
            c \in ComingTo(pool, w, q, q.gpus - Cardinality(f))} :
         f \in {g \in Offered(pool, w, q) : ~CapacityFailure(pool, q) /\ Cardinality(g) < q.gpus}}

\* It waits for a card that is somebody else's, and holds nothing.
SteppingOver(pool, w, q) ==
  IF Shortfalls(pool, w, q) # {} /\ q.gpus > Ours(pool, q)
  THEN {Decided(w, Decide("stepped", q, {}, 0, {}))}
  ELSE {}

MayFill(pool, w, q, s) == q.fills /\ s[3] > 0 /\ q.gpus <= Ours(pool, q)

\* It may be stopped, so it may run on cards that wait for their siblings.
Filling(pool, w, q) ==
  IF \E s \in Shortfalls(pool, w, q) : MayFill(pool, w, q, s)
  THEN {Give(w, q, cs) : cs \in FillOf(w, q)}
  ELSE {}

\* It holds the cards it could take; the first job that is still short says who
\* is to be stopped for it.
Hold(pool, w, q, s) ==
  LET taken == s[1] \cup s[2]
      first == s[3] > 0 /\ ~w.stuck
      preempts == IF first THEN EnoughToStart(pool, q, s[3]) ELSE {}
  IN [Decided(w, Decide("holds", q, taken, s[3], {c.job : c \in preempts})) EXCEPT
        !.stuck = @ \/ first,
        !.held = [c \in DOMAIN @ |-> IF c \in taken THEN q.job ELSE @[c]],
        !.covered = IF s[3] = 0 \/ preempts # {} THEN @ \cup {q.job} ELSE @]

Holding(pool, w, q) ==
  {Hold(pool, w, q, s) : s \in {t \in Shortfalls(pool, w, q) :
     /\ q.gpus <= Ours(pool, q)
     /\ MayFill(pool, w, q, t) => FillOf(w, q) = {}}}

\* The walk before the first request.
Start(ownedFree, sharedFree, cards) ==
  [ownedFree |-> ownedFree, sharedFree |-> sharedFree, held |-> [c \in cards |-> 0],
   covered |-> {}, stuck |-> FALSE, decisions |-> <<>>]
=============================================================================

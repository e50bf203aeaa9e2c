---------------------------- MODULE PlanWalkProofs ----------------------------
(***************************************************************************)
(* plan.plan's rules and PlanContract, for queues of any length and pools  *)
(* of any size.                                                            *)
(***************************************************************************)
EXTENDS PlanWalk, FiniteSetTheorems, WellFoundedInduction, TLAPS

-----------------------------------------------------------------------------
\* Operators of PlanRule.

\* (first + second)[:n]: at most n cards, all there are if they are fewer, and the
\* second list only when the first has been used up.
LEMMA CutIs ==
  ASSUME NEW first, NEW second, NEW n \in Nat, NEW x \in Cut(first, second, n),
         IsFiniteSet(first), IsFiniteSet(second), first \cap second = {}
  PROVE  /\ x \subseteq first \cup second
         /\ IsFiniteSet(x) /\ Cardinality(x) \in Nat /\ Cardinality(x) <= n
         /\ Cardinality(x) < n => x = first \cup second
         /\ x \subseteq first \/ first \subseteq x
  <1> DEFINE m == n - Cardinality(first)
             k == IF m < Cardinality(second) THEN m ELSE Cardinality(second)
  <1>1. Cardinality(first) \in Nat /\ Cardinality(second) \in Nat /\ m \in Int
    BY FS_CardinalityType
  <1>2. CASE m <= 0
    <2>1. x \subseteq first /\ Cardinality(x) = n
      BY <1>2 DEF Cut, kSubset
    <2> QED
      BY <2>1, <1>1, FS_Subset, FS_CardinalityType
  <1>3. CASE ~(m <= 0)
    <2>1. PICK c \in kSubset(k, second) : x = first \cup c
      BY <1>3 DEF Cut
    <2>2. c \subseteq second /\ Cardinality(c) = k
      BY <2>1 DEF kSubset
    <2>3. IsFiniteSet(c) /\ (k = Cardinality(second) => c = second)
      BY <2>2, FS_Subset
    <2>4. first \cap c = {}
      BY <2>2
    <2>5. IsFiniteSet(x) /\ Cardinality(x) = Cardinality(first) + k
      BY <1>1, <2>1, <2>2, <2>3, <2>4, FS_Union, FS_EmptySet
    <2>6. k \in Nat /\ k <= m /\ (k < m => k = Cardinality(second))
      BY <1>1, <1>3
    <2>7. Cardinality(x) < n => c = second
      BY <1>1, <2>3, <2>5, <2>6
    <2> QED
      BY <1>1, <2>1, <2>2, <2>5, <2>6, <2>7
  <1> QED
    BY <1>1, <1>2, <1>3

\* Of sets that include each other, one is the least.
LEMMA LeastOfAChain ==
  ASSUME NEW S, IsFiniteSet(S), NEW T \in SUBSET SUBSET S, T # {},
         \A a, b \in T : a \subseteq b \/ b \subseteq a
  PROVE  \E a \in T : \A b \in T : a \subseteq b
  <1>1. T \subseteq FiniteSubsetsOf(S)
    BY FS_FiniteSubsetsOfFinite
  <1>2. PICK a \in T : \A b \in T : ~(<<b, a>> \in StrictSubsetOrdering(S))
    BY <1>1, FS_StrictSubsetOrderingWellFounded, WFMin
  <1>3. ASSUME NEW b \in T, ~(a \subseteq b) PROVE FALSE
    <2>1. b \subseteq a /\ b # a
      BY <1>3
    <2> QED
      BY <1>2, <2>1 DEF StrictSubsetOrdering
  <1> QED
    BY <1>3

-----------------------------------------------------------------------------
\* The pool, and the invariant.

Decisions ==
  [job : Nat \ {0}, kind : {"fails", "assigned", "stepped", "holds"}, gpus : SUBSET (Owned \cup Shared),
   gap : Nat, preempts : SUBSET Nat]

WalkType ==
  /\ queue \in Queues /\ on \in [Cards -> Uses] /\ \A c \in Owned : on[c] # Theirs
  /\ walk \in [ownedFree : SUBSET FreeOwned, sharedFree : SUBSET FreeShared,
               held : [Owned \cup Shared -> Nat], covered : SUBSET (Nat \ {0}),
               stuck : BOOLEAN, decisions : Seq(Decisions)]
  /\ Len(walk.decisions) <= Len(queue)
  /\ \A i \in Made : Decision(i).job = queue[i].job

\* A free card is on offer until it is assigned.
OfferIs ==
  /\ \A c \in FreeOwned : c \notin walk.ownedFree => \E i \in Made : Assigned(i) /\ c \in Decision(i).gpus
  /\ \A i \in Made : Assigned(i) => Decision(i).gpus \cap (walk.ownedFree \cup walk.sharedFree) = {}

\* held names the job that holds a card, from when it does.
HeldIs ==
  /\ \A c \in Owned \cup Shared : walk.held[c] # 0 => \E i \in Made : Held(i) /\ c \in Decision(i).gpus
  /\ \A i \in Made : Held(i) => \A c \in Decision(i).gpus : walk.held[c] = queue[i].job
  /\ \A i \in Made : Covered(i) => queue[i].job \in walk.covered

\* A job that waits holds every owned card it was offered, and was offered too few.
TakenAhead(k) == UNION {Decision(l).gpus : l \in {m \in Made : m < k /\ Assigned(m)}}
WaitsForMore ==
  /\ \A i \in Made : Held(i) => \A c \in walk.ownedFree : walk.held[c] # 0
  /\ \A i \in Made : Held(i) => \E k \in Made : /\ k <= i /\ Held(k)
                                                /\ queue[k].gpus > Cardinality(FreeOwned \ TakenAhead(k))

\* What each decision says of the request.
DecisionFits(i) ==
  /\ Decision(i).kind = "fails" <=> CapacityFailure(Pool, queue[i])
  /\ Decision(i).kind = "stepped" => queue[i].gpus > Ours(Pool, queue[i])
  /\ Decision(i).preempts # {} => Held(i)
  /\ Assigned(i) => /\ Cardinality(Decision(i).gpus) = queue[i].gpus
                    /\ Decision(i).gpus \subseteq FreeOwned \cup (IF queue[i].borrows THEN FreeShared ELSE {})

\* Only the first job that is short has anybody stopped for it.
StuckOnce ==
  /\ ~walk.stuck => \A k \in Made : Decision(k).preempts = {} /\ (Held(k) => Decision(k).gap = 0)
  /\ StopsStartSomebody

\* Past a job that waits, only what may be stopped gets owned cards.
WaitingGoFirst ==
  \A i, k \in Made :
    k < i /\ Held(k) /\ Assigned(i) /\ ~queue[i].fills => Decision(i).gpus \cap Owned = {}

WalkInv ==
  /\ WalkType /\ OfferIs /\ HeldIs /\ WaitsForMore /\ (\A i \in Made : DecisionFits(i))
  /\ GivenOnce /\ HeldInOrder /\ BorrowsOnlyTheShortfall /\ StuckOnce /\ WaitingGoFirst

LEMMA PoolIs ==
  ASSUME WalkType
  PROVE  /\ IsFiniteSet(Owned) /\ IsFiniteSet(Shared) /\ Owned \cap Shared = {}
         /\ Cardinality(Owned) \in Nat /\ Cardinality(Shared) \in Nat
         /\ Pool.owned = Owned /\ Pool.shared = Shared
         /\ Pool.theirs \in Nat
         /\ Pool.coming \subseteq Owned \cup Shared
         /\ \A c \in Pool.coming : c \notin FreeOwned /\ c \notin FreeShared
         /\ Pool.preemptable \subseteq [job : Nat \ {0}, priority : Int, started : Int, gpus : SUBSET Cards]
         /\ IsFiniteSet(Pool.preemptable)
  <1>1. IsFiniteSet(Owned) /\ IsFiniteSet(Shared) /\ IsFiniteSet({c \in Shared : on[c] = Theirs})
    BY CardsAssumption, FS_Subset DEF Cards
  <1>2. Pool.preemptable \subseteq [job : Nat \ {0}, priority : Int, started : Int, gpus : SUBSET Cards]
    BY CandidatesAssumption DEF Pool
  <1>3. IsFiniteSet(Pool.preemptable)
    <2> DEFINE S == {l \in Candidates : \E c \in Cards : on[c] = l.job}
               f == [k \in S |-> [job |-> k.job, priority |-> k.priority, started |-> k.started,
                                  gpus |-> {c \in Cards : on[c] = k.job}]]
    <2>1. IsFiniteSet(S)
      BY CandidatesAssumption, FS_Subset
    <2>2. Pool.preemptable = {f[k] : k \in S}
      BY DEF Pool
    <2>3. f \in Surjection(S, Pool.preemptable)
      BY <2>2 DEF Surjection
    <2> QED
      BY <2>1, <2>3, FS_Surjection
  <1> QED
    BY <1>1, <1>2, <1>3, CardsAssumption, FS_CardinalityType DEF Pool, FreeOwned, FreeShared, Free, Leaving

LEMMA CandidatesDiffer ==
  \A c, d \in Pool.preemptable : c # d => c.job # d.job /\ c.started # d.started
  <1> SUFFICES ASSUME NEW c \in Pool.preemptable, NEW d \in Pool.preemptable, c # d
               PROVE  c.job # d.job /\ c.started # d.started
    OBVIOUS
  <1>1. PICK k \in Candidates : c = [job |-> k.job, priority |-> k.priority, started |-> k.started,
                                     gpus |-> {x \in Cards : on[x] = k.job}]
    BY DEF Pool
  <1>2. PICK l \in Candidates : d = [job |-> l.job, priority |-> l.priority, started |-> l.started,
                                     gpus |-> {x \in Cards : on[x] = l.job}]
    BY DEF Pool
  <1> QED
    BY <1>1, <1>2, CandidatesAssumption

\* enough_to_start: whoever it names may be stopped for q, and they free as many
\* cards for it as it lacks.
LEMMA EnoughIs ==
  ASSUME WalkType, NEW q \in Request, NEW gap \in Nat, EnoughToStart(Pool, q, gap) # {}
  PROVE  LET cs == EnoughToStart(Pool, q, gap)
         IN /\ cs \subseteq Pool.preemptable
            /\ \A c \in cs : Before(q, c)
            /\ Cardinality(UNION {Frees(c, Pool, q) : c \in cs}) >= gap
  <1> DEFINE Eligible == {c \in Pool.preemptable : Before(q, c) /\ Frees(c, Pool, q) # {}}
             Enough == {cs \in SUBSET Eligible :
                          /\ \A c \in cs, d \in Eligible : StopBefore(d, c) => d \in cs
                          /\ Cardinality(UNION {Frees(c, Pool, q) : c \in cs}) >= gap}
             least == EnoughToStart(Pool, q, gap)
  <1>1. least = {c \in Eligible : Enough # {} /\ \A cs \in Enough : c \in cs}
    BY DEF EnoughToStart
  <1>2. IsFiniteSet(Eligible) /\ Enough \in SUBSET SUBSET Eligible /\ Enough # {}
    <2>1. Eligible \in SUBSET Pool.preemptable /\ IsFiniteSet(Pool.preemptable)
      BY PoolIs
    <2>2. Enough # {}
      <3> HIDE DEF Enough, Eligible
      <3> QED
        BY <1>1
    <2> QED
      BY <2>1, <2>2, FS_Subset
  <1>3. \A c, d \in Eligible : c = d \/ StopBefore(c, d) \/ StopBefore(d, c)
    <2> SUFFICES ASSUME NEW c \in Eligible, NEW d \in Eligible, c # d
                 PROVE  StopBefore(c, d) \/ StopBefore(d, c)
      OBVIOUS
    <2>1. c.priority \in Int /\ d.priority \in Int /\ c.started \in Int /\ d.started \in Int
      BY PoolIs
    <2>2. c.started # d.started
      BY CandidatesDiffer
    <2> QED
      BY <2>1, <2>2 DEF StopBefore
  <1>4. \A a, b \in Enough : a \subseteq b \/ b \subseteq a
    <2> SUFFICES ASSUME NEW a \in Enough, NEW b \in Enough, NEW c \in a, c \notin b, NEW d \in b, d \notin a
                 PROVE  FALSE
      OBVIOUS
    <2> QED
      BY <1>3
  <1>5. PICK a \in Enough : \A b \in Enough : a \subseteq b
    <2> HIDE DEF Enough
    <2> QED
      BY <1>2, <1>4, LeastOfAChain
  <1>6. least = a
    BY <1>1, <1>2, <1>5
  <1> QED
    BY <1>6

\* _fill: free cards for a filler, as many as it asked for, none of them a covered
\* job's, and lent ones only when it has every owned one that it may have.
LEMMA FillIs ==
  ASSUME WalkType, NEW q \in Request, NEW cs \in FillOf(walk, q)
  PROVE  /\ cs \subseteq walk.ownedFree \cup (IF q.borrows THEN walk.sharedFree ELSE {})
         /\ Cardinality(cs) = q.gpus
         /\ \A c \in cs : walk.held[c] \notin walk.covered
         /\ cs \cap walk.sharedFree # {} => \A c \in walk.ownedFree : c \in cs \/ walk.held[c] # 0
  <1> DEFINE own == {c \in walk.ownedFree : OpenToIt(walk, c)}
             lent == {c \in walk.sharedFree : q.borrows /\ OpenToIt(walk, c)}
             rest == IF Cardinality(own) < q.gpus THEN q.gpus - Cardinality(own) ELSE 0
             ownUnheld == Unheld(walk, own)
             lentUnheld == Unheld(walk, lent)
  <1>1. PICK a \in Cut(ownUnheld, own \ ownUnheld, q.gpus), b \in Cut(lentUnheld, lent \ lentUnheld, rest) :
             cs = a \cup b /\ Cardinality(cs) = q.gpus
    <2> DEFINE As == Cut(ownUnheld, own \ ownUnheld, q.gpus)
               Bs == Cut(lentUnheld, lent \ lentUnheld, rest)
    <2>1. FillOf(walk, q) = {x \in {a \cup b : a \in As, b \in Bs} : Cardinality(x) = q.gpus}
      BY DEF FillOf
    <2> HIDE DEF As, Bs
    <2>2. cs \in {a \cup b : a \in As, b \in Bs} /\ Cardinality(cs) = q.gpus
      BY <2>1
    <2>3. \E a \in As, b \in Bs : cs = a \cup b
      BY <2>2
    <2> QED
      BY <2>2, <2>3 DEF As, Bs
  <1>2. /\ own \subseteq Owned /\ lent \subseteq Shared /\ q.gpus \in Nat
        /\ ownUnheld \subseteq own /\ lentUnheld \subseteq lent
    BY DEF WalkType, Unheld, Request, FreeOwned, FreeShared
  <1>3. IsFiniteSet(own) /\ IsFiniteSet(lent) /\ Cardinality(own) \in Nat
    BY <1>2, PoolIs, FS_Subset, FS_CardinalityType
  <1>4. rest \in Nat
    BY <1>2, <1>3
  <1> HIDE DEF own, lent, rest, ownUnheld, lentUnheld
  <1>5. /\ IsFiniteSet(ownUnheld) /\ IsFiniteSet(own \ ownUnheld)
        /\ IsFiniteSet(lentUnheld) /\ IsFiniteSet(lent \ lentUnheld)
    BY <1>2, <1>3, FS_Subset, FS_Difference
  <1>6. /\ a \subseteq own /\ IsFiniteSet(a) /\ Cardinality(a) \in Nat
        /\ Cardinality(a) < q.gpus => a = own
    <2>1. /\ a \subseteq ownUnheld \cup (own \ ownUnheld) /\ IsFiniteSet(a) /\ Cardinality(a) \in Nat
          /\ Cardinality(a) < q.gpus => a = ownUnheld \cup (own \ ownUnheld)
      BY <1>2, <1>5, CutIs
    <2> QED
      BY <1>2, <2>1
  <1>7. b \subseteq lent /\ IsFiniteSet(b) /\ Cardinality(b) \in Nat /\ Cardinality(b) <= rest
    BY <1>2, <1>4, <1>5, CutIs
  <1>8. b # {} => a = own
    <2> SUFFICES ASSUME b # {} PROVE a = own
      OBVIOUS
    <2>1. rest # 0
      BY <1>7, FS_EmptySet
    <2>2. Cardinality(own) < q.gpus
      BY <2>1 DEF rest
    <2>3. Cardinality(a) <= Cardinality(own)
      BY <1>3, <1>6, FS_Subset
    <2> QED
      BY <1>2, <1>3, <1>6, <2>2, <2>3
  <1>9. \A c \in walk.ownedFree : c \in own \/ walk.held[c] # 0
    BY DEF own, OpenToIt, WalkType
  <1> QED
    BY <1>1, <1>6, <1>7, <1>8, <1>9, PoolIs DEF own, lent, OpenToIt, WalkType, FreeOwned, FreeShared

\* What is offered: cards that nobody ahead is holding, and if they are too few,
\* or some of them are lent, all the owned ones of that kind.
LEMMA OfferedIs ==
  ASSUME WalkType, NEW q \in Request, NEW f \in Offered(Pool, walk, q)
  PROVE  /\ f \subseteq walk.ownedFree \cup (IF q.borrows THEN walk.sharedFree ELSE {})
         /\ \A c \in f : walk.held[c] = 0
         /\ IsFiniteSet(f) /\ Cardinality(f) \in Nat /\ Cardinality(f) <= q.gpus
         /\ Cardinality(f) < q.gpus \/ f \cap walk.sharedFree # {} =>
              \A c \in walk.ownedFree : walk.held[c] = 0 => c \in f
  <1> DEFINE first == Unheld(walk, walk.ownedFree)
             second == IF q.borrows THEN Unheld(walk, walk.sharedFree) ELSE {}
  <1>1. /\ first \subseteq walk.ownedFree /\ second \subseteq (IF q.borrows THEN walk.sharedFree ELSE {})
        /\ walk.ownedFree \subseteq Owned /\ walk.sharedFree \subseteq Shared
    BY DEF Unheld, WalkType, FreeOwned, FreeShared
  <1>2. IsFiniteSet(first) /\ IsFiniteSet(second) /\ first \cap second = {}
    <2>1. first \subseteq Owned /\ second \subseteq Shared
      BY <1>1
    <2> HIDE DEF first, second
    <2> QED
      BY <2>1, PoolIs, FS_Subset
  <1>3. f \in Cut(first, second, q.gpus) /\ q.gpus \in Nat
    BY DEF Offered, Request
  <1>4. (\A c \in first \cup second : walk.held[c] = 0) /\ \A c \in walk.ownedFree : walk.held[c] = 0 => c \in first
    BY DEF Unheld
  <1> HIDE DEF first, second
  <1>5. /\ f \subseteq first \cup second
        /\ IsFiniteSet(f) /\ Cardinality(f) \in Nat /\ Cardinality(f) <= q.gpus
        /\ Cardinality(f) < q.gpus => f = first \cup second
        /\ f \subseteq first \/ first \subseteq f
    BY <1>2, <1>3, CutIs
  <1>6. f \cap walk.sharedFree # {} => first \subseteq f
    BY <1>1, <1>5, PoolIs
  <1> QED
    BY <1>1, <1>4, <1>5, <1>6

\* The cards on their way back: unheld ones, not free, no more than it lacks.
LEMMA ComingIs ==
  ASSUME WalkType, NEW q \in Request, NEW n \in Nat, NEW cs \in ComingTo(Pool, walk, q, n)
  PROVE  /\ cs \subseteq Pool.coming /\ \A c \in cs : walk.held[c] = 0
         /\ IsFiniteSet(cs) /\ Cardinality(cs) \in Nat /\ Cardinality(cs) <= n
  <1> DEFINE back == Unheld(walk, Pool.coming)
             first == back \ Pool.shared
             second == IF q.borrows THEN back \cap Pool.shared ELSE {}
  <1>1. back \subseteq Pool.coming /\ \A c \in back : walk.held[c] = 0
    BY DEF Unheld
  <1>2. cs \in Cut(first, second, n)
    BY DEF ComingTo
  <1>3. Pool.coming \subseteq Owned \cup Shared /\ Pool.shared = Shared /\ IsFiniteSet(Owned) /\ IsFiniteSet(Shared)
    BY PoolIs
  <1> HIDE DEF back
  <1>4. first \subseteq Owned /\ second \subseteq Shared /\ first \cap second = {} /\ first \cup second \subseteq back
    BY <1>1, <1>3
  <1> HIDE DEF first, second
  <1>5. IsFiniteSet(first) /\ IsFiniteSet(second)
    BY <1>3, <1>4, FS_Subset
  <1>6. cs \subseteq first \cup second /\ IsFiniteSet(cs) /\ Cardinality(cs) \in Nat /\ Cardinality(cs) <= n
    BY <1>2, <1>4, <1>5, CutIs
  <1> QED
    BY <1>1, <1>4, <1>6

\* A request that must wait is offered fewer cards than it asked for; what is
\* coming goes on top.
LEMMA ShortfallIs ==
  ASSUME WalkType, NEW q \in Request, NEW s \in Shortfalls(Pool, walk, q)
  PROVE  /\ ~CapacityFailure(Pool, q)
         /\ s[1] \in Offered(Pool, walk, q) /\ Cardinality(s[1]) < q.gpus
         /\ s[2] \subseteq Pool.coming /\ \A c \in s[2] : walk.held[c] = 0
         /\ IsFiniteSet(s[1]) /\ IsFiniteSet(s[2]) /\ s[1] \cap s[2] = {}
         /\ s[3] \in Nat /\ Cardinality(s[1] \cup s[2]) + s[3] = q.gpus
  <1>1. PICK f \in Offered(Pool, walk, q) :
          /\ ~CapacityFailure(Pool, q) /\ Cardinality(f) < q.gpus
          /\ \E c \in ComingTo(Pool, walk, q, q.gpus - Cardinality(f)) :
               s = <<f, c, q.gpus - Cardinality(f) - Cardinality(c)>>
    BY DEF Shortfalls
  <1>2. PICK c \in ComingTo(Pool, walk, q, q.gpus - Cardinality(f)) :
          s = <<f, c, q.gpus - Cardinality(f) - Cardinality(c)>>
    BY <1>1
  <1>3. q.gpus \in Nat /\ IsFiniteSet(f) /\ Cardinality(f) \in Nat
    BY OfferedIs DEF Request
  <1>4. q.gpus - Cardinality(f) \in Nat
    BY <1>1, <1>3
  <1>5. /\ c \subseteq Pool.coming /\ \A x \in c : walk.held[x] = 0
        /\ IsFiniteSet(c) /\ Cardinality(c) \in Nat /\ Cardinality(c) <= q.gpus - Cardinality(f)
    BY <1>4, ComingIs
  <1>6. f \cap c = {}
    <2>1. f \subseteq walk.ownedFree \cup walk.sharedFree
      BY OfferedIs
    <2> QED
      BY <1>5, <2>1, PoolIs DEF WalkType
  <1>7. Cardinality(f \cup c) = Cardinality(f) + Cardinality(c)
    <2> HIDE DEF Pool
    <2>1. Cardinality(f \cup c) = Cardinality(f) + Cardinality(c) - Cardinality(f \cap c)
      BY <1>3, <1>5, FS_Union
    <2>2. Cardinality(f \cap c) = 0
      BY <1>6, FS_EmptySet
    <2> QED
      BY <1>3, <1>5, <2>1, <2>2
  <1>8. s[1] = f /\ s[2] = c /\ s[3] = q.gpus - Cardinality(f) - Cardinality(c)
    BY <1>2
  <1> HIDE DEF Pool
  <1> QED
    BY <1>1, <1>3, <1>4, <1>5, <1>6, <1>7, <1>8

-----------------------------------------------------------------------------
\* The steps, by the decision each makes of the request it has come to.
This == queue[Position]

Decides(d) ==
  /\ Position <= Len(queue) /\ This \in Request /\ UNCHANGED <<queue, on>>
  /\ d \in Decisions /\ d.job = This.job
  /\ walk'.decisions = Append(walk.decisions, d)
  /\ d.kind = "fails" <=> CapacityFailure(Pool, This)

\* It fails, or it waits for somebody else's card, and takes nothing.
Passes(d) ==
  /\ Decides(d)
  /\ d.kind \in {"fails", "stepped"} /\ d.gpus = {} /\ d.preempts = {}
  /\ d.kind = "stepped" => This.gpus > Ours(Pool, This)
  /\ walk' = [walk EXCEPT !.decisions = walk'.decisions]

\* It is assigned cards, free and not held, or held for a job that is not covered
\* if it fills; lent ones after all the owned ones.
Gives(d) ==
  /\ Decides(d)
  /\ d.kind = "assigned" /\ d.preempts = {} /\ Cardinality(d.gpus) = This.gpus
  /\ d.gpus \subseteq walk.ownedFree \cup (IF This.borrows THEN walk.sharedFree ELSE {})
  /\ \/ \A c \in d.gpus : walk.held[c] = 0
     \/ This.fills /\ \A c \in d.gpus : walk.held[c] \notin walk.covered
  /\ d.gpus \cap walk.sharedFree # {} => \A c \in walk.ownedFree : c \in d.gpus \/ walk.held[c] # 0
  /\ walk' = [walk EXCEPT !.decisions = walk'.decisions,
                          !.ownedFree = @ \ d.gpus, !.sharedFree = @ \ d.gpus]

\* Whoever is stopped sorts behind it and gives it what it still lacks.
StopsSuffice(d) ==
  LET stopped == {c \in Pool.preemptable : c.job \in d.preempts}
      usable == Owned \cup (IF This.borrows THEN Shared ELSE {})
  IN /\ \A c \in stopped : Before(This, c)
     /\ Cardinality(d.gpus \cup UNION {c.gpus \cap usable : c \in stopped}) >= This.gpus

\* It holds what it could take, all that nobody ahead of it holds.
Holds(d) ==
  /\ Decides(d)
  /\ d.kind = "holds"
  /\ \A c \in d.gpus : walk.held[c] = 0
  /\ \A c \in walk.ownedFree : walk.held[c] = 0 => c \in d.gpus
  /\ (\A c \in walk.ownedFree : walk.held[c] = 0) => This.gpus > Cardinality(walk.ownedFree)
  /\ d.preempts # {} => ~walk.stuck /\ StopsSuffice(d)
  /\ ~walk'.stuck => ~walk.stuck /\ d.gap = 0 /\ d.preempts = {}
  /\ walk.covered \subseteq walk'.covered
  /\ d.gap = 0 \/ d.preempts # {} => This.job \in walk'.covered
  /\ walk' \in [ownedFree : {walk.ownedFree}, sharedFree : {walk.sharedFree},
                held : {[c \in Owned \cup Shared |-> IF c \in d.gpus THEN This.job ELSE walk.held[c]]},
                covered : SUBSET (Nat \ {0}), stuck : BOOLEAN, decisions : {walk'.decisions}]

LEMMA ThisIs ==
  ASSUME WalkType, ~Done
  PROVE  /\ This \in Request /\ Position <= Len(queue) /\ Position \in Nat
         /\ Position \in DOMAIN queue /\ Made = 1..Len(walk.decisions)
  BY QueuesAssumption DEF WalkType, This, Done, Position, Made

LEMMA FailPasses ==
  ASSUME WalkType, Fail
  PROVE  \E d \in Decisions : Passes(d)
  <1> DEFINE d == Decide("fails", This, {}, 0, {})
  <1>1. ~Done /\ walk' = Decided(walk, d) /\ CapacityFailure(Pool, This) /\ UNCHANGED <<queue, on>>
    BY DEF Fail, Walks, Failing, This
  <1>2. d \in Decisions /\ d.job = This.job /\ d.kind = "fails" /\ d.gpus = {} /\ d.preempts = {}
    BY <1>1, ThisIs DEF Decide, Decisions, Request
  <1> HIDE DEF d
  <1>3. walk' = [walk EXCEPT !.decisions = Append(walk.decisions, d)]
        /\ walk'.decisions = Append(walk.decisions, d)
    BY <1>1 DEF Decided, WalkType
  <1> QED
    BY <1>1, <1>2, <1>3, ThisIs DEF Passes, Decides

LEMMA StepOverPasses ==
  ASSUME WalkType, StepOver
  PROVE  \E d \in Decisions : Passes(d)
  <1> DEFINE d == Decide("stepped", This, {}, 0, {})
  <1>1. /\ ~Done /\ walk' = Decided(walk, d) /\ UNCHANGED <<queue, on>>
        /\ Shortfalls(Pool, walk, This) # {} /\ This.gpus > Ours(Pool, This)
    BY DEF StepOver, Walks, SteppingOver, This
  <1>2. d \in Decisions /\ d.job = This.job /\ d.kind = "stepped" /\ d.gpus = {} /\ d.preempts = {}
    BY <1>1, ThisIs DEF Decide, Decisions, Request
  <1> HIDE DEF d
  <1>3. walk' = [walk EXCEPT !.decisions = Append(walk.decisions, d)]
        /\ walk'.decisions = Append(walk.decisions, d)
    BY <1>1 DEF Decided, WalkType
  <1>4. ~CapacityFailure(Pool, This)
    BY <1>1, ThisIs, ShortfallIs
  <1> QED
    BY <1>1, <1>2, <1>3, <1>4, ThisIs DEF Passes, Decides

\* _take, of any cards that may be given.
LEMMA GiveGives ==
  ASSUME WalkType, ~Done, UNCHANGED <<queue, on>>, ~CapacityFailure(Pool, This),
         NEW cs, walk' = Give(walk, This, cs), Cardinality(cs) = This.gpus,
         cs \subseteq walk.ownedFree \cup (IF This.borrows THEN walk.sharedFree ELSE {}),
         \/ \A c \in cs : walk.held[c] = 0
         \/ This.fills /\ \A c \in cs : walk.held[c] \notin walk.covered,
         cs \cap walk.sharedFree # {} => \A c \in walk.ownedFree : c \in cs \/ walk.held[c] # 0
  PROVE  \E d \in Decisions : Gives(d)
  <1> DEFINE d == Decide("assigned", This, cs, 0, {})
  <1>1. cs \subseteq Owned \cup Shared
    BY DEF WalkType, FreeOwned, FreeShared
  <1>2. d \in Decisions /\ d.job = This.job /\ d.kind = "assigned" /\ d.gpus = cs /\ d.preempts = {}
    BY <1>1, ThisIs DEF Decide, Decisions, Request
  <1> HIDE DEF d
  <1>3. walk' = [[walk EXCEPT !.decisions = Append(@, d)] EXCEPT !.ownedFree = @ \ cs, !.sharedFree = @ \ cs]
    BY DEF Give, Decided, d
  <1>4. /\ walk'.decisions = Append(walk.decisions, d)
        /\ walk' = [walk EXCEPT !.decisions = walk'.decisions, !.ownedFree = @ \ cs, !.sharedFree = @ \ cs]
    BY <1>3 DEF WalkType
  <1> QED
    BY <1>2, <1>4, ThisIs DEF Gives, Decides

LEMMA AssignGives ==
  ASSUME WalkType, Assign
  PROVE  \E d \in Decisions : Gives(d)
  <1>1. PICK cs \in Offered(Pool, walk, This) :
          /\ ~CapacityFailure(Pool, This) /\ Cardinality(cs) = This.gpus
          /\ walk' = Give(walk, This, cs) /\ ~Done /\ UNCHANGED <<queue, on>>
    BY DEF Assign, Walks, Assigning, This
  <1>2. /\ cs \subseteq walk.ownedFree \cup (IF This.borrows THEN walk.sharedFree ELSE {})
        /\ \A c \in cs : walk.held[c] = 0
        /\ cs \cap walk.sharedFree # {} => \A c \in walk.ownedFree : c \in cs \/ walk.held[c] # 0
    BY <1>1, ThisIs, OfferedIs
  <1> QED
    BY <1>1, <1>2, GiveGives

LEMMA FillGives ==
  ASSUME WalkType, Fill
  PROVE  \E d \in Decisions : Gives(d)
  <1>1. /\ ~Done /\ UNCHANGED <<queue, on>>
        /\ \E s \in Shortfalls(Pool, walk, This) : MayFill(Pool, walk, This, s)
        /\ \E cs \in FillOf(walk, This) : walk' = Give(walk, This, cs)
    BY DEF Fill, Walks, Filling, This
  <1>2. This.fills /\ ~CapacityFailure(Pool, This)
    BY <1>1, ThisIs, ShortfallIs DEF MayFill
  <1>3. PICK cs \in FillOf(walk, This) : walk' = Give(walk, This, cs)
    BY <1>1
  <1>4. /\ cs \subseteq walk.ownedFree \cup (IF This.borrows THEN walk.sharedFree ELSE {})
        /\ Cardinality(cs) = This.gpus
        /\ \A c \in cs : walk.held[c] \notin walk.covered
        /\ cs \cap walk.sharedFree # {} => \A c \in walk.ownedFree : c \in cs \/ walk.held[c] # 0
    BY <1>1, ThisIs, FillIs
  <1> QED
    BY <1>1, <1>2, <1>3, <1>4, GiveGives

\* enough_to_start's answer for what is still short: with what the job holds it
\* makes up all it asked for.
LEMMA StopsAreEnough ==
  ASSUME WalkType, This \in Request, NEW s \in Shortfalls(Pool, walk, This),
         EnoughToStart(Pool, This, s[3]) # {},
         NEW d, d.gpus = s[1] \cup s[2],
         d.preempts = {c.job : c \in EnoughToStart(Pool, This, s[3])}
  PROVE  StopsSuffice(d)
  <1> DEFINE es == EnoughToStart(Pool, This, s[3])
             stopped == {c \in Pool.preemptable : c.job \in d.preempts}
             usable == Owned \cup (IF This.borrows THEN Shared ELSE {})
             freed == UNION {c.gpus \cap usable : c \in stopped}
  <1>1. /\ es \subseteq Pool.preemptable
        /\ \A c \in es : Before(This, c)
        /\ Cardinality(UNION {Frees(c, Pool, This) : c \in es}) >= s[3]
    BY ShortfallIs, EnoughIs
  <1>2. stopped = es
    <2>1. \A c, e \in Pool.preemptable : c.job = e.job => c = e
      BY CandidatesDiffer
    <2>2. d.preempts = {c.job : c \in es}
      OBVIOUS
    <2> HIDE DEF es, Pool
    <2> QED
      BY <1>1, <2>1, <2>2
  <1>3. freed = UNION {Frees(c, Pool, This) : c \in es}
    <2>1. \A c \in es : Frees(c, Pool, This) = c.gpus \cap usable
      BY PoolIs DEF Frees
    <2> HIDE DEF es, usable
    <2> QED
      BY <1>2, <2>1
  <1>4. freed \subseteq Owned \cup Shared /\ IsFiniteSet(freed) /\ Cardinality(freed) \in Nat
    <2>1. freed \subseteq Owned \cup Shared
      OBVIOUS
    <2> HIDE DEF freed
    <2>2. IsFiniteSet(Owned \cup Shared)
      BY PoolIs, FS_Union
    <2> QED
      BY <2>1, <2>2, FS_Subset, FS_CardinalityType
  <1>5. freed \cap d.gpus = {}
    <2> SUFFICES ASSUME NEW c \in stopped, NEW x \in c.gpus, x \in d.gpus PROVE FALSE
      OBVIOUS
    <2>1. PICK k \in Candidates : c.gpus = {y \in Cards : on[y] = k.job}
      BY DEF Pool
    <2>2. on[x] \in Nat \ {0}
      BY <2>1, CandidatesAssumption
    <2>3. on[x] # Free /\ on[x] # Leaving
      BY <2>2 DEF Free, Leaving
    <2>4. s[1] \in Offered(Pool, walk, This) /\ s[2] \subseteq Pool.coming
      BY ShortfallIs
    <2>5. s[1] \subseteq walk.ownedFree \cup walk.sharedFree
      BY <2>4, OfferedIs
    <2> QED
      BY <2>3, <2>4, <2>5 DEF WalkType, FreeOwned, FreeShared, Pool
  <1> HIDE DEF freed, es
  <1>6. /\ IsFiniteSet(d.gpus) /\ Cardinality(d.gpus) \in Nat /\ s[3] \in Nat
        /\ Cardinality(d.gpus) + s[3] = This.gpus
    <2>1. /\ IsFiniteSet(s[1]) /\ IsFiniteSet(s[2]) /\ s[3] \in Nat
          /\ Cardinality(s[1] \cup s[2]) + s[3] = This.gpus
      BY ShortfallIs
    <2>2. IsFiniteSet(s[1] \cup s[2])
      BY <2>1, FS_Union
    <2> QED
      BY <2>1, <2>2, FS_CardinalityType
  <1>7. Cardinality(d.gpus \cup freed) = Cardinality(d.gpus) + Cardinality(freed)
    <2>1. Cardinality(d.gpus \cup freed) = Cardinality(d.gpus) + Cardinality(freed) - Cardinality(d.gpus \cap freed)
      BY <1>4, <1>6, FS_Union
    <2>2. Cardinality(d.gpus \cap freed) = 0
      BY <1>5, FS_EmptySet
    <2> QED
      BY <1>4, <1>6, <2>1, <2>2
  <1>8. Cardinality(freed) >= s[3] /\ This.gpus \in Nat
    BY <1>1, <1>3 DEF Request
  <1>9. Cardinality(d.gpus \cup freed) >= This.gpus
    <2> HIDE DEF stopped, usable
    <2> QED
      BY <1>4, <1>6, <1>7, <1>8
  <1> QED
    BY <1>1, <1>2, <1>9 DEF StopsSuffice, freed

LEMMA HoldCardsHolds ==
  ASSUME WalkType, HoldCards
  PROVE  \E d \in Decisions : Holds(d)
  <1>1. PICK s \in Shortfalls(Pool, walk, This) :
          walk' = Hold(Pool, walk, This, s) /\ ~Done /\ UNCHANGED <<queue, on>>
    BY DEF HoldCards, Walks, Holding, This
  <1>2. This \in Request /\ Position <= Len(queue)
    BY <1>1, ThisIs
  <1> DEFINE taken == s[1] \cup s[2]
             first == s[3] > 0 /\ ~walk.stuck
             preempts == IF first THEN EnoughToStart(Pool, This, s[3]) ELSE {}
             d == Decide("holds", This, taken, s[3], {c.job : c \in preempts})
             ahead == [c \in Owned \cup Shared |-> IF c \in taken THEN This.job ELSE walk.held[c]]
             certain == IF s[3] = 0 \/ preempts # {} THEN walk.covered \cup {This.job} ELSE walk.covered
  <1>3. /\ ~CapacityFailure(Pool, This)
        /\ s[1] \in Offered(Pool, walk, This) /\ Cardinality(s[1]) < This.gpus
        /\ s[2] \subseteq Pool.coming /\ \A c \in s[2] : walk.held[c] = 0
        /\ s[3] \in Nat
    BY <1>2, ShortfallIs
  <1>4. /\ s[1] \subseteq walk.ownedFree \cup walk.sharedFree
        /\ \A c \in s[1] : walk.held[c] = 0
        /\ \A c \in walk.ownedFree : walk.held[c] = 0 => c \in s[1]
        /\ IsFiniteSet(s[1]) /\ Cardinality(s[1]) \in Nat
    BY <1>2, <1>3, OfferedIs
  <1>5. taken \subseteq Owned \cup Shared
    BY <1>3, <1>4, PoolIs DEF WalkType, FreeOwned, FreeShared
  <1>6. preempts \subseteq Pool.preemptable
    BY <1>2, <1>3, EnoughIs
  <1>7. {c.job : c \in preempts} \subseteq Nat
    <2> HIDE DEF preempts
    <2> QED
      BY <1>6, PoolIs
  <1>8. /\ d \in Decisions /\ d.job = This.job /\ d.kind = "holds" /\ d.gpus = taken /\ d.gap = s[3]
        /\ d.preempts = {c.job : c \in preempts}
    <2> HIDE DEF preempts, taken
    <2> QED
      BY <1>2, <1>3, <1>5, <1>7 DEF Decide, Decisions, Request
  <1>9. d.preempts # {} <=> preempts # {}
    <2> HIDE DEF preempts, d
    <2> QED
      BY <1>8
  <1>10. walk' = [[walk EXCEPT !.decisions = Append(@, d)] EXCEPT
                    !.stuck = @ \/ first,
                    !.held = [c \in DOMAIN @ |-> IF c \in taken THEN This.job ELSE @[c]],
                    !.covered = IF s[3] = 0 \/ preempts # {} THEN @ \cup {This.job} ELSE @]
    BY <1>1 DEF Hold, Decided
  <1> HIDE DEF preempts, d, first, taken
  <1>11. /\ walk'.decisions = Append(walk.decisions, d)
         /\ walk'.ownedFree = walk.ownedFree /\ walk'.sharedFree = walk.sharedFree
         /\ walk'.stuck = (walk.stuck \/ first)
         /\ walk'.held = ahead
         /\ walk'.covered = certain
         /\ walk' = [ownedFree |-> walk.ownedFree, sharedFree |-> walk.sharedFree, held |-> ahead,
                     covered |-> certain, stuck |-> walk'.stuck, decisions |-> walk'.decisions]
    BY <1>10 DEF WalkType
  <1>12. certain \subseteq Nat \ {0} /\ walk.covered \subseteq certain
         /\ (s[3] = 0 \/ preempts # {} => This.job \in certain)
    BY <1>2 DEF WalkType, Request
  <1>13. walk'.stuck \in BOOLEAN
    BY <1>11 DEF WalkType, first
  <1>14. Decides(d)
    BY <1>1, <1>2, <1>3, <1>8, <1>11 DEF Decides
  <1>15. /\ \A c \in d.gpus : walk.held[c] = 0
         /\ \A c \in walk.ownedFree : walk.held[c] = 0 => c \in d.gpus
    BY <1>3, <1>4, <1>8 DEF taken
  <1>16. (\A c \in walk.ownedFree : walk.held[c] = 0) => This.gpus > Cardinality(walk.ownedFree)
    <2> SUFFICES ASSUME \A c \in walk.ownedFree : walk.held[c] = 0
                 PROVE  This.gpus > Cardinality(walk.ownedFree)
      OBVIOUS
    <2>1. walk.ownedFree \in SUBSET s[1]
      BY <1>4
    <2>2. Cardinality(walk.ownedFree) <= Cardinality(s[1]) /\ Cardinality(walk.ownedFree) \in Nat
      BY <1>4, <2>1, FS_Subset, FS_CardinalityType
    <2> QED
      BY <1>2, <1>3, <1>4, <2>2 DEF Request
  <1>17. d.preempts # {} => ~walk.stuck /\ StopsSuffice(d)
    <2> SUFFICES ASSUME d.preempts # {} PROVE ~walk.stuck /\ StopsSuffice(d)
      OBVIOUS
    <2>1. first /\ preempts = EnoughToStart(Pool, This, s[3]) /\ preempts # {}
      BY <1>9 DEF preempts
    <2>2. StopsSuffice(d)
      BY <1>2, <1>8, <2>1, StopsAreEnough DEF taken
    <2> QED
      BY <2>1, <2>2 DEF first
  <1>18. ~walk'.stuck => ~walk.stuck /\ d.gap = 0 /\ d.preempts = {}
    <2> SUFFICES ASSUME ~walk'.stuck PROVE ~walk.stuck /\ d.gap = 0 /\ d.preempts = {}
      OBVIOUS
    <2>1. ~walk.stuck /\ ~first
      BY <1>11
    <2>2. s[3] = 0
      BY <1>3, <2>1 DEF first
    <2>3. preempts = {}
      BY <2>1 DEF preempts
    <2> QED
      BY <1>8, <1>9, <2>1, <2>2, <2>3
  <1>19. d.gap = 0 \/ d.preempts # {} => This.job \in walk'.covered
    BY <1>8, <1>9, <1>11, <1>12
  <1>20. ahead = [c \in Owned \cup Shared |-> IF c \in d.gpus THEN This.job ELSE walk.held[c]]
    BY <1>8
  <1>21. walk' \in [ownedFree : {walk.ownedFree}, sharedFree : {walk.sharedFree}, held : {ahead},
                    covered : SUBSET (Nat \ {0}), stuck : BOOLEAN, decisions : {walk'.decisions}]
    <2> HIDE DEF ahead, certain
    <2> QED
      BY <1>11, <1>12, <1>13
  <1>22. walk.covered \subseteq walk'.covered
    BY <1>11, <1>12
  <1> QED
    BY <1>8, <1>14, <1>15, <1>16, <1>17, <1>18, <1>19, <1>20, <1>21, <1>22 DEF Holds

LEMMA StepsDecide ==
  ASSUME WalkType, Next
  PROVE  UNCHANGED vars \/ \E d \in Decisions : Passes(d) \/ Gives(d) \/ Holds(d)
  <1>1. Fail => \E d \in Decisions : Passes(d)
    BY FailPasses
  <1>2. StepOver => \E d \in Decisions : Passes(d)
    BY StepOverPasses
  <1>3. Assign => \E d \in Decisions : Gives(d)
    BY AssignGives
  <1>4. Fill => \E d \in Decisions : Gives(d)
    BY FillGives
  <1>5. HoldCards => \E d \in Decisions : Holds(d)
    BY HoldCardsHolds
  <1>6. Return => UNCHANGED vars
    BY DEF Return
  <1> QED
    BY <1>1, <1>2, <1>3, <1>4, <1>5, <1>6 DEF Next

-----------------------------------------------------------------------------
\* Each step keeps the invariant.

Steps(d) == Passes(d) \/ Gives(d) \/ Holds(d)

\* What was decided stays decided, and d comes last, at p.
LEMMA DecisionsGrow ==
  ASSUME WalkType, NEW d, Decides(d), NEW p, p = Position
  PROVE  /\ p \in Nat \ {0} /\ p \in DOMAIN queue /\ p \notin Made /\ This = queue[p]
         /\ Made' = Made \cup {p} /\ Made \subseteq DOMAIN queue
         /\ \A i \in Made : i \in Nat /\ i < p
         /\ \A i \in Made : /\ Decision(i)' = Decision(i)
                            /\ (Assigned(i)' <=> Assigned(i)) /\ (Held(i)' <=> Held(i))
                            /\ (Covered(i)' <=> Covered(i))
         /\ Decision(p)' = d
         /\ (Assigned(p)' <=> d.kind = "assigned")
         /\ (Held(p)' <=> d.kind = "holds")
         /\ (Covered(p)' <=> d.kind = "holds" /\ (d.gap = 0 \/ d.preempts # {}))
         /\ queue' = queue /\ on' = on /\ Pool' = Pool /\ FreeOwned' = FreeOwned /\ FreeShared' = FreeShared
  <1>1. walk.decisions \in Seq(Decisions) /\ d \in Decisions /\ walk'.decisions = Append(walk.decisions, d)
    BY DEF WalkType, Decides
  <1>2. p = Len(walk.decisions) + 1 /\ Len(walk.decisions) \in Nat /\ Made = 1..Len(walk.decisions)
    BY <1>1 DEF Position, Made
  <1>3. queue \in Seq(Request) /\ p <= Len(queue)
    BY QueuesAssumption DEF WalkType, Decides
  <1>4. DOMAIN queue = 1..Len(queue) /\ Len(queue) \in Nat
    BY <1>3
  <1>5. Made' = 1..p
    BY <1>1, <1>2 DEF Made
  <1>6. walk'.decisions[p] = d /\ \A i \in Made : walk'.decisions[i] = walk.decisions[i]
    BY <1>1, <1>2
  <1>7. Decision(p)' = d /\ \A i \in Made : Decision(i)' = Decision(i)
    BY <1>6 DEF Decision
  <1>8. queue' = queue /\ on' = on
    BY DEF Decides
  <1>9. Pool' = Pool /\ FreeOwned' = FreeOwned /\ FreeShared' = FreeShared
    BY <1>8 DEF Pool, FreeOwned, FreeShared
  <1>10. /\ Assigned(p)' <=> d.kind = "assigned"
         /\ Held(p)' <=> d.kind = "holds"
         /\ Covered(p)' <=> d.kind = "holds" /\ (d.gap = 0 \/ d.preempts # {})
    BY <1>7 DEF Assigned, Held, Covered
  <1>11. \A i \in Made : /\ Assigned(i)' <=> Assigned(i)
                         /\ Held(i)' <=> Held(i)
                         /\ Covered(i)' <=> Covered(i)
    BY <1>7 DEF Assigned, Held, Covered
  <1>12. p \in Nat \ {0} /\ p \notin Made /\ Made' = Made \cup {p} /\ \A i \in Made : i \in Nat /\ i < p
    BY <1>2, <1>5
  <1>13. p \in DOMAIN queue /\ Made \subseteq DOMAIN queue
    BY <1>2, <1>3, <1>4
  <1>14. This = queue[p]
    BY DEF This
  <1> QED
    BY <1>7, <1>8, <1>9, <1>10, <1>11, <1>12, <1>13, <1>14

LEMMA StepsDecideIt ==
  ASSUME NEW d, Steps(d) PROVE Decides(d)
  BY DEF Steps, Passes, Gives, Holds

LEMMA TypeStep ==
  ASSUME WalkType, NEW d, Steps(d), NEW p, p = Position
  PROVE  WalkType'
  <1>1. Decides(d) /\ Made' = Made \cup {p} /\ p \in Nat \ {0} /\ This = queue[p]
    BY StepsDecideIt, DecisionsGrow
  <1>2. walk'.decisions \in Seq(Decisions) /\ Len(walk'.decisions) = p
    BY <1>1 DEF Decides, WalkType, Position
  <1>3. walk' \in [ownedFree : SUBSET FreeOwned, sharedFree : SUBSET FreeShared,
                   held : [Owned \cup Shared -> Nat], covered : SUBSET (Nat \ {0}),
                   stuck : BOOLEAN, decisions : Seq(Decisions)]
    <2>1. CASE Passes(d)
      BY <1>2, <2>1 DEF Passes, WalkType
    <2>2. CASE Gives(d)
      BY <1>2, <2>2 DEF Gives, WalkType
    <2>3. CASE Holds(d)
      <3>1. This.job \in Nat
        BY <1>1 DEF Decides, Request
      <3> QED
        BY <1>2, <2>3, <3>1 DEF Holds, WalkType
    <2> QED
      BY <2>1, <2>2, <2>3 DEF Steps
  <1>4. \A i \in Made' : (Decision(i).job = queue[i].job)'
    BY <1>1, DecisionsGrow DEF WalkType, Decides
  <1>5. queue' = queue /\ on' = on /\ FreeOwned' = FreeOwned /\ FreeShared' = FreeShared
    BY <1>1, DecisionsGrow
  <1>6. Len(walk'.decisions) <= Len(queue)
    BY <1>1, <1>2 DEF Decides
  <1> QED
    BY <1>3, <1>4, <1>5, <1>6 DEF WalkType

LEMMA OfferStep ==
  ASSUME WalkType, OfferIs, NEW d, Steps(d), NEW p, p = Position
  PROVE  OfferIs'
  <1>1. Decides(d)
    BY StepsDecideIt
  <1> USE <1>1
  <1>2. CASE Passes(d) \/ Holds(d)
    <2>1. walk'.ownedFree = walk.ownedFree /\ walk'.sharedFree = walk.sharedFree /\ d.kind # "assigned"
      BY <1>2 DEF Passes, Holds, WalkType
    <2> QED
      BY <2>1, DecisionsGrow DEF OfferIs
  <1>3. CASE Gives(d)
    <2>1. /\ walk'.ownedFree = walk.ownedFree \ d.gpus /\ walk'.sharedFree = walk.sharedFree \ d.gpus
          /\ d.kind = "assigned"
      BY <1>3 DEF Gives, WalkType
    <2> QED
      BY <2>1, DecisionsGrow DEF OfferIs
  <1> QED
    BY <1>2, <1>3 DEF Steps

LEMMA HeldStep ==
  ASSUME WalkType, HeldIs, NEW d, Steps(d), NEW p, p = Position
  PROVE  HeldIs'
  <1>1. Decides(d)
    BY StepsDecideIt
  <1> USE <1>1
  <1>2. CASE Passes(d) \/ Gives(d)
    <2>1. walk'.held = walk.held /\ walk'.covered = walk.covered /\ d.kind # "holds"
      BY <1>2 DEF Passes, Gives, WalkType
    <2> QED
      BY <2>1, DecisionsGrow DEF HeldIs
  <1>3. CASE Holds(d)
    <2>1. /\ walk'.held = [c \in Owned \cup Shared |-> IF c \in d.gpus THEN This.job ELSE walk.held[c]]
          /\ walk.covered \subseteq walk'.covered /\ d.kind = "holds"
          /\ \A c \in d.gpus : walk.held[c] = 0
          /\ d.gap = 0 \/ d.preempts # {} => This.job \in walk'.covered
      BY <1>3 DEF Holds
    <2>2. \A i \in Made : Held(i) => Decision(i).gpus \subseteq Owned \cup Shared /\ Decision(i).gpus \cap d.gpus = {}
      <3> SUFFICES ASSUME NEW i \in Made, Held(i)
                   PROVE  Decision(i).gpus \subseteq Owned \cup Shared /\ Decision(i).gpus \cap d.gpus = {}
        OBVIOUS
      <3>1. Decision(i) \in Decisions
        BY DEF Decision, Made, WalkType
      <3>2. queue[i] \in Request
        BY QueuesAssumption, DecisionsGrow DEF WalkType
      <3>3. queue[i].job # 0
        BY <3>2 DEF Request
      <3> QED
        BY <2>1, <3>1, <3>3 DEF HeldIs, Decisions
    <2>3. d.gpus \subseteq Owned \cup Shared
      BY DEF Decides, Decisions
    <2>4. \A c \in Owned \cup Shared : walk'.held[c] # 0 => \E i \in Made' : (Held(i) /\ c \in Decision(i).gpus)'
      BY <2>1, DecisionsGrow DEF HeldIs
    <2>5. \A i \in Made' : Held(i)' => \A c \in (Decision(i).gpus)' : walk'.held[c] = (queue[i].job)'
      BY <2>1, <2>2, <2>3, DecisionsGrow DEF HeldIs
    <2>6. \A i \in Made' : Covered(i)' => (queue[i].job \in walk.covered)'
      BY <2>1, DecisionsGrow DEF HeldIs
    <2> QED
      BY <2>4, <2>5, <2>6 DEF HeldIs
  <1> QED
    BY <1>2, <1>3 DEF Steps

LEMMA WaitsStep ==
  ASSUME WalkType, OfferIs, HeldIs, WaitsForMore, NEW d, Steps(d), NEW p, p = Position
  PROVE  WaitsForMore'
  <1>1. Decides(d) /\ queue' = queue /\ FreeOwned' = FreeOwned
    BY StepsDecideIt, DecisionsGrow
  <1>2. \A k \in Made : TakenAhead(k)' = TakenAhead(k)
    <2> SUFFICES ASSUME NEW k \in Made PROVE TakenAhead(k)' = TakenAhead(k)
      OBVIOUS
    <2>1. \A l : (l \in Made /\ l < k /\ Assigned(l))' <=> l \in Made /\ l < k /\ Assigned(l)
      BY <1>1, DecisionsGrow
    <2>2. \A l \in Made : Decision(l)' = Decision(l)
      BY <1>1, DecisionsGrow
    <2> QED
      BY <2>1, <2>2 DEF TakenAhead
  <1>3. \A i \in Made : Held(i) =>
          \E k \in Made' : k <= i /\ Held(k)' /\ queue[k].gpus > Cardinality(FreeOwned \ TakenAhead(k)')
    BY <1>1, <1>2, DecisionsGrow DEF WaitsForMore
  <1>4. CASE Passes(d) \/ Gives(d)
    <2>1. walk'.held = walk.held /\ walk'.ownedFree \subseteq walk.ownedFree /\ d.kind # "holds"
      BY <1>4 DEF Passes, Gives, WalkType
    <2> QED
      BY <1>1, <1>3, <2>1, DecisionsGrow DEF WaitsForMore
  <1>5. CASE Holds(d)
    <2>1. /\ walk'.held = [c \in Owned \cup Shared |-> IF c \in d.gpus THEN This.job ELSE walk.held[c]]
          /\ walk'.ownedFree = walk.ownedFree /\ d.kind = "holds"
          /\ \A c \in walk.ownedFree : walk.held[c] = 0 => c \in d.gpus
          /\ (\A c \in walk.ownedFree : walk.held[c] = 0) => This.gpus > Cardinality(walk.ownedFree)
      BY <1>5 DEF Holds
    <2>2. This = queue[p] /\ This.job # 0 /\ p \in Nat
      BY <1>1, DecisionsGrow DEF Decides, Request
    <2>3. \A c \in walk'.ownedFree : walk'.held[c] # 0
      BY <2>1, <2>2 DEF WalkType, FreeOwned
    <2>4. \E k \in Made' : k <= p /\ Held(k)' /\ queue[k].gpus > Cardinality(FreeOwned \ TakenAhead(k)')
      <3>1. CASE \A c \in walk.ownedFree : walk.held[c] = 0
        <4>1. \A l : (l \in Made /\ l < p /\ Assigned(l))' <=> l \in Made /\ Assigned(l)
          BY <1>1, <2>1, <2>2, DecisionsGrow
        <4>2. TakenAhead(p)' = UNION {Decision(l).gpus : l \in {m \in Made : Assigned(m)}}
          BY <1>1, <4>1, DecisionsGrow DEF TakenAhead
        <4>3. FreeOwned \ TakenAhead(p)' = walk.ownedFree
          BY <4>2 DEF OfferIs, WalkType
        <4>4. p \in Made' /\ Held(p)'
          BY <1>1, <2>1, DecisionsGrow
        <4>5. p <= p /\ queue[p].gpus > Cardinality(FreeOwned \ TakenAhead(p)')
          BY <2>1, <2>2, <3>1, <4>3
        <4> QED
          BY <4>4, <4>5
      <3>2. CASE ~\A c \in walk.ownedFree : walk.held[c] = 0
        <4>1. PICK i \in Made : Held(i)
          BY <3>2 DEF HeldIs, WalkType, FreeOwned
        <4>2. PICK k \in Made' : k <= i /\ Held(k)' /\ queue[k].gpus > Cardinality(FreeOwned \ TakenAhead(k)')
          BY <1>3, <4>1
        <4>3. i < p /\ i \in Nat /\ k \in Nat
          BY <1>1, <2>2, <4>1, DecisionsGrow
        <4>4. k <= p
          BY <2>2, <4>2, <4>3
        <4> QED
          BY <4>2, <4>4
      <3> QED
        BY <3>1, <3>2
    <2>5. \A i \in Made' : Held(i)' =>
            \E k \in Made' : k <= i /\ Held(k)' /\ queue[k].gpus > Cardinality(FreeOwned \ TakenAhead(k)')
      <3>1. Made' = Made \cup {p} /\ \A i \in Made : Held(i)' <=> Held(i)
        BY <1>1, DecisionsGrow
      <3> SUFFICES ASSUME NEW i \in Made', Held(i)'
                   PROVE  \E k \in Made' :
                            k <= i /\ Held(k)' /\ queue[k].gpus > Cardinality(FreeOwned \ TakenAhead(k)')
        OBVIOUS
      <3>2. CASE i = p
        BY <2>4, <3>2
      <3>3. CASE i \in Made
        BY <1>3, <3>1, <3>3
      <3> QED
        BY <3>1, <3>2, <3>3
    <2> QED
      BY <1>1, <2>3, <2>5 DEF WaitsForMore
  <1> QED
    BY <1>4, <1>5 DEF Steps

LEMMA FitsStep ==
  ASSUME WalkType, \A i \in Made : DecisionFits(i), NEW d, Steps(d), NEW p, p = Position
  PROVE  (\A i \in Made : DecisionFits(i))'
  <1>1. Decides(d)
    BY StepsDecideIt
  <1> USE <1>1
  <1>2. \A i \in Made : DecisionFits(i)'
    BY DecisionsGrow DEF DecisionFits
  <1>3. /\ d.kind = "fails" <=> CapacityFailure(Pool, This)
        /\ d.kind = "stepped" => This.gpus > Ours(Pool, This)
        /\ d.preempts # {} => d.kind = "holds"
        /\ d.kind = "assigned" => /\ Cardinality(d.gpus) = This.gpus
                                  /\ d.gpus \subseteq FreeOwned \cup (IF This.borrows THEN FreeShared ELSE {})
    BY DEF Steps, Passes, Gives, Holds, Decides, WalkType
  <1>4. DecisionFits(p)'
    BY <1>3, DecisionsGrow DEF DecisionFits
  <1> QED
    BY <1>2, <1>4, DecisionsGrow

\* Cards in hand were on offer, and are not any more.
LEMMA GivenStep ==
  ASSUME WalkType, OfferIs, \A i \in Made : DecisionFits(i), GivenOnce, NEW d, Steps(d), NEW p, p = Position
  PROVE  GivenOnce'
  <1>1. Decides(d)
    BY StepsDecideIt
  <1>2. (\A i \in Made : DecisionFits(i))'
    BY FitsStep
  <1>3. d.kind = "assigned" => d.gpus \subseteq walk.ownedFree \cup walk.sharedFree
    BY DEF Steps, Passes, Gives, Holds
  <1>4. \A i \in Made : Assigned(i) /\ d.kind = "assigned" => Decision(i).gpus \cap d.gpus = {}
    BY <1>3 DEF OfferIs
  <1>5. \A i, k \in Made' : i # k /\ Assigned(i)' /\ Assigned(k)' => (Decision(i).gpus \cap Decision(k).gpus)' = {}
    BY <1>1, <1>4, DecisionsGrow DEF GivenOnce
  <1> QED
    BY <1>2, <1>5 DEF GivenOnce, DecisionFits

\* A job's cards are held from its decision on.
LEMMA InOrderStep ==
  ASSUME WalkType, HeldIs, HeldInOrder, NEW d, Steps(d), NEW p, p = Position
  PROVE  HeldInOrder'
  <1>1. Decides(d) /\ queue' = queue
    BY StepsDecideIt, DecisionsGrow
  <1>2. \A k \in Made : Held(k) /\ d.kind = "assigned" /\ d.gpus \cap Decision(k).gpus # {} =>
          This.fills /\ ~Covered(k)
    <2> SUFFICES ASSUME NEW k \in Made, Held(k), d.kind = "assigned", NEW c \in d.gpus \cap Decision(k).gpus
                 PROVE  This.fills /\ ~Covered(k)
      OBVIOUS
    <2>1. walk.held[c] = queue[k].job /\ (Covered(k) => queue[k].job \in walk.covered)
      BY DEF HeldIs
    <2>2. queue[k].job # 0
      <3>1. queue \in Seq(Request) /\ k \in DOMAIN queue
        BY <1>1, QueuesAssumption, DecisionsGrow DEF WalkType
      <3>2. queue[k] \in Request
        BY <3>1
      <3> QED
        BY <3>2 DEF Request
    <2> QED
      BY <2>1, <2>2 DEF Steps, Passes, Gives, Holds
  <1> QED
    BY <1>1, <1>2, DecisionsGrow DEF HeldInOrder

LEMMA BorrowStep ==
  ASSUME WalkType, OfferIs, HeldIs, BorrowsOnlyTheShortfall, NEW d, Steps(d), NEW p, p = Position
  PROVE  BorrowsOnlyTheShortfall'
  <1>1. Decides(d) /\ FreeOwned' = FreeOwned
    BY StepsDecideIt, DecisionsGrow
  <1>2. ASSUME d.kind = "assigned", d.gpus \cap Shared # {}
        PROVE  \A c \in FreeOwned : c \in d.gpus \/ \E k \in Made : c \in Decision(k).gpus
    <2>1. d.gpus \cap walk.sharedFree # {}
      BY <1>2, PoolIs DEF Steps, Passes, Gives, Holds, WalkType, FreeOwned
    <2>2. \A c \in walk.ownedFree : c \in d.gpus \/ walk.held[c] # 0
      BY <1>2, <2>1 DEF Steps, Passes, Gives, Holds
    <2> QED
      BY <2>2 DEF OfferIs, HeldIs, WalkType, FreeOwned
  <1>3. \A i \in Made : Assigned(i) /\ Decision(i).gpus \cap Shared # {} =>
          \A c \in FreeOwned : \E k \in Made' : k <= i /\ c \in (Decision(k).gpus)'
    BY <1>1, DecisionsGrow DEF BorrowsOnlyTheShortfall
  <1>4. d.kind = "assigned" /\ d.gpus \cap Shared # {} =>
          \A c \in FreeOwned : \E k \in Made' : k <= p /\ c \in (Decision(k).gpus)'
    BY <1>1, <1>2, DecisionsGrow
  <1> QED
    BY <1>1, <1>3, <1>4, DecisionsGrow DEF BorrowsOnlyTheShortfall

LEMMA StuckStep ==
  ASSUME WalkType, \A i \in Made : DecisionFits(i), StuckOnce, NEW d, Steps(d), NEW p, p = Position
  PROVE  StuckOnce'
  <1>1. /\ Decides(d) /\ queue' = queue /\ Pool' = Pool /\ Made' = Made \cup {p} /\ Decision(p)' = d
        /\ \A i \in Made : Decision(i)' = Decision(i) /\ i < p /\ i \in Nat
        /\ p \in Nat /\ p \notin Made /\ This = queue[p]
    BY StepsDecideIt, DecisionsGrow
  <1>2. /\ d.preempts # {} => ~walk.stuck /\ StopsSuffice(d)
        /\ ~walk'.stuck => ~walk.stuck /\ d.preempts = {} /\ (d.kind = "holds" => d.gap = 0)
    <2>1. CASE Passes(d) \/ Gives(d)
      <3>1. walk'.stuck = walk.stuck /\ d.preempts = {} /\ d.kind # "holds"
        BY <2>1 DEF Passes, Gives, WalkType
      <3> QED
        BY <3>1
    <2>2. CASE Holds(d)
      BY <2>2 DEF Holds
    <2> QED
      BY <2>1, <2>2 DEF Steps
  <1>3. ~walk'.stuck => \A k \in Made' : (Decision(k).preempts)' = {} /\ (Held(k)' => (Decision(k).gap)' = 0)
    BY <1>1, <1>2, DecisionsGrow DEF StuckOnce
  <1>4. ASSUME NEW i \in Made, Decision(i).preempts # {}
        PROVE  /\ \A k \in Made' \ {i} : (Decision(k).preempts)' = {}
               /\ \A k \in Made' : k < i /\ Held(k)' => (Decision(k).gap)' = 0
    <2>1. d.preempts = {}
      BY <1>2, <1>4 DEF StuckOnce
    <2>2. ~(p < i)
      BY <1>1
    <2>3. /\ \A k \in Made \ {i} : Decision(k).preempts = {}
          /\ \A k \in Made : k < i /\ Held(k) => Decision(k).gap = 0
      BY <1>4 DEF StuckOnce, StopsStartSomebody
    <2> QED
      BY <1>1, <2>1, <2>2, <2>3, DecisionsGrow
  <1>5. ASSUME d.preempts # {}
        PROVE  /\ \A k \in Made' \ {p} : (Decision(k).preempts)' = {}
               /\ \A k \in Made' : k < p /\ Held(k)' => (Decision(k).gap)' = 0
    <2>1. ~(p < p)
      BY <1>1
    <2> QED
      BY <1>1, <1>2, <1>5, <2>1, DecisionsGrow DEF StuckOnce
  <1>6. \A i \in Made : Decision(i).preempts # {} =>
          LET stopped == {c \in Pool.preemptable : c.job \in Decision(i).preempts}
              usable == Owned \cup (IF queue[i].borrows THEN Shared ELSE {})
          IN /\ \A c \in stopped : Before(queue[i], c)
             /\ Cardinality(Decision(i).gpus \cup UNION {c.gpus \cap usable : c \in stopped}) >= queue[i].gpus
    BY DEF StuckOnce, StopsStartSomebody
  <1>7. StopsStartSomebody'
    <2> SUFFICES ASSUME NEW i \in Made', (Decision(i).preempts # {})'
                 PROVE  (LET stopped == {c \in Pool.preemptable : c.job \in Decision(i).preempts}
                             usable == Owned \cup (IF queue[i].borrows THEN Shared ELSE {})
                         IN /\ \A c \in stopped : Before(queue[i], c)
                            /\ Cardinality(Decision(i).gpus \cup UNION {c.gpus \cap usable : c \in stopped}) >= queue[i].gpus
                            /\ \A k \in Made \ {i} : Decision(k).preempts = {}
                            /\ \A k \in Made : k < i /\ Held(k) => Decision(k).gap = 0)'
      BY DEF StopsStartSomebody
    <2> HIDE DEF Pool
    <2>1. CASE i = p
      BY <1>1, <1>2, <1>5, <2>1 DEF StopsSuffice
    <2>2. CASE i \in Made
      <3>1. Decision(i).preempts # {} /\ Decision(i)' = Decision(i)
        BY <1>1, <2>2
      <3>2. /\ \A k \in Made' \ {i} : (Decision(k).preempts)' = {}
            /\ \A k \in Made' : k < i /\ Held(k)' => (Decision(k).gap)' = 0
        BY <1>4, <2>2, <3>1
      <3> DEFINE stopped == {c \in Pool.preemptable : c.job \in Decision(i).preempts}
                 usable == Owned \cup (IF queue[i].borrows THEN Shared ELSE {})
                 freed == UNION {c.gpus \cap usable : c \in stopped}
      <3>3. /\ \A c \in stopped : Before(queue[i], c)
            /\ Cardinality(Decision(i).gpus \cup freed) >= queue[i].gpus
        BY <1>6, <2>2, <3>1
      <3>4. stopped' = stopped /\ usable' = usable
        BY <1>1, <3>1
      <3> HIDE DEF stopped, usable
      <3>5. freed' = freed
        BY <3>4
      <3> HIDE DEF freed
      <3>6. (/\ \A c \in stopped : Before(queue[i], c)
             /\ Cardinality(Decision(i).gpus \cup freed) >= queue[i].gpus)'
        BY <1>1, <3>1, <3>3, <3>4, <3>5
      <3> QED
        BY <3>2, <3>6 DEF freed, stopped, usable
    <2> QED
      BY <1>1, <2>1, <2>2
  <1> QED
    BY <1>3, <1>7 DEF StuckOnce

\* When a job waits, there is no owned card left that nobody holds.
LEMMA WaitingStep ==
  ASSUME WalkType, WaitsForMore, WaitingGoFirst, NEW d, Steps(d), NEW p, p = Position
  PROVE  WaitingGoFirst'
  <1>1. Decides(d) /\ queue' = queue
    BY StepsDecideIt, DecisionsGrow
  <1>2. \A k \in Made : Held(k) /\ d.kind = "assigned" /\ ~This.fills => d.gpus \cap Owned = {}
    <2> SUFFICES ASSUME NEW k \in Made, Held(k), d.kind = "assigned", ~This.fills
                 PROVE  d.gpus \cap Owned = {}
      OBVIOUS
    <2>1. d.gpus \subseteq walk.ownedFree \cup walk.sharedFree /\ \A c \in d.gpus : walk.held[c] = 0
      BY DEF Steps, Passes, Gives, Holds
    <2>2. \A c \in walk.ownedFree : walk.held[c] # 0
      BY DEF WaitsForMore
    <2> QED
      BY <2>1, <2>2, PoolIs DEF WalkType, FreeShared
  <1>3. \A i \in Made : i < p /\ ~(p < i)
    <2>1. p \in Nat /\ \A i \in Made : i \in Nat /\ i < p
      BY <1>1, DecisionsGrow
    <2> QED
      BY <2>1
  <1>4. ~(p < p)
    BY <1>1, DecisionsGrow
  <1> QED
    BY <1>1, <1>2, <1>3, <1>4, DecisionsGrow DEF WaitingGoFirst

LEMMA InitWalk ==
  Init => WalkInv
  <1> SUFFICES ASSUME Init PROVE WalkInv
    OBVIOUS
  <1>1. /\ walk.ownedFree = FreeOwned /\ walk.sharedFree = FreeShared
        /\ walk.held = [c \in Owned \cup Shared |-> 0] /\ walk.covered = {} /\ walk.stuck = FALSE
        /\ walk.decisions = <<>>
    BY DEF Init, Start
  <1>2. Made = {}
    BY <1>1 DEF Made
  <1>3. queue \in Queues /\ queue \in Seq(Request)
    BY QueuesAssumption DEF Init
  <1>4. walk \in [ownedFree : SUBSET FreeOwned, sharedFree : SUBSET FreeShared,
                  held : [Owned \cup Shared -> Nat], covered : SUBSET (Nat \ {0}),
                  stuck : BOOLEAN, decisions : Seq(Decisions)]
    BY DEF Init, Start
  <1>5. Len(walk.decisions) <= Len(queue)
    BY <1>1, <1>3
  <1>6. WalkType
    BY <1>2, <1>3, <1>4, <1>5 DEF WalkType, Init
  <1>7. OfferIs /\ HeldIs
    BY <1>1, <1>2 DEF OfferIs, HeldIs
  <1> QED
    BY <1>2, <1>6, <1>7 DEF WalkInv, WaitsForMore, GivenOnce, HeldInOrder, BorrowsOnlyTheShortfall,
       StuckOnce, StopsStartSomebody, WaitingGoFirst

LEMMA WalkStep ==
  ASSUME WalkInv, [Next]_vars
  PROVE  WalkInv'
  <1> USE DEF WalkInv
  <1>1. CASE UNCHANGED vars
    <2>1. queue' = queue /\ on' = on /\ walk' = walk
      BY <1>1 DEF vars
    <2>2. WalkType'
      BY <2>1 DEF WalkType, FreeOwned, FreeShared, Made, Decision
    <2>3. OfferIs' /\ HeldIs'
      BY <2>1 DEF OfferIs, HeldIs, FreeOwned, Made, Decision, Assigned, Held, Covered
    <2>4. WaitsForMore'
      <3>1. \A k : TakenAhead(k)' = TakenAhead(k)
        BY <2>1 DEF TakenAhead, Made, Decision, Assigned
      <3>2. FreeOwned' = FreeOwned
        BY <2>1 DEF FreeOwned
      <3> QED
        BY <2>1, <3>1, <3>2 DEF WaitsForMore, Made, Decision, Held
    <2>5. (\A i \in Made : DecisionFits(i))' /\ GivenOnce'
      BY <2>1 DEF DecisionFits, GivenOnce, Pool, FreeOwned, FreeShared, Made, Decision, Assigned, Held
    <2>6. HeldInOrder' /\ BorrowsOnlyTheShortfall' /\ WaitingGoFirst'
      BY <2>1 DEF HeldInOrder, BorrowsOnlyTheShortfall, WaitingGoFirst, FreeOwned, Made, Decision, Assigned, Held, Covered
    <2>7. StuckOnce'
      BY <2>1 DEF StuckOnce, StopsStartSomebody, Pool, Made, Decision, Held
    <2> QED
      BY <2>2, <2>3, <2>4, <2>5, <2>6, <2>7
  <1>2. ASSUME NEW d, Steps(d) PROVE WalkInv'
    <2>1. PICK p : p = Position
      OBVIOUS
    <2>2. WalkType' /\ OfferIs' /\ HeldIs' /\ WaitsForMore'
      BY <1>2, <2>1, TypeStep, OfferStep, HeldStep, WaitsStep
    <2>3. (\A i \in Made : DecisionFits(i))' /\ GivenOnce' /\ HeldInOrder'
      BY <1>2, <2>1, FitsStep, GivenStep, InOrderStep
    <2>4. BorrowsOnlyTheShortfall' /\ StuckOnce' /\ WaitingGoFirst'
      BY <1>2, <2>1, BorrowStep, StuckStep, WaitingStep
    <2> QED
      BY <2>2, <2>3, <2>4
  <1> QED
    BY <1>1, <1>2, StepsDecide DEF Steps

LEMMA WalkInvariant ==
  Spec => []WalkInv
  BY InitWalk, WalkStep, PTL DEF Spec

-----------------------------------------------------------------------------
\* What the walk promises.

\* plan and _take: a job that is assigned cards gets as many as it asked for, free
\* ones, which nobody else gets, and shared ones only if it may borrow.
THEOREM CardsGivenOnce ==
  Spec => []GivenOnce
  <1>1. WalkInv => GivenOnce
    BY DEF WalkInv
  <1> QED
    BY <1>1, WalkInvariant, PTL

\* plan's first rule: a card held for a waiting job goes to nobody behind it, but to a
\* filler while that job is not covered.
THEOREM HeldStaysHeld ==
  Spec => []HeldInOrder
  <1>1. WalkInv => HeldInOrder
    BY DEF WalkInv
  <1> QED
    BY <1>1, WalkInvariant, PTL

\* Owned cards first: nothing is lent while an owned card is neither given nor held.
THEOREM OwnedBeforeLent ==
  Spec => []BorrowsOnlyTheShortfall
  <1>1. WalkInv => BorrowsOnlyTheShortfall
    BY DEF WalkInv
  <1> QED
    BY <1>1, WalkInvariant, PTL

\* enough_to_start: nobody is stopped but for one job, the first that is short, which
\* sorts before them all and can start on what they give up.
THEOREM StopsAreForOne ==
  Spec => []StopsStartSomebody
  <1>1. WalkInv => StopsStartSomebody
    BY DEF WalkInv, StuckOnce
  <1> QED
    BY <1>1, WalkInvariant, PTL

LEMMA ContractKept ==
  ASSUME WalkInv
  PROVE  KeepsContract
  <1> SUFFICES ASSUME Done, \A i \in DOMAIN queue : ~queue[i].borrows
               PROVE  Keeps({queue[i] : i \in DOMAIN queue},
                            {[job |-> Decision(i).job, gpus |-> Decision(i).gpus] : i \in {k \in Made : Assigned(k)}},
                            FreeOwned, Cardinality(Owned),
                            [j \in {queue[i].job : i \in DOMAIN queue} |->
                               (CHOOSE q \in {queue[i] : i \in DOMAIN queue} : q.job = j).gpus],
                            {queue[i].job : i \in {k \in DOMAIN queue : queue[k].fills}})
    BY DEF KeepsContract
  <1> USE DEF WalkInv
  <1> DEFINE at == DOMAIN queue
             rs == {queue[i] : i \in at}
             given == {k \in Made : Assigned(k)}
             ds == {[job |-> Decision(i).job, gpus |-> Decision(i).gpus] : i \in given}
             wants == [j \in {queue[i].job : i \in at} |-> (CHOOSE q \in rs : q.job = j).gpus]
             fills == {queue[i].job : i \in {k \in at : queue[k].fills}}
             Fits(q) == wants[q.job] <= Cardinality(Owned)
             Given(q) == \E d \in ds : d.job = q.job
             TakenBefore(q) == UNION {d.gpus : d \in {e \in ds : \E k \in rs : k.job = e.job /\ Before(k, q)}}
             Waiting == {q \in rs : Fits(q) /\ ~Given(q)}
  <1>1. Made = at /\ at \subseteq Nat /\ \A i \in at : queue[i] \in Request
    <2>1. queue \in Seq(Request) /\ walk.decisions \in Seq(Decisions) /\ Len(walk.decisions) <= Len(queue)
      BY QueuesAssumption DEF WalkType
    <2>2. Len(walk.decisions) + 1 > Len(queue)
      BY DEF Done, Position
    <2>3. Len(walk.decisions) = Len(queue)
      BY <2>1, <2>2
    <2> QED
      BY <2>1, <2>3 DEF Made
  <1>2. \A i, k \in at : (queue[i].job = queue[k].job => i = k) /\ (Before(queue[i], queue[k]) <=> i < k)
    <2>1. \A i, k \in at : i < k => queue[i].job # queue[k].job /\ Before(queue[i], queue[k])
      BY QueuesAssumption DEF WalkType
    <2>2. \A i, k \in at : i < k \/ i = k \/ k < i
      BY <1>1
    <2>3. \A i, k \in at : Before(queue[i], queue[k]) => ~Before(queue[k], queue[i])
      BY <1>1 DEF Before, Request
    <2> QED
      BY <1>1, <2>1, <2>2, <2>3
  <1>3. \A i \in at : wants[queue[i].job] = queue[i].gpus /\ queue[i].gpus \in Nat
    <2> SUFFICES ASSUME NEW i \in at PROVE wants[queue[i].job] = queue[i].gpus /\ queue[i].gpus \in Nat
      OBVIOUS
    <2>1. (CHOOSE q \in rs : q.job = queue[i].job) = queue[i]
      <3>1. queue[i] \in rs
        OBVIOUS
      <3>2. \A q \in rs : q.job = queue[i].job => q = queue[i]
        BY <1>2
      <3> HIDE DEF rs
      <3> QED
        BY <3>1, <3>2
    <2> QED
      BY <1>1, <2>1 DEF Request
  <1>4. \A i \in at : Decision(i).job = queue[i].job /\ DecisionFits(i) /\ Decision(i) \in Decisions
    <2>1. \A i \in Made : Decision(i) \in Decisions
      BY DEF WalkType, Decision, Made
    <2> QED
      BY <1>1, <2>1 DEF WalkType
  <1>5. \A d \in ds : \E i \in at : Assigned(i) /\ d = [job |-> queue[i].job, gpus |-> Decision(i).gpus]
    BY <1>1, <1>4
  <1>6. \A i \in at : Assigned(i) => [job |-> queue[i].job, gpus |-> Decision(i).gpus] \in ds
    BY <1>1, <1>4
  <1>7. \A i \in at : Fits(queue[i]) <=> ~(Decision(i).kind = "fails")
    <2> SUFFICES ASSUME NEW i \in at PROVE Fits(queue[i]) <=> ~(Decision(i).kind = "fails")
      OBVIOUS
    <2>1. Decision(i).kind = "fails" <=> queue[i].gpus > Cardinality(Owned)
      <3>1. ~queue[i].borrows /\ Cardinality(Owned) \in Nat /\ Pool.owned = Owned
        BY PoolIs
      <3>2. CapacityFailure(Pool, queue[i]) <=> queue[i].gpus > Cardinality(Owned)
        BY <1>3, <3>1 DEF CapacityFailure
      <3> QED
        BY <1>4, <3>2 DEF DecisionFits
    <2> HIDE DEF wants
    <2> QED
      BY <1>3, <2>1, PoolIs
  <1> HIDE DEF wants, ds, fills, rs
  <1>8. \A i \in at : Given(queue[i]) <=> Assigned(i)
    <2> SUFFICES ASSUME NEW i \in at PROVE Given(queue[i]) <=> Assigned(i)
      OBVIOUS
    <2>1. ASSUME NEW d \in ds, d.job = queue[i].job PROVE Assigned(i)
      <3>1. PICK k \in at : Assigned(k) /\ d = [job |-> queue[k].job, gpus |-> Decision(k).gpus]
        BY <1>5
      <3>2. k = i
        BY <1>2, <2>1, <3>1
      <3> QED
        BY <3>1, <3>2
    <2>2. [job |-> queue[i].job, gpus |-> Decision(i).gpus].job = queue[i].job
      OBVIOUS
    <2> QED
      BY <1>6, <2>1, <2>2
  <1>9. \A i \in at : Fits(queue[i]) /\ ~Given(queue[i]) <=> Held(i)
    <2> SUFFICES ASSUME NEW i \in at PROVE Fits(queue[i]) /\ ~Given(queue[i]) <=> Held(i)
      OBVIOUS
    <2>1. Decision(i).kind = "stepped" => Decision(i).kind = "fails"
      <3>1. ~queue[i].borrows /\ Cardinality(Owned) \in Nat /\ Pool.owned = Owned
        BY PoolIs
      <3>2. Ours(Pool, queue[i]) = Cardinality(Owned) /\ (CapacityFailure(Pool, queue[i]) <=> queue[i].gpus > Cardinality(Owned))
        BY <1>3, <3>1 DEF CapacityFailure, Ours
      <3> QED
        BY <1>4, <3>2 DEF DecisionFits
    <2>2. Decision(i).kind \in {"fails", "assigned", "stepped", "holds"}
      BY <1>4 DEF Decisions
    <2> QED
      BY <1>7, <1>8, <2>1, <2>2 DEF Assigned, Held
  <1>10. \A k \in at : TakenBefore(queue[k]) = TakenAhead(k)
    <2> SUFFICES ASSUME NEW k \in at, NEW c
                 PROVE  c \in TakenBefore(queue[k]) <=> c \in TakenAhead(k)
      BY DEF TakenAhead
    <2>1. c \in TakenAhead(k) <=> \E l \in at : l < k /\ Assigned(l) /\ c \in Decision(l).gpus
      BY <1>1 DEF TakenAhead
    <2>2. c \in TakenBefore(queue[k]) <=>
            \E e \in ds : c \in e.gpus /\ \E q \in rs : q.job = e.job /\ Before(q, queue[k])
      OBVIOUS
    <2>3. \A e \in ds : (\E q \in rs : q.job = e.job /\ Before(q, queue[k])) <=>
                        \E l \in at : l < k /\ queue[l].job = e.job
      BY <1>2 DEF rs
    <2>4. ASSUME NEW e \in ds, c \in e.gpus, NEW l \in at, l < k, queue[l].job = e.job
          PROVE  c \in TakenAhead(k)
      <3>1. PICK i \in at : Assigned(i) /\ e = [job |-> queue[i].job, gpus |-> Decision(i).gpus]
        BY <1>5
      <3>2. l = i
        BY <1>2, <2>4, <3>1
      <3> QED
        BY <2>1, <2>4, <3>1, <3>2
    <2>5. ASSUME NEW l \in at, l < k, Assigned(l), c \in Decision(l).gpus
          PROVE  c \in TakenBefore(queue[k])
      <3> DEFINE e == [job |-> queue[l].job, gpus |-> Decision(l).gpus]
      <3>1. e \in ds /\ c \in e.gpus /\ queue[l].job = e.job
        BY <1>6, <2>5
      <3> HIDE DEF e
      <3> QED
        BY <2>2, <2>3, <2>5, <3>1
    <2>6. c \in TakenBefore(queue[k]) => c \in TakenAhead(k)
      BY <2>2, <2>3, <2>4
    <2>7. c \in TakenAhead(k) => c \in TakenBefore(queue[k])
      BY <2>1, <2>5
    <2> QED
      BY <2>6, <2>7
  <1>11. \A d \in ds : /\ \E q \in rs : q.job = d.job /\ Fits(q)
                       /\ d.gpus \subseteq FreeOwned
                       /\ Cardinality(d.gpus) = wants[d.job]
    <2> SUFFICES ASSUME NEW d \in ds
                 PROVE  /\ \E q \in rs : q.job = d.job /\ Fits(q)
                        /\ d.gpus \subseteq FreeOwned
                        /\ Cardinality(d.gpus) = wants[d.job]
      OBVIOUS
    <2>1. PICK i \in at : Assigned(i) /\ d = [job |-> queue[i].job, gpus |-> Decision(i).gpus]
      BY <1>5
    <2>2. queue[i] \in rs /\ queue[i].job = d.job /\ Fits(queue[i])
      BY <1>7, <2>1 DEF Assigned, rs
    <2> QED
      BY <1>3, <1>4, <2>1, <2>2 DEF DecisionFits
  <1>12. \A d, e \in ds : d # e => d.job # e.job /\ d.gpus \cap e.gpus = {}
    <2> SUFFICES ASSUME NEW d \in ds, NEW e \in ds, d # e
                 PROVE  d.job # e.job /\ d.gpus \cap e.gpus = {}
      OBVIOUS
    <2>1. PICK i \in at : Assigned(i) /\ d = [job |-> queue[i].job, gpus |-> Decision(i).gpus]
      BY <1>5
    <2>2. PICK k \in at : Assigned(k) /\ e = [job |-> queue[k].job, gpus |-> Decision(k).gpus]
      BY <1>5
    <2> QED
      BY <1>1, <1>2, <2>1, <2>2 DEF GivenOnce
  <1>13. \A q \in Waiting : \E k \in Waiting :
            (k = q \/ Before(k, q)) /\ wants[k.job] > Cardinality(FreeOwned \ TakenBefore(k))
    <2> SUFFICES ASSUME NEW q \in Waiting
                 PROVE  \E k \in Waiting :
                          (k = q \/ Before(k, q)) /\ wants[k.job] > Cardinality(FreeOwned \ TakenBefore(k))
      OBVIOUS
    <2>1. PICK i \in at : q = queue[i]
      BY DEF rs
    <2>2. PICK k \in at : k <= i /\ Held(k) /\ queue[k].gpus > Cardinality(FreeOwned \ TakenAhead(k))
      BY <1>1, <1>9, <2>1 DEF WaitsForMore
    <2>3. queue[k] \in Waiting
      BY <1>9, <2>2 DEF rs
    <2>4. queue[k] = q \/ Before(queue[k], q)
      <3>1. k = i \/ k < i
        BY <1>1, <2>2
      <3> QED
        BY <1>2, <2>1, <3>1
    <2>5. wants[queue[k].job] > Cardinality(FreeOwned \ TakenBefore(queue[k]))
      BY <1>3, <1>10, <2>2
    <2> QED
      BY <2>3, <2>4, <2>5
  <1>14. \A q \in Waiting, k \in rs :
            Given(k) /\ wants[k.job] > 0 /\ k.job \notin fills => Before(k, q)
    <2> SUFFICES ASSUME NEW q \in Waiting, NEW k \in rs, Given(k), wants[k.job] > 0, k.job \notin fills
                 PROVE  Before(k, q)
      OBVIOUS
    <2>1. PICK i \in at : q = queue[i] /\ Held(i)
      BY <1>9 DEF rs
    <2>2. PICK l \in at : k = queue[l] /\ Assigned(l)
      BY <1>8 DEF rs
    <2>3. ~queue[l].fills
      BY <2>2 DEF fills
    <2>4. Decision(l).gpus # {}
      <3>1. Cardinality(Decision(l).gpus) = queue[l].gpus /\ queue[l].gpus > 0
        BY <1>3, <1>4, <2>2 DEF DecisionFits
      <3> QED
        BY <1>3, <3>1, FS_EmptySet
    <2>5. Decision(l).gpus \subseteq Owned
      BY <1>4, <2>2 DEF DecisionFits, FreeOwned
    <2>6. ~(i < l)
      BY <1>1, <2>1, <2>2, <2>3, <2>4, <2>5 DEF WaitingGoFirst
    <2>7. i # l
      BY <2>1, <2>2 DEF Held, Assigned
    <2>8. l < i
      BY <1>1, <2>6, <2>7
    <2> QED
      BY <1>2, <2>1, <2>2, <2>8
  <1> QED
    BY <1>11, <1>12, <1>13, <1>14 DEF Keeps, rs, ds, wants, fills

\* What HostQueue takes of the rule: with no borrower in the queue, what a whole walk
\* assigns is what PlanContract allows.
THEOREM ContractIsKept ==
  Spec => []KeepsContract
  BY ContractKept, WalkInvariant, PTL
=============================================================================

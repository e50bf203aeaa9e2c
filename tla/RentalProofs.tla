---------------------------- MODULE RentalProofs ----------------------------
(***************************************************************************)
(* What a rent pays for, what a terminate spares and what the registry     *)
(* keeps, for every set of pods and every number of offers.                *)
(***************************************************************************)
EXTENDS Rental, TLAPS

PodState == [status : {"none", "late", "gone"} \cup Alive, bought : BOOLEAN,
             calls : Names \cup {None}, dispatcher : BOOLEAN, work : BOOLEAN]

\* A pod that was made, by whomever, never becomes unmade; one that is gone
\* stays gone.
Made(p) == pod[p].status \notin {"none", "late"}
Bills(p) == pod[p].bought /\ pod[p].status \in Alive \cup {"late"}

\* Only a pod that answers has work, and only one that was made, or is still being
\* made, was bought.
PodsSound ==
  \A p \in Pods : /\ pod[p].work => pod[p].status = "ready"
                  /\ pod[p].status = "none" => ~pod[p].bought

\* A rent has a pod in hand between buying and settling it; a pod that it got
\* beyond the sweep for was made.
InHand ==
  /\ rent.pc \in {"off", "offer", "over"} => rent.pod = None
  /\ rent.pc \notin {"off", "offer", "over"} => rent.pod \in Pods
  /\ rent.pc \notin {"off", "offer", "over", "sweep"} => Made(rent.pod)
  /\ rent.pc = "sweep" => rent.swept
  /\ rent.got # None => rent.pc = "over"

\* What was bought and may bill is in hand, handed back or named.
BillKnown == \A p \in Pods : Bills(p) => p \in rent.billing \cup {rent.got, rent.pod}

\* What is registered was made, and what is about to be forgotten is gone.
EntriesSound ==
  /\ \A n \in Names : registry[n] # None => Made(registry[n])
  /\ \A c \in Commands, e \in Names \X Pods : e \in drop[c] => pod[e[2]].status = "gone"

\* A terminate has a pod that was made; gone is what it read of one that is.
TermSound ==
  /\ term.pc # "off" => term.pod \in Pods /\ Made(term.pod)
  /\ term.pc # "off" /\ term.seen = "gone" => pod[term.pod].status = "gone"

\* Work that it found and that nobody else ended is still there until the call,
\* and only --force gets past it.
WorkKnown ==
  /\ term.pc = "off" => ~term.had
  /\ term.pc \in {"inspect", "get", "call"} /\ term.had => pod[term.pod].work
  /\ term.pc \in {"get", "call", "confirm"} /\ ~term.force => ~term.had

RentalInv == TypeOK /\ PodsSound /\ InHand /\ EntriesSound /\ TermSound /\ WorkKnown

-----------------------------------------------------------------------------
\* Pods.

\* What no step does to a pod.
PodsGoOn ==
  /\ pod' \in [Pods -> PodState] /\ PodsSound'
  /\ \A p \in Pods : /\ Made(p) => Made(p)'
                     /\ pod[p].status = "gone" => pod'[p].status = "gone"

\* One pod changes, into a state a pod can be in.
LEMMA OnePodGoesOn ==
  ASSUME TypeOK, PodsSound, NEW p \in Pods, pod' \in [Pods -> PodState],
         \A q \in Pods \ {p} : pod'[q] = pod[q],
         Made(p) => Made(p)',
         pod[p].status = "gone" => pod'[p].status = "gone",
         pod'[p].work => pod'[p].status = "ready",
         pod'[p].status = "none" => ~pod'[p].bought
  PROVE  PodsGoOn
  BY DEF PodsGoOn, PodsSound, Made

LEMMA PodSetTo ==
  ASSUME pod \in [Pods -> PodState], NEW p \in Pods, NEW s \in {"none", "late", "gone"} \cup Alive,
         NEW w \in BOOLEAN, NEW d \in BOOLEAN,
         pod' = [pod EXCEPT ![p].status = s, ![p].work = w, ![p].dispatcher = d]
  PROVE  /\ pod' \in [Pods -> PodState] /\ \A q \in Pods \ {p} : pod'[q] = pod[q]
         /\ pod'[p].status = s /\ pod'[p].work = w /\ pod'[p].bought = pod[p].bought
  BY DEF PodState

LEMMA TerminatingGoesOn ==
  ASSUME TypeOK, PodsSound, NEW p \in Pods, Terminating(p)
  PROVE  /\ PodsGoOn /\ ~pod'[p].work /\ \A q \in Pods \ {p} : pod'[q] = pod[q]
         /\ pod'[p].bought = pod[p].bought
         /\ pod'[p].status = IF pod[p].status \in Alive THEN "ending" ELSE pod[p].status
  <1> DEFINE s == IF pod[p].status \in Alive THEN "ending" ELSE pod[p].status
  <1>1. pod \in [Pods -> PodState]
    BY DEF TypeOK, PodState
  <1>2. s \in {"none", "late", "gone"} \cup Alive
    BY <1>1 DEF PodState, Alive
  <1>3. pod' = [pod EXCEPT ![p].status = s, ![p].work = FALSE, ![p].dispatcher = FALSE]
    BY DEF Terminating
  <1>4. pod[p].status = "none" => ~pod[p].bought
    BY DEF PodsSound
  <1>5. Made(p) <=> s \notin {"none", "late"}
    BY <1>1 DEF Made, PodState, Alive
  <1>6. (pod[p].status = "gone" => s = "gone") /\ (s = "none" => pod[p].status = "none")
    BY DEF Alive
  <1> HIDE DEF s
  <1>7. /\ pod' \in [Pods -> PodState] /\ \A q \in Pods \ {p} : pod'[q] = pod[q]
        /\ pod'[p].status = s /\ pod'[p].work = FALSE /\ pod'[p].bought = pod[p].bought
    BY <1>1, <1>2, <1>3, PodSetTo
  <1>8. Made(p)' <=> s \notin {"none", "late"}
    BY <1>7 DEF Made
  <1> QED
    BY <1>4, <1>5, <1>6, <1>7, <1>8, OnePodGoesOn DEF s

LEMMA BecomesGoesOn ==
  ASSUME TypeOK, PodsSound, NEW p \in Pods, NEW from, NEW to \in Alive \cup {"gone"},
         "none" \notin from, "gone" \notin from, Becomes(p, from, to)
  PROVE  /\ PodsGoOn /\ \A q \in Pods \ {p} : pod'[q] = pod[q]
         /\ pod[p].status \in from /\ pod'[p].status = to /\ pod'[p].bought = pod[p].bought
  <1> DEFINE w == pod[p].work /\ to = "ready"
             d == pod[p].dispatcher /\ to = "ready"
  <1>1. pod \in [Pods -> PodState]
    BY DEF TypeOK, PodState
  <1>2. w \in BOOLEAN /\ d \in BOOLEAN /\ (w => to = "ready")
    OBVIOUS
  <1>3. /\ pod' = [pod EXCEPT ![p].status = to, ![p].work = w, ![p].dispatcher = d]
        /\ pod[p].status \in from
    BY DEF Becomes
  <1>4. to # "none" /\ to # "late"
    BY DEF Alive
  <1> HIDE DEF w, d
  <1>5. /\ pod' \in [Pods -> PodState] /\ \A q \in Pods \ {p} : pod'[q] = pod[q]
        /\ pod'[p].status = to /\ pod'[p].work = w /\ pod'[p].bought = pod[p].bought
    BY <1>1, <1>2, <1>3, PodSetTo
  <1> QED
    BY <1>2, <1>3, <1>4, <1>5, OnePodGoesOn DEF Made

LEMMA PodBought ==
  ASSUME pod \in [Pods -> PodState], NEW p \in Pods, NEW s \in {"none", "late", "gone"} \cup Alive,
         NEW b \in BOOLEAN, pod' = [pod EXCEPT ![p].status = s, ![p].bought = b]
  PROVE  /\ pod' \in [Pods -> PodState] /\ \A q \in Pods \ {p} : pod'[q] = pod[q]
         /\ pod'[p].status = s /\ pod'[p].bought = b /\ pod'[p].work = pod[p].work
  BY DEF PodState

\* No step unmakes a pod, brings one back, or leaves work where nothing answers.
LEMMA PodStep ==
  ASSUME RentalInv, [Next]_vars
  PROVE  PodsGoOn
  <1>1. /\ TypeOK /\ PodsSound /\ pod \in [Pods -> PodState]
        /\ rent.pc \notin {"off", "offer", "over"} => rent.pod \in Pods
        /\ term.pc # "off" => term.pod \in Pods
    BY DEF RentalInv, TypeOK, PodState, InHand, TermSound
  <1>2. CASE pod' = pod
    BY <1>1, <1>2 DEF PodsGoOn, PodsSound, Made
  <1>3. ASSUME NEW p \in Pods, Create(p)
        PROVE  PodsGoOn
    <2>1. CASE pod' = pod
      BY <1>2, <2>1
    <2>2. ASSUME NEW s \in {"none", "late", "starting"}, NEW b \in BOOLEAN, b = (s # "none"),
                 pod' = [pod EXCEPT ![p].status = s, ![p].bought = b]
          PROVE  PodsGoOn
      <3>1. pod[p].status = "none"
        BY <1>3 DEF Create, IsFresh, Unmade
      <3>2. /\ pod' \in [Pods -> PodState] /\ \A q \in Pods \ {p} : pod'[q] = pod[q]
            /\ pod'[p].status = s /\ pod'[p].bought = b /\ pod'[p].work = pod[p].work
        <4>1. s \in {"none", "late", "gone"} \cup Alive
          BY DEF Alive
        <4>2. pod' = [pod EXCEPT ![p].status = s, ![p].bought = b]
          BY <2>2
        <4> QED
          BY <1>1, <4>1, <4>2, PodBought
      <3>3. ~pod[p].work
        BY <1>1, <3>1 DEF PodsSound
      <3> QED
        BY <1>1, <2>2, <3>1, <3>2, <3>3, OnePodGoesOn DEF Made
    <2>3. \/ pod' = pod
          \/ pod' = [pod EXCEPT ![p].status = "starting", ![p].bought = TRUE]
          \/ \E s \in {"none", "late", "starting"} :
               pod' = [pod EXCEPT ![p].status = s, ![p].bought = s # "none"]
      BY <1>3 DEF Create
    <2>4. CASE pod' = [pod EXCEPT ![p].status = "starting", ![p].bought = TRUE]
      BY <2>2, <2>4
    <2>5. CASE \E s \in {"none", "late", "starting"} :
                 pod' = [pod EXCEPT ![p].status = s, ![p].bought = s # "none"]
      <3>1. PICK s \in {"none", "late", "starting"} :
              pod' = [pod EXCEPT ![p].status = s, ![p].bought = s # "none"]
        BY <2>5
      <3>2. PICK b \in BOOLEAN : b = (s # "none")
        OBVIOUS
      <3> QED
        BY <2>2, <3>1, <3>2
    <2> QED
      BY <2>1, <2>3, <2>4, <2>5
  <1>4. ASSUME NEW p \in Pods, NEW n \in Names, pod' = [pod EXCEPT ![p].calls = n]
        PROVE  PodsGoOn
    <2>1. /\ pod' \in [Pods -> PodState] /\ \A q \in Pods \ {p} : pod'[q] = pod[q]
          /\ pod'[p].status = pod[p].status /\ pod'[p].bought = pod[p].bought
          /\ pod'[p].work = pod[p].work
      BY <1>1, <1>4 DEF PodState
    <2> QED
      BY <1>1, <2>1, OnePodGoesOn DEF Made, PodsSound
  <1>5. ASSUME NEW p \in Pods, pod' = [pod EXCEPT ![p].dispatcher = TRUE]
        PROVE  PodsGoOn
    <2>1. /\ pod' \in [Pods -> PodState] /\ \A q \in Pods \ {p} : pod'[q] = pod[q]
          /\ pod'[p].status = pod[p].status /\ pod'[p].bought = pod[p].bought
          /\ pod'[p].work = pod[p].work
      BY <1>1, <1>5 DEF PodState
    <2> QED
      BY <1>1, <2>1, OnePodGoesOn DEF Made, PodsSound
  <1>6. ASSUME NEW p \in Pods, NEW w \in BOOLEAN, w => pod[p].status = "ready",
               pod' = [pod EXCEPT ![p].work = w]
        PROVE  PodsGoOn
    <2>1. /\ pod' \in [Pods -> PodState] /\ \A q \in Pods \ {p} : pod'[q] = pod[q]
          /\ pod'[p].status = pod[p].status /\ pod'[p].bought = pod[p].bought
          /\ pod'[p].work = w
      BY <1>1, <1>6 DEF PodState
    <2> QED
      BY <1>1, <1>6, <2>1, OnePodGoesOn DEF Made, PodsSound
  <1>7. ASSUME NEW p \in Pods, MadeByHand(p)
        PROVE  PodsGoOn
    <2>1. /\ pod' \in [Pods -> PodState] /\ \A q \in Pods \ {p} : pod'[q] = pod[q]
          /\ pod'[p].status = "ready" /\ pod[p].status = "none"
      BY <1>1, <1>7 DEF MadeByHand, IsFresh, Unmade, PodState, Alive
    <2> QED
      BY <1>1, <2>1, OnePodGoesOn DEF Made
  <1>8. ASSUME NEW p \in Pods, Lands(p) \/ Boots(p) \/ Exits(p) \/ Ends(p) \/ EndsByItself(p)
        PROVE  PodsGoOn
    BY <1>1, <1>8, BecomesGoesOn DEF Lands, Boots, Exits, Ends, EndsByItself, Alive
  <1>9. CASE AbandonCall \/ AbandonFails \/ TerminateCall \/ TerminateFails
    BY <1>1, <1>2, <1>9, TerminatingGoesOn DEF AbandonCall, AbandonFails, TerminateCall, TerminateFails
  <1>10. CASE Connect
    <2>1. PICK n \in Names : n = IF pod[rent.pod].calls = None THEN rent.pod ELSE pod[rent.pod].calls
      BY <1>1, <1>10 DEF Connect, PodState, Names
    <2> QED
      BY <1>1, <1>4, <1>10, <2>1 DEF Connect
  <1>11. ASSUME NEW p \in Pods, AddHost(p)
         PROVE  PodsGoOn
    <2>1. PICK n \in Names : n = IF pod[p].calls # None THEN pod[p].calls ELSE HandName
      BY <1>1 DEF PodState, Names
    <2> QED
      BY <1>4, <1>11, <2>1 DEF AddHost
  <1>12. CASE Bootstrap \/ \E p \in Pods : BootstrapHost(p)
    BY <1>1, <1>5, <1>12 DEF Bootstrap, BootstrapHost
  <1>13. CASE \E p \in Pods : Work(p) \/ WorkEnds(p)
    BY <1>6, <1>13 DEF Work, WorkEnds, MayAnswer
  <1>14. CASE \/ RentBegins \/ OffersOver \/ SweepFailedCreate \/ SweepOver \/ WaitForSsh \/ Register
              \/ Record \/ Fails \/ Abandoned \/ Interrupted \/ ForgetGoneRentals
              \/ (\E c \in Commands : ForgetHost(c)) \/ (\E n \in Names : RemoveHost(n))
              \/ Resolve \/ Inspect \/ GetPod \/ Terminated \/ UNCHANGED vars
    BY <1>2, <1>14
       DEF RentBegins, OffersOver, SweepFailedCreate, SweepOver, WaitForSsh, Register, Record, Fails,
           Abandoned, Interrupted, ForgetGoneRentals, ForgetHost, RemoveHost, Resolve, Inspect, GetPod,
           Terminated, vars
  <1> QED
    BY <1>3, <1>7, <1>8, <1>9, <1>10, <1>11, <1>12, <1>13, <1>14 DEF Next

-----------------------------------------------------------------------------
\* The rent.

RentPc == {"off", "offer", "sweep", "waiting", "connect", "register", "bootstrap",
           "record", "abandon", "confirm", "over"}
RentState == [pc : RentPc, pod : Pods \cup {None}, tried : 0..MaxOffers, listed : BOOLEAN,
              swept : BOOLEAN, then : {"offer", "over"}, billing : SUBSET Pods, got : Pods \cup {None}]

\* A rent in a state of its own.
SoundRent(r) ==
  /\ r \in RentState
  /\ r.pc \in {"off", "offer", "over"} => r.pod = None
  /\ r.pc \notin {"off", "offer", "over"} => r.pod \in Pods
  /\ r.pc = "sweep" => r.swept
  /\ r.got # None => r.pc = "over"

LEMMA GoesSound ==
  ASSUME NEW r \in RentState, NEW to \in {"offer", "over"}, r.got # None => to = "over"
  PROVE  SoundRent(Goes(r, to)) /\ Goes(r, to).billing = r.billing /\ Goes(r, to).got = r.got
         /\ Goes(r, to).pc = to
  BY DEF SoundRent, RentState, RentPc, Goes

LEMMA NamedSound ==
  ASSUME rent \in RentState, rent.pod \in Pods
  PROVE  Named \in RentState /\ Named.billing = rent.billing \cup {rent.pod} /\ Named.got = rent.got
  BY DEF Named, RentState

\* A rent that goes on with the pod it has.
LEMMA RentMoves ==
  ASSUME RentalInv, PodsGoOn, rent \in RentState, NEW pc \in RentPc \ {"off", "offer", "over", "sweep"},
         rent.pc \notin {"off", "offer", "over"}, rent.pc = "sweep" => Made(rent.pod),
         NEW then \in {"offer", "over"}, rent' = [rent EXCEPT !.pc = pc, !.then = then]
  PROVE  SoundRent(rent') /\ pod'[rent'.pod].status \notin {"none", "late"}
  <1>1. rent.pod \in Pods /\ Made(rent.pod) /\ rent.got = None
    BY DEF RentalInv, InHand
  <1>2. SoundRent(rent') /\ rent'.pod = rent.pod
    BY <1>1 DEF SoundRent, RentState, RentPc
  <1> QED
    BY <1>1, <1>2 DEF PodsGoOn, Made

LEMMA RentStep ==
  ASSUME RentalInv, PodsGoOn, [Next]_vars
  PROVE  rent' \in RentState /\ InHand'
  <1>1. /\ rent \in RentState /\ pod \in [Pods -> PodState] /\ RentalInv
        /\ None \notin Pods
    BY RentalAssumption DEF RentalInv, TypeOK, PodState, RentState, RentPc
  <1>2. CASE rent' = rent
    <2>1. \A p \in Pods : Made(p) => Made(p)'
      BY DEF PodsGoOn
    <2> QED
      BY <1>1, <1>2, <2>1 DEF RentalInv, InHand
  <1>3. ASSUME SoundRent(rent'),
               rent'.pc \notin {"off", "offer", "over", "sweep"} =>
                 pod'[rent'.pod].status \notin {"none", "late"}
        PROVE  rent' \in RentState /\ InHand'
    BY <1>3 DEF SoundRent, InHand, Made
  <1>4. ASSUME SoundRent(rent'), rent'.pc \in {"off", "offer", "over", "sweep"}
        PROVE  rent' \in RentState /\ InHand'
    BY <1>3, <1>4
  <1>5. ASSUME rent.pc \notin {"off", "offer", "over"}, rent.pc = "sweep" => Made(rent.pod),
               NEW pc \in RentPc \ {"off", "offer", "over", "sweep"},
               NEW then \in {"offer", "over"}, rent' = [rent EXCEPT !.pc = pc, !.then = then]
        PROVE  rent' \in RentState /\ InHand'
    BY <1>1, <1>3, <1>5, RentMoves
  <1>6. ASSUME NEW pc \in RentPc \ {"off", "offer", "over", "sweep"},
               rent.pc \notin {"off", "offer", "over"}, rent.pc = "sweep" => Made(rent.pod),
               rent' = [rent EXCEPT !.pc = pc]
        PROVE  rent' \in RentState /\ InHand'
    <2>1. rent' = [rent EXCEPT !.pc = pc, !.then = rent.then] /\ rent.then \in {"offer", "over"}
      BY <1>1, <1>6 DEF RentState
    <2> QED
      BY <1>5, <1>6, <2>1
  <1>7. CASE RentBegins \/ OffersOver
    <2>1. rent.pod = None /\ rent.got = None
      BY <1>7 DEF RentBegins, OffersOver, RentalInv, InHand
    <2>2. rent' = [rent EXCEPT !.pc = "over"] \/ rent' = [rent EXCEPT !.pc = "offer"]
      BY <1>7 DEF RentBegins, OffersOver
    <2>3. SoundRent(rent') /\ rent'.pc \in {"offer", "over"}
      BY <1>1, <2>1, <2>2 DEF SoundRent, RentState, RentPc
    <2> QED
      BY <1>4, <2>3
  <1>8. ASSUME NEW p \in Pods, Create(p)
        PROVE  rent' \in RentState /\ InHand'
    <2>1. /\ rent.pod = None /\ rent.got = None /\ rent.tried + 1 \in 0..MaxOffers /\ rent.pc = "offer"
      BY <1>1, <1>8, RentalAssumption DEF Create, RentalInv, InHand, RentState
    <2>2. CASE /\ pod' = [pod EXCEPT ![p].status = "starting", ![p].bought = TRUE]
               /\ rent' = [rent EXCEPT !.pc = "waiting", !.pod = p, !.tried = @ + 1, !.swept = FALSE]
      <3>1. pod'[p].status \notin {"none", "late"}
        BY <1>1, <2>2 DEF PodState
      <3>2. SoundRent(rent') /\ rent'.pod = p
        BY <1>1, <2>1, <2>2 DEF SoundRent, RentState, RentPc
      <3> QED
        BY <1>3, <3>1, <3>2
    <2>3. CASE rent' = [rent EXCEPT !.tried = @ + 1]
      <3>1. SoundRent(rent') /\ rent'.pc = "offer"
        BY <1>1, <2>1, <2>3 DEF SoundRent, RentState, RentPc
      <3> QED
        BY <1>4, <3>1
    <2>4. CASE \E then \in {"offer", "over"} :
                 rent' = [rent EXCEPT !.pc = "sweep", !.pod = p, !.tried = @ + 1, !.swept = TRUE,
                                      !.listed = FALSE, !.then = then]
      <3>1. SoundRent(rent') /\ rent'.pc = "sweep"
        BY <1>1, <2>1, <2>4 DEF SoundRent, RentState, RentPc
      <3> QED
        BY <1>4, <3>1
    <2> QED
      BY <1>8, <2>2, <2>3, <2>4 DEF Create
  <1>9. CASE SweepFailedCreate
    <2>1. rent.pc = "sweep" /\ rent.pod \in Pods /\ rent.got = None /\ rent.swept
      BY <1>9 DEF SweepFailedCreate, RentalInv, InHand
    <2>2. CASE rent.pod \in ListOurs
      <3>1. Made(rent.pod) /\ rent' = [rent EXCEPT !.pc = "abandon"]
        BY <1>9, <2>2 DEF SweepFailedCreate, ListOurs, IsGone, Made
      <3> QED
        BY <1>6, <2>1, <3>1 DEF RentPc
    <2>3. CASE rent.pod \notin ListOurs
      <3>1. rent' = [rent EXCEPT !.listed = TRUE]
        BY <1>9, <2>3 DEF SweepFailedCreate
      <3>2. SoundRent(rent') /\ rent'.pc = "sweep"
        BY <1>1, <2>1, <3>1 DEF SoundRent, RentState, RentPc
      <3> QED
        BY <1>4, <3>2
    <2> QED
      BY <2>2, <2>3
  <1>10. CASE WaitForSsh \/ Connect \/ Register \/ Bootstrap \/ AbandonCall
    BY <1>6, <1>10 DEF WaitForSsh, Connect, Register, Bootstrap, AbandonCall, RentPc
  <1>11. CASE Fails
    BY <1>5, <1>11 DEF Fails, RentPc
  <1>12. CASE SweepOver \/ Interrupted \/ AbandonFails \/ Abandoned \/ Record
    <2>1. /\ rent.pc \notin {"off", "offer", "over"} /\ rent.pod \in Pods /\ rent.got = None
          /\ rent.then \in {"offer", "over"} /\ AfterFailure \in {"offer", "over"}
      BY <1>1, <1>12
         DEF SweepOver, Interrupted, AbandonFails, Abandoned, Record, RentalInv, InHand, AfterFailure, RentState
    <2>2. Named \in RentState /\ Named.got = None
      BY <1>1, <2>1, NamedSound
    <2>3. [rent EXCEPT !.got = rent.pod] \in RentState
      BY <1>1, <2>1 DEF RentState
    <2>4. PICK r \in RentState, to \in {"offer", "over"} : (r.got # None => to = "over") /\ rent' = Goes(r, to)
      <3>1. CASE SweepOver
        BY <1>1, <2>1, <2>2, <3>1 DEF SweepOver
      <3>2. CASE Interrupted
        BY <1>1, <2>1, <2>2, <3>2 DEF Interrupted
      <3>3. CASE AbandonFails
        BY <2>1, <2>2, <3>3 DEF AbandonFails
      <3>4. CASE Abandoned
        BY <1>1, <2>1, <3>4 DEF Abandoned
      <3>5. CASE Record
        BY <2>3, <3>5 DEF Record
      <3> QED
        BY <1>12, <3>1, <3>2, <3>3, <3>4, <3>5
    <2>5. SoundRent(rent') /\ rent'.pc = to
      BY <2>4, GoesSound
    <2> QED
      BY <1>4, <2>5
  <1>13. CASE \/ ForgetGoneRentals \/ (\E c \in Commands : ForgetHost(c)) \/ (\E n \in Names : RemoveHost(n))
              \/ (\E p \in Pods : \/ AddHost(p) \/ BootstrapHost(p) \/ MadeByHand(p)
                                  \/ Lands(p) \/ Boots(p) \/ Exits(p) \/ Ends(p) \/ EndsByItself(p)
                                  \/ Work(p) \/ WorkEnds(p))
              \/ Resolve \/ Inspect \/ GetPod \/ TerminateCall \/ TerminateFails \/ Terminated \/ UNCHANGED vars
    BY <1>2, <1>13
       DEF ForgetGoneRentals, ForgetHost, RemoveHost, AddHost, BootstrapHost, MadeByHand, Lands, Boots, Exits,
           Ends, EndsByItself, Becomes, Work, WorkEnds, Resolve, Inspect, GetPod, TerminateCall, TerminateFails,
           Terminated, vars
  <1> QED
    BY <1>7, <1>8, <1>9, <1>10, <1>11, <1>12, <1>13 DEF Next

-----------------------------------------------------------------------------
\* The registry, and what is about to be forgotten.

EntriesType == registry \in [Names -> Pods \cup {None}] /\ drop \in [Commands -> SUBSET (Names \X Pods)]

\* Entries that are given up, or given to a pod that was made; and nothing new to
\* forget but entries of pods that are gone.
LEMMA EntriesKept ==
  ASSUME RentalInv, PodsGoOn, EntriesType',
         \A n \in Names : registry'[n] \in {registry[n], None} \/ Made(registry'[n]),
         \A c \in Commands, e \in Names \X Pods : e \in drop'[c] => e \in drop[c] \/ pod[e[2]].status = "gone"
  PROVE  EntriesSound'
  <1>1. \A n \in Names : registry'[n] # None => registry'[n] \in Pods /\ pod'[registry'[n]].status \notin {"none", "late"}
    BY DEF RentalInv, EntriesSound, EntriesType, PodsGoOn, Made
  <1>2. \A e \in Names \X Pods : e[2] \in Pods
    OBVIOUS
  <1>3. \A c \in Commands, e \in Names \X Pods : e \in drop'[c] => pod'[e[2]].status = "gone"
    BY <1>2 DEF RentalInv, EntriesSound, PodsGoOn
  <1> QED
    BY <1>1, <1>3 DEF EntriesSound, Made

\* A pod that is made and that the provider does not have is gone.
LEMMA MadeAndGone ==
  ASSUME NEW p, Made(p), IsGone(p)
  PROVE  pod[p].status = "gone"
  BY DEF Made, IsGone

LEMMA GoneEntriesSound ==
  ASSUME RentalInv, NEW asked
  PROVE  /\ GoneEntries(asked) \in SUBSET (Names \X Pods)
         /\ \A e \in GoneEntries(asked) : pod[e[2]].status = "gone"
  <1>1. ASSUME NEW e \in GoneEntries(asked)
        PROVE  e \in Names \X Pods /\ pod[e[2]].status = "gone"
    <2>1. e \in Names \X Pods /\ registry[e[1]] = e[2] /\ IsGone(e[2])
      BY DEF GoneEntries
    <2>2. e[1] \in Names /\ e[2] \in Pods /\ e[2] # None
      BY <2>1, RentalAssumption
    <2>3. Made(e[2])
      BY <2>1, <2>2 DEF RentalInv, EntriesSound
    <2> QED
      BY <2>1, <2>3, MadeAndGone
  <1> QED
    BY <1>1

LEMMA ForgettingSound ==
  ASSUME RentalInv, term.pc # "off", pod[term.pod].status = "gone", Forgetting
  PROVE  /\ drop' \in [Commands -> SUBSET (Names \X Pods)]
         /\ \A c \in Commands, e \in Names \X Pods : e \in drop'[c] => e \in drop[c] \/ pod[e[2]].status = "gone"
  <1>1. drop' = [drop EXCEPT !["terminate"] = {<<term.name, term.pod>>} \cap (Names \X Pods)]
        /\ drop \in [Commands -> SUBSET (Names \X Pods)]
    BY DEF Forgetting, RentalInv, TypeOK
  <1>2. \A e \in {<<term.name, term.pod>>} \cap (Names \X Pods) : pod[e[2]].status = "gone"
    OBVIOUS
  <1>3. {<<term.name, term.pod>>} \cap (Names \X Pods) \in SUBSET (Names \X Pods)
    OBVIOUS
  <1> QED
    BY <1>1, <1>2, <1>3

LEMMA EntriesStep ==
  ASSUME RentalInv, PodsGoOn, [Next]_vars
  PROVE  EntriesType' /\ EntriesSound'
  <1>1. /\ EntriesType /\ rent \in RentState /\ pod \in [Pods -> PodState] /\ None \notin Pods
    BY RentalAssumption DEF RentalInv, TypeOK, EntriesType, PodState, RentState, RentPc
  <1>2. CASE UNCHANGED <<registry, drop>>
    BY <1>1, <1>2, EntriesKept DEF EntriesType
  <1>3. ASSUME drop' = drop, NEW n, NEW p \in Pods \cup {None}, p = None \/ Made(p),
               registry' = [registry EXCEPT ![n] = p]
        PROVE  EntriesType' /\ EntriesSound'
    <2>1. EntriesType' /\ \A m \in Names : registry'[m] \in {registry[m], p}
      BY <1>1, <1>3 DEF EntriesType
    <2> QED
      BY <1>3, <2>1, EntriesKept
  <1>4. ASSUME registry' = registry, drop' \in [Commands -> SUBSET (Names \X Pods)],
               \A c \in Commands, e \in Names \X Pods : e \in drop'[c] => e \in drop[c] \/ pod[e[2]].status = "gone"
        PROVE  EntriesType' /\ EntriesSound'
    BY <1>1, <1>4, EntriesKept DEF EntriesType
  <1>5. ASSUME registry' = registry, NEW c \in Commands, NEW es \in SUBSET (Names \X Pods),
               \A e \in es : pod[e[2]].status = "gone", drop' = [drop EXCEPT ![c] = es]
        PROVE  EntriesType' /\ EntriesSound'
    <2>1. drop' \in [Commands -> SUBSET (Names \X Pods)] /\ \A d \in Commands : drop'[d] \in {drop[d], es}
      BY <1>1, <1>5 DEF EntriesType
    <2> QED
      BY <1>4, <1>5, <2>1
  <1>6. ASSUME NEW c \in Commands, ForgetHost(c)
        PROVE  EntriesType' /\ EntriesSound'
    <2>1. PICK e \in drop[c] :
            /\ drop' = [drop EXCEPT ![c] = drop[c] \ {e}]
            /\ registry' \in {registry, [registry EXCEPT ![e[1]] = None]}
      BY <1>1, <1>6 DEF ForgetHost, EntriesType
    <2>2. EntriesType' /\ \A d \in Commands : drop'[d] \subseteq drop[d]
      BY <1>1, <2>1 DEF EntriesType
    <2>3. \A n \in Names : registry'[n] \in {registry[n], None}
      BY <1>1, <2>1 DEF EntriesType
    <2> QED
      BY <2>2, <2>3, EntriesKept
  <1>7. CASE ForgetGoneRentals \/ RentBegins
    <2>1. registry' = registry
      BY <1>7 DEF ForgetGoneRentals, RentBegins
    <2>5. PICK c \in Commands : \E asked : drop' = [drop EXCEPT ![c] = GoneEntries(asked)]
      <3>1. CASE ForgetGoneRentals
        BY <3>1 DEF ForgetGoneRentals, Commands
      <3>2. CASE RentBegins
        BY <3>2 DEF RentBegins, Commands
      <3> QED
        BY <1>7, <3>1, <3>2
    <2>2. PICK asked : drop' = [drop EXCEPT ![c] = GoneEntries(asked)]
      BY <2>5
    <2> DEFINE es == GoneEntries(asked)
    <2>3. es \in SUBSET (Names \X Pods) /\ \A e \in es : pod[e[2]].status = "gone"
      BY GoneEntriesSound
    <2>4. drop' = [drop EXCEPT ![c] = es]
      BY <2>2
    <2> HIDE DEF es
    <2> QED
      BY <1>5, <2>1, <2>3, <2>4
  <1>8. ASSUME NEW n \in Names, RemoveHost(n)
        PROVE  EntriesType' /\ EntriesSound'
    BY <1>3, <1>8 DEF RemoveHost
  <1>9. ASSUME NEW p \in Pods, AddHost(p)
        PROVE  EntriesType' /\ EntriesSound'
    <2>1. Made(p) /\ drop' = drop /\ \E n : registry' = [registry EXCEPT ![n] = p]
      BY <1>9 DEF AddHost, HasAddress, Made
    <2> QED
      BY <1>3, <2>1
  <1>10. CASE Register \/ Record
    <2>1. /\ drop' = drop /\ registry' = [registry EXCEPT ![pod[rent.pod].calls] = rent.pod]
          /\ rent.pod \in Pods /\ Made(rent.pod)
      BY <1>10 DEF Register, Record, RentalInv, InHand
    <2> QED
      BY <1>3, <2>1
  <1>11. CASE Abandoned
    <2>1. /\ rent.pod \in Pods /\ Made(rent.pod) /\ registry' = registry
          /\ drop' = [drop EXCEPT !["rent"] = {<<rent.pod, rent.pod>>}]
      BY <1>11 DEF Abandoned, RentalInv, InHand
    <2>2. pod[rent.pod].status = "gone"
      BY <1>11, <2>1, MadeAndGone DEF Abandoned
    <2>3. {<<rent.pod, rent.pod>>} \in SUBSET (Names \X Pods)
      BY <2>1 DEF Names
    <2> DEFINE es == {<<rent.pod, rent.pod>>}
    <2>4. drop' = [drop EXCEPT !["rent"] = es] /\ \A e \in es : pod[e[2]].status = "gone"
      BY <2>1, <2>2
    <2> HIDE DEF es
    <2>5. "rent" \in Commands
      BY DEF Commands
    <2> QED
      BY <1>5, <2>1, <2>3, <2>4, <2>5 DEF es
  <1>12. CASE GetPod \/ Terminated
    <2>1. registry' = registry /\ term.pc # "off" /\ term.pod \in Pods /\ Made(term.pod)
      BY <1>12 DEF GetPod, Terminated, RentalInv, TermSound
    <2>2. drop' = drop \/ (Forgetting /\ pod[term.pod].status = "gone")
      <3>1. CASE Terminated
        BY <2>1, <3>1, MadeAndGone DEF Terminated
      <3>2. CASE GetPod
        <4>1. PICK s \in IF term.seen = "unread" THEN {"unread", ReadPod} ELSE {term.seen} :
                IF s = "gone" THEN Forgetting ELSE UNCHANGED drop
          BY <3>2 DEF GetPod
        <4>2. s = "gone" => IsGone(term.pod) \/ pod[term.pod].status = "gone"
          BY <2>1, <4>1 DEF ReadPod, RentalInv, TermSound
        <4>3. s = "gone" => pod[term.pod].status = "gone"
          BY <2>1, <4>2, MadeAndGone
        <4> QED
          BY <4>1, <4>3
      <3> QED
        BY <1>12, <3>1, <3>2
    <2> QED
      BY <1>2, <1>4, <2>1, <2>2, ForgettingSound
  <1>13. CASE \/ (\E p \in Pods : Create(p)) \/ OffersOver \/ SweepFailedCreate \/ SweepOver \/ WaitForSsh
              \/ Connect \/ Bootstrap \/ Fails \/ AbandonCall \/ AbandonFails \/ Interrupted
              \/ (\E p \in Pods : \/ BootstrapHost(p) \/ MadeByHand(p)
                                  \/ Lands(p) \/ Boots(p) \/ Exits(p) \/ Ends(p) \/ EndsByItself(p)
                                  \/ Work(p) \/ WorkEnds(p))
              \/ Resolve \/ Inspect \/ TerminateCall \/ TerminateFails \/ UNCHANGED vars
    BY <1>2, <1>13
       DEF Create, OffersOver, SweepFailedCreate, SweepOver, WaitForSsh, Connect, Bootstrap, Fails, AbandonCall,
           AbandonFails, Interrupted, BootstrapHost, MadeByHand, Lands, Boots, Exits, Ends, EndsByItself,
           Becomes, Work, WorkEnds, Resolve, Inspect, TerminateCall, TerminateFails, vars
  <1> QED
    BY <1>6, <1>7, <1>8, <1>9, <1>10, <1>11, <1>12, <1>13 DEF Next

-----------------------------------------------------------------------------
\* The terminate.

TermState == [pc : {"off", "inspect", "get", "call", "confirm"}, pod : Pods \cup {None},
              name : Names \cup {None}, force : BOOLEAN, had : BOOLEAN,
              seen : {"unread", "gone", "there"}]

\* A terminate in hand is as it was, but for what others ended on its pod.
LEMMA TermKept ==
  ASSUME RentalInv, PodsGoOn, NEW had \in BOOLEAN, had => term.had,
         had /\ term.pc # "off" /\ pod[term.pod].work => pod'[term.pod].work,
         term' = [term EXCEPT !.had = had]
  PROVE  term' \in TermState /\ TermSound' /\ WorkKnown'
  <1>1. /\ term \in TermState /\ TermSound /\ WorkKnown
    BY DEF RentalInv, TypeOK, TermState
  <1>2. /\ term' \in TermState /\ term'.pc = term.pc /\ term'.pod = term.pod /\ term'.seen = term.seen
        /\ term'.force = term.force /\ term'.had = had
    BY <1>1 DEF TermState
  <1>3. term.pc # "off" => /\ term.pod \in Pods /\ pod'[term.pod].status \notin {"none", "late"}
                           /\ term.seen = "gone" => pod'[term.pod].status = "gone"
    BY <1>1 DEF TermSound, PodsGoOn, Made
  <1>4. TermSound'
    BY <1>2, <1>3 DEF TermSound, Made
  <1>5. WorkKnown'
    BY <1>1, <1>2 DEF WorkKnown
  <1> QED
    BY <1>2, <1>4, <1>5

LEMMA StillHadSound ==
  ASSUME RentalInv, PodsGoOn, StillHad
  PROVE  term' \in TermState /\ TermSound' /\ WorkKnown'
  <1> DEFINE had == term.had /\ pod'[term.pod].work
  <1>1. term' = [term EXCEPT !.had = had]
    BY DEF StillHad
  <1>2. had \in BOOLEAN /\ (had => term.had) /\ (had => pod'[term.pod].work)
    BY DEF RentalInv, TypeOK
  <1> HIDE DEF had
  <1> QED
    BY <1>1, <1>2, TermKept

LEMMA TermSame ==
  ASSUME RentalInv, PodsGoOn, term' = term,
         term.pc # "off" /\ pod[term.pod].work => pod'[term.pod].work
  PROVE  term' \in TermState /\ TermSound' /\ WorkKnown'
  <1>1. term.had \in BOOLEAN /\ term' = [term EXCEPT !.had = term.had]
    BY DEF RentalInv, TypeOK
  <1> QED
    BY <1>1, TermKept

LEMMA NoTermSound ==
  ASSUME term' = NoTerm
  PROVE  term' \in TermState /\ TermSound' /\ WorkKnown'
  <1>1. NoTerm \in TermState /\ NoTerm.pc = "off" /\ NoTerm.had = FALSE
    BY DEF NoTerm, TermState
  <1> QED
    BY <1>1 DEF TermSound, WorkKnown

\* A terminate that moves on past what it found.
LEMMA TermMoves ==
  ASSUME RentalInv, PodsGoOn, term.pc # "off", NEW pc \in {"get", "call", "confirm"},
         NEW seen \in {"unread", "gone", "there"},
         term' = [term EXCEPT !.pc = pc, !.seen = seen],
         seen = "gone" => pod[term.pod].status = "gone",
         pc \in {"get", "call"} /\ term.had => pod'[term.pod].work,
         ~term.force => ~term.had
  PROVE  term' \in TermState /\ TermSound' /\ WorkKnown'
  <1>1. /\ term \in TermState /\ TermSound /\ WorkKnown
    BY DEF RentalInv, TypeOK, TermState
  <1>2. /\ term' \in TermState /\ term'.pc = pc /\ term'.pod = term.pod /\ term'.seen = seen
        /\ term'.force = term.force /\ term'.had = term.had
    BY <1>1 DEF TermState
  <1>3. /\ term.pod \in Pods /\ pod'[term.pod].status \notin {"none", "late"}
        /\ seen = "gone" => pod'[term.pod].status = "gone"
    BY <1>1 DEF TermSound, PodsGoOn, Made
  <1>4. TermSound'
    BY <1>2, <1>3 DEF TermSound, Made
  <1>5. WorkKnown'
    BY <1>1, <1>2 DEF WorkKnown
  <1> QED
    BY <1>2, <1>4, <1>5

\* Nothing that is not a pod's end takes work away from it.
LEMMA WorkStays ==
  ASSUME RentalInv, NEW p \in Pods,
         \/ pod' = pod
         \/ Create(p) \/ AddHost(p) \/ BootstrapHost(p) \/ MadeByHand(p) \/ Work(p)
         \/ (Connect \/ Bootstrap) /\ rent.pod = p
  PROVE  \A q \in Pods : pod[q].work => pod'[q].work
  <1>1. pod \in [Pods -> PodState]
    BY DEF RentalInv, TypeOK, PodState
  <1>2. CASE pod' = pod
    BY <1>2
  <1>3. CASE Create(p)
    <2>1. ASSUME NEW s, NEW b, pod' = [pod EXCEPT ![p].status = s, ![p].bought = b]
          PROVE  \A q \in Pods : pod[q].work => pod'[q].work
      BY <1>1, <2>1 DEF PodState
    <2>2. \/ pod' = pod \/ \E s, b : pod' = [pod EXCEPT ![p].status = s, ![p].bought = b]
      BY <1>3 DEF Create
    <2> QED
      BY <1>2, <2>1, <2>2
  <1>4. ASSUME NEW n, pod' = [pod EXCEPT ![p].calls = n]
        PROVE  \A q \in Pods : pod[q].work => pod'[q].work
    BY <1>1, <1>4 DEF PodState
  <1>5. CASE AddHost(p)
    BY <1>4, <1>5 DEF AddHost
  <1>6. CASE Connect /\ rent.pod = p
    BY <1>4, <1>6 DEF Connect
  <1>7. CASE BootstrapHost(p) \/ (Bootstrap /\ rent.pod = p)
    BY <1>1, <1>7 DEF BootstrapHost, Bootstrap, PodState
  <1>8. CASE MadeByHand(p)
    BY <1>1, <1>8 DEF MadeByHand, PodState
  <1>9. CASE Work(p)
    BY <1>1, <1>9 DEF Work, PodState
  <1> QED
    BY <1>2, <1>3, <1>5, <1>6, <1>7, <1>8, <1>9

LEMMA TermStep ==
  ASSUME RentalInv, PodsGoOn, [Next]_vars
  PROVE  term' \in TermState /\ TermSound' /\ WorkKnown'
  <1>1. /\ term \in TermState /\ TermSound /\ WorkKnown /\ pod \in [Pods -> PodState] /\ PodsSound
        /\ None \notin Pods
    BY RentalAssumption DEF RentalInv, TypeOK, TermState, PodState
  <1>2. ASSUME term' = term, \A q \in Pods : pod[q].work => pod'[q].work
        PROVE  term' \in TermState /\ TermSound' /\ WorkKnown'
    BY <1>1, <1>2, TermSame DEF TermSound
  <1>3. CASE \E p \in Pods : Create(p) \/ AddHost(p) \/ BootstrapHost(p) \/ MadeByHand(p) \/ Work(p)
    <2>1. PICK p \in Pods : Create(p) \/ AddHost(p) \/ BootstrapHost(p) \/ MadeByHand(p) \/ Work(p)
      BY <1>3
    <2>2. \A q \in Pods : pod[q].work => pod'[q].work
      BY <2>1, WorkStays
    <2>3. term' = term
      BY <2>1 DEF Create, AddHost, BootstrapHost, MadeByHand, Work
    <2> QED
      BY <1>2, <2>2, <2>3
  <1>4. CASE Connect \/ Bootstrap
    <2>1. rent.pod \in Pods
      BY <1>4 DEF Connect, Bootstrap, RentalInv, InHand
    <2>2. \A q \in Pods : pod[q].work => pod'[q].work
      BY <1>4, <2>1, WorkStays
    <2>3. term' = term
      BY <1>4 DEF Connect, Bootstrap
    <2> QED
      BY <1>2, <2>2, <2>3
  <1>5. CASE \/ (\E p \in Pods : Lands(p) \/ Boots(p) \/ Exits(p) \/ Ends(p) \/ EndsByItself(p) \/ WorkEnds(p))
             \/ AbandonCall \/ AbandonFails
    <2>1. StillHad
      BY <1>5 DEF Lands, Boots, Exits, Ends, EndsByItself, Becomes, WorkEnds, AbandonCall, AbandonFails
    <2> QED
      BY <2>1, StillHadSound
  <1>6. CASE Resolve
    <2>1. PICK p \in Pods, n \in Names \cup {None}, force \in BOOLEAN, seen \in {"unread", "there"} :
            /\ IF n # None THEN registry[n] = p ELSE \A m \in Names : registry[m] # p
            /\ seen = "there" => p \in ListOurs
            /\ n = None => seen = "there"
            /\ term' = [pc |-> IF force THEN "get" ELSE "inspect", pod |-> p, name |-> n,
                        force |-> force, had |-> pod[p].work, seen |-> seen]
      BY <1>6 DEF Resolve
    <2>2. Made(p)
      <3>1. CASE n = None
        BY <2>1, <3>1 DEF ListOurs, IsGone, Made
      <3>2. CASE n # None
        BY <1>1, <2>1, <3>2 DEF RentalInv, EntriesSound
      <3> QED
        BY <3>1, <3>2
    <2>3. pod' = pod
      BY <1>6 DEF Resolve
    <2>4. pod[p].work \in BOOLEAN
      BY <1>1 DEF PodState
    <2>5. /\ term' \in TermState /\ term'.pc \in {"get", "inspect"} /\ term'.pod = p /\ term'.seen # "gone"
          /\ term'.had = pod[p].work /\ term'.force = force /\ (term'.pc = "get" => force)
      BY <2>1, <2>4 DEF TermState
    <2>6. TermSound'
      BY <2>2, <2>3, <2>5 DEF TermSound, Made
    <2>7. WorkKnown'
      BY <2>3, <2>5 DEF WorkKnown
    <2> QED
      BY <2>5, <2>6, <2>7
  <1>7. CASE Inspect
    <2>1. term.pc = "inspect" /\ pod' = pod /\ term.pod \in Pods /\ Made(term.pod)
      BY <1>1, <1>7 DEF Inspect, TermSound
    <2>2. PICK answered, read \in BOOLEAN :
            term' = IF NothingToLose(answered, read)
                    THEN [term EXCEPT !.pc = "get", !.seen = IF read THEN ReadPod ELSE term.seen]
                    ELSE NoTerm
      BY <1>7 DEF Inspect
    <2>3. CASE ~NothingToLose(answered, read)
      BY <2>2, <2>3, NoTermSound
    <2>4. CASE NothingToLose(answered, read)
      <3> DEFINE seen == IF read THEN ReadPod ELSE term.seen
      <3>1. ~pod[term.pod].work
        BY <1>1, <2>1, <2>4 DEF NothingToLose, IsDead, IsGone, PodsSound
      <3>2. ~term.had
        BY <1>1, <2>1, <3>1 DEF WorkKnown
      <3>3. IsGone(term.pod) => pod[term.pod].status = "gone"
        BY <2>1, MadeAndGone
      <3>4. seen \in {"unread", "gone", "there"} /\ (seen = "gone" => pod[term.pod].status = "gone")
        BY <1>1, <2>1, <3>3 DEF ReadPod, TermState, TermSound
      <3>5. term' = [term EXCEPT !.pc = "get", !.seen = seen]
        BY <2>2, <2>4
      <3> HIDE DEF seen
      <3> QED
        BY <2>1, <3>2, <3>4, <3>5, TermMoves
    <2> QED
      BY <2>3, <2>4
  <1>8. CASE GetPod
    <2>1. term.pc = "get" /\ pod' = pod
      BY <1>8 DEF GetPod
    <2>2. term' = NoTerm \/ term' = [term EXCEPT !.pc = "call"]
      BY <1>8 DEF GetPod
    <2>3. CASE term' = [term EXCEPT !.pc = "call"]
      <3>1. /\ term' = [term EXCEPT !.pc = "call", !.seen = term.seen]
            /\ term.seen \in {"unread", "gone", "there"}
        BY <1>1, <2>3 DEF TermState
      <3>2. /\ term.seen = "gone" => pod[term.pod].status = "gone"
            /\ term.had => pod'[term.pod].work
            /\ ~term.force => ~term.had
        BY <1>1, <2>1 DEF TermSound, WorkKnown
      <3> QED
        BY <2>1, <3>1, <3>2, TermMoves
    <2> QED
      BY <2>2, <2>3, NoTermSound
  <1>9. CASE TerminateCall
    <2>1. term.pc = "call"
      BY <1>9 DEF TerminateCall
    <2>2. /\ term' = [term EXCEPT !.pc = "confirm", !.seen = term.seen]
          /\ term.seen \in {"unread", "gone", "there"}
      BY <1>1, <1>9 DEF TermState, TerminateCall
    <2>3. /\ term.seen = "gone" => pod[term.pod].status = "gone"
          /\ ~term.force => ~term.had
      BY <1>1, <2>1 DEF TermSound, WorkKnown
    <2> QED
      BY <2>1, <2>2, <2>3, TermMoves
  <1>10. CASE TerminateFails \/ Terminated
    BY <1>10, NoTermSound DEF TerminateFails, Terminated
  <1>11. CASE \/ RentBegins \/ OffersOver \/ SweepFailedCreate \/ SweepOver \/ WaitForSsh \/ Register
              \/ Record \/ Fails \/ Abandoned \/ Interrupted \/ ForgetGoneRentals
              \/ (\E c \in Commands : ForgetHost(c)) \/ (\E n \in Names : RemoveHost(n)) \/ UNCHANGED vars
    <2>1. pod' = pod /\ term' = term
      BY <1>11
         DEF RentBegins, OffersOver, SweepFailedCreate, SweepOver, WaitForSsh, Register, Record, Fails,
             Abandoned, Interrupted, ForgetGoneRentals, ForgetHost, RemoveHost, vars
    <2> QED
      BY <1>2, <2>1
  <1> QED
    BY <1>3, <1>4, <1>5, <1>6, <1>7, <1>8, <1>9, <1>10, <1>11 DEF Next

-----------------------------------------------------------------------------
\* The three together.

LEMMA InitRental ==
  Init => RentalInv
  <1> SUFFICES ASSUME Init
               PROVE  RentalInv
    OBVIOUS
  <1>1. pod \in [Pods -> PodState] /\ \A p \in Pods : pod[p] = NoPod
    BY DEF Init, NoPod, PodState
  <1>2. rent \in RentState /\ rent.pc = "off" /\ rent.pod = None /\ rent.got = None
    BY RentalAssumption DEF Init, RentState, RentPc
  <1>3. term \in TermState /\ term.pc = "off" /\ ~term.had
    BY DEF Init, NoTerm, TermState
  <1>4. EntriesType /\ (\A n \in Names : registry[n] = None) /\ \A c \in Commands : drop[c] = {}
    BY DEF Init, EntriesType
  <1>5. TypeOK
    BY <1>1, <1>2, <1>3, <1>4 DEF TypeOK, PodState, RentState, RentPc, TermState, EntriesType
  <1>6. PodsSound
    BY <1>1 DEF PodsSound, NoPod
  <1>7. InHand /\ TermSound /\ WorkKnown
    BY <1>2, <1>3 DEF InHand, TermSound, WorkKnown
  <1>8. EntriesSound
    BY <1>4 DEF EntriesSound
  <1> QED
    BY <1>5, <1>6, <1>7, <1>8 DEF RentalInv

LEMMA RentalStep ==
  RentalInv /\ [Next]_vars => RentalInv'
  <1> SUFFICES ASSUME RentalInv, [Next]_vars
               PROVE  RentalInv'
    OBVIOUS
  <1>1. PodsGoOn
    BY PodStep
  <1>2. rent' \in RentState /\ InHand'
    BY <1>1, RentStep
  <1>3. EntriesType' /\ EntriesSound'
    BY <1>1, EntriesStep
  <1>4. term' \in TermState /\ TermSound' /\ WorkKnown'
    BY <1>1, TermStep
  <1>5. TypeOK'
    BY <1>1, <1>2, <1>3, <1>4 DEF TypeOK, PodsGoOn, PodState, RentState, RentPc, TermState, EntriesType
  <1> QED
    BY <1>1, <1>2, <1>3, <1>4, <1>5 DEF RentalInv, PodsGoOn

LEMMA RentalInvariant ==
  Spec => []RentalInv
  BY InitRental, RentalStep, PTL DEF Spec

\* Without --force a terminate ends no work that was on the pod from before it
\* looked until it called the provider (teardown.terminate): whatever could not be
\* read or did not answer, and whatever else changed meanwhile.
THEOREM TerminateSparesWork ==
  Spec => []SparesWork
  <1>1. RentalInv => SparesWork
    BY DEF RentalInv, WorkKnown, SparesWork
  <1> QED
    BY <1>1, RentalInvariant, PTL

\* An entry that names a pod which the provider still has goes only by the command
\* that a person typed for it (registry.forget_host): what the others forget, they
\* read before they had the lock, but a pod that is gone stays gone.
THEOREM EntryStaysUntilGone ==
  Spec => RegisteredUntilGone
  <1>1. ASSUME RentalInv, [Next]_vars
        PROVE  [\A n \in Names :
                  registry[n] # None /\ registry'[n] # registry[n] /\ ~IsGone(registry[n]) =>
                    RemoveHost(n) \/ (\E p \in Pods : AddHost(p)) \/ Register \/ Record]_vars
    <2> SUFFICES ASSUME NEW n \in Names, registry[n] # None, registry'[n] # registry[n],
                        ~IsGone(registry[n])
                 PROVE  RemoveHost(n) \/ (\E p \in Pods : AddHost(p)) \/ Register \/ Record
      OBVIOUS
    <2>1. EntriesType /\ EntriesSound
      BY <1>1 DEF RentalInv, TypeOK, EntriesType
    <2>2. CASE registry' = registry
      BY <2>2
    <2>3. ASSUME NEW c \in Commands, ForgetHost(c)
          PROVE  FALSE
      <3>1. PICK e \in drop[c] :
              registry' \in {registry, IF registry[e[1]] = e[2] THEN [registry EXCEPT ![e[1]] = None]
                                       ELSE registry}
        BY <2>3 DEF ForgetHost
      <3>2. registry[e[1]] = e[2] /\ n = e[1]
        BY <2>1, <3>1 DEF EntriesType
      <3>3. e \in Names \X Pods
        BY <2>1 DEF EntriesType
      <3>4. pod[e[2]].status = "gone"
        BY <2>1, <3>3 DEF EntriesSound
      <3> QED
        BY <3>2, <3>4 DEF IsGone
    <2>4. ASSUME NEW m \in Names, RemoveHost(m)
          PROVE  RemoveHost(n)
      <3>1. m = n
        BY <2>1, <2>4 DEF RemoveHost, EntriesType
      <3> QED
        BY <2>4, <3>1
    <2>5. CASE \/ (\E p \in Pods : Create(p)) \/ RentBegins \/ OffersOver \/ SweepFailedCreate \/ SweepOver
               \/ WaitForSsh \/ Connect \/ Bootstrap \/ Fails \/ AbandonCall \/ AbandonFails \/ Abandoned
               \/ Interrupted \/ ForgetGoneRentals
               \/ (\E p \in Pods : \/ BootstrapHost(p) \/ MadeByHand(p)
                                   \/ Lands(p) \/ Boots(p) \/ Exits(p) \/ Ends(p) \/ EndsByItself(p)
                                   \/ Work(p) \/ WorkEnds(p))
               \/ Resolve \/ Inspect \/ GetPod \/ TerminateCall \/ TerminateFails \/ Terminated
               \/ UNCHANGED vars
      <3>1. registry' = registry
        BY <2>5
           DEF Create, RentBegins, OffersOver, SweepFailedCreate, SweepOver, WaitForSsh, Connect, Bootstrap,
               Fails, AbandonCall, AbandonFails, Abandoned, Interrupted, ForgetGoneRentals, BootstrapHost,
               MadeByHand, Lands, Boots, Exits, Ends, EndsByItself, Becomes, Work, WorkEnds, Resolve,
               Inspect, GetPod, TerminateCall, TerminateFails, Terminated, vars
      <3> QED
        BY <2>2, <3>1
    <2> QED
      BY <1>1, <2>3, <2>4, <2>5 DEF Next
  <1> QED
    BY <1>1, RentalInvariant, PTL DEF Spec, RegisteredUntilGone

-----------------------------------------------------------------------------
\* What a rent pays for.

\* Only a create makes a pod that bills.
LEMMA NoNewBills ==
  ASSUME RentalInv, [Next]_vars, ~ \E p \in Pods : Create(p)
  PROVE  \A q \in Pods : pod'[q].bought /\ pod'[q].status \in Alive \cup {"late"} => Bills(q)
  <1> DEFINE Goal == \A q \in Pods : pod'[q].bought /\ pod'[q].status \in Alive \cup {"late"} => Bills(q)
  <1> SUFFICES Goal
    OBVIOUS
  <1>1. /\ TypeOK /\ PodsSound /\ pod \in [Pods -> PodState]
        /\ rent.pc \notin {"off", "offer", "over"} => rent.pod \in Pods
        /\ term.pc # "off" => term.pod \in Pods
    BY DEF RentalInv, TypeOK, PodState, InHand, TermSound
  <1>2. CASE pod' = pod
    BY <1>2 DEF Bills
  <1>3. ASSUME NEW p \in Pods, \A q \in Pods \ {p} : pod'[q] = pod[q],
               pod'[p].bought => pod[p].bought,
               pod[p].bought /\ pod'[p].status \in Alive \cup {"late"} => pod[p].status \in Alive \cup {"late"}
        PROVE  Goal
    BY <1>3 DEF Bills
  <1>4. ASSUME NEW p \in Pods, NEW n, pod' = [pod EXCEPT ![p].calls = n] \/ pod' = [pod EXCEPT ![p].dispatcher = n]
                                      \/ pod' = [pod EXCEPT ![p].work = n]
        PROVE  Goal
    <2>1. /\ \A q \in Pods \ {p} : pod'[q] = pod[q]
          /\ pod'[p].status = pod[p].status /\ pod'[p].bought = pod[p].bought
      BY <1>1, <1>4 DEF PodState
    <2> QED
      BY <1>3, <2>1
  <1>5. ASSUME NEW p \in Pods, MadeByHand(p)
        PROVE  Goal
    <2>1. /\ \A q \in Pods \ {p} : pod'[q] = pod[q]
          /\ pod'[p].bought = pod[p].bought /\ pod[p].status = "none"
      BY <1>1, <1>5 DEF MadeByHand, IsFresh, Unmade, PodState
    <2>2. ~pod[p].bought
      BY <1>1, <2>1 DEF PodsSound
    <2> QED
      BY <1>3, <2>1, <2>2
  <1>6. ASSUME NEW p \in Pods, NEW from, NEW to \in Alive \cup {"gone"}, from \subseteq Alive \cup {"late"},
               Becomes(p, from, to)
        PROVE  Goal
    <2>1. "none" \notin from /\ "gone" \notin from
      BY <1>6 DEF Alive
    <2>2. /\ \A q \in Pods \ {p} : pod'[q] = pod[q]
          /\ pod[p].status \in from /\ pod'[p].bought = pod[p].bought
      BY <1>1, <1>6, <2>1, BecomesGoesOn
    <2> QED
      BY <1>3, <1>6, <2>2
  <1>7. ASSUME NEW p \in Pods, Lands(p) \/ Boots(p) \/ Exits(p) \/ Ends(p) \/ EndsByItself(p)
        PROVE  Goal
    <2>1. CASE Lands(p)
      BY <1>6, <2>1 DEF Lands, Alive
    <2>2. CASE Boots(p)
      BY <1>6, <2>2 DEF Boots, Alive
    <2>3. CASE Exits(p)
      BY <1>6, <2>3 DEF Exits, Alive
    <2>4. CASE Ends(p)
      BY <1>6, <2>4 DEF Ends, Alive
    <2>5. CASE EndsByItself(p)
      BY <1>6, <2>5 DEF EndsByItself, Alive
    <2> QED
      BY <1>7, <2>1, <2>2, <2>3, <2>4, <2>5
  <1>8. ASSUME NEW p \in Pods, Terminating(p)
        PROVE  Goal
    <2>1. /\ \A q \in Pods \ {p} : pod'[q] = pod[q]
          /\ pod'[p].status = IF pod[p].status \in Alive THEN "ending" ELSE pod[p].status
          /\ pod'[p].bought = pod[p].bought
      BY <1>1, <1>8, TerminatingGoesOn
    <2> QED
      BY <1>3, <2>1
  <1>9. CASE AbandonCall \/ AbandonFails \/ TerminateCall \/ TerminateFails
    BY <1>1, <1>2, <1>8, <1>9 DEF AbandonCall, AbandonFails, TerminateCall, TerminateFails
  <1>10. CASE Connect \/ Bootstrap
    BY <1>1, <1>4, <1>10 DEF Connect, Bootstrap
  <1>11. CASE \E p \in Pods : AddHost(p) \/ BootstrapHost(p) \/ Work(p) \/ WorkEnds(p)
    BY <1>4, <1>11 DEF AddHost, BootstrapHost, Work, WorkEnds
  <1>12. CASE \/ RentBegins \/ OffersOver \/ SweepFailedCreate \/ SweepOver \/ WaitForSsh \/ Register
              \/ Record \/ Fails \/ Abandoned \/ Interrupted \/ ForgetGoneRentals
              \/ (\E c \in Commands : ForgetHost(c)) \/ (\E n \in Names : RemoveHost(n))
              \/ Resolve \/ Inspect \/ GetPod \/ Terminated \/ UNCHANGED vars
    BY <1>2, <1>12
       DEF RentBegins, OffersOver, SweepFailedCreate, SweepOver, WaitForSsh, Register, Record, Fails,
           Abandoned, Interrupted, ForgetGoneRentals, ForgetHost, RemoveHost, Resolve, Inspect, GetPod,
           Terminated, vars
  <1> HIDE DEF Goal
  <1> QED
    BY <1>5, <1>7, <1>9, <1>10, <1>11, <1>12 DEF Next

\* What bills is known until it is settled: with the two assumptions, no way out
\* of an offer loses it.
LEMMA BillStep ==
  ASSUME {"lands", "patience", "answers"} \subseteq Assumed, RentalInv, BillKnown, [Next]_vars
  PROVE  BillKnown'
  <1>1. /\ rent \in RentState /\ pod \in [Pods -> PodState] /\ None \notin Pods /\ InHand
    BY RentalAssumption DEF RentalInv, TypeOK, PodState, RentState, RentPc
  <1>2. ASSUME NEW p \in Pods, Create(p)
        PROVE  BillKnown'
    <2>1. rent.pod = None
      BY <1>1, <1>2 DEF Create, InHand
    <2>2. CASE pod' = pod /\ rent' = [rent EXCEPT !.tried = @ + 1]
      <3>1. rent'.billing = rent.billing /\ rent'.got = rent.got /\ rent'.pod = rent.pod
        BY <1>1, <2>2 DEF RentState
      <3> QED
        BY <2>2, <3>1 DEF BillKnown, Bills
    <2>3. CASE /\ \A q \in Pods \ {p} : pod'[q] = pod[q]
               /\ rent'.billing = rent.billing /\ rent'.got = rent.got /\ rent'.pod = p
      BY <1>1, <2>1, <2>3 DEF BillKnown, Bills
    <2>4. CASE /\ pod' = [pod EXCEPT ![p].status = "starting", ![p].bought = TRUE]
               /\ rent' = [rent EXCEPT !.pc = "waiting", !.pod = p, !.tried = @ + 1, !.swept = FALSE]
      <3>1. rent'.billing = rent.billing /\ rent'.got = rent.got /\ rent'.pod = p
        BY <1>1, <2>4 DEF RentState
      <3>2. \A q \in Pods \ {p} : pod'[q] = pod[q]
        BY <1>1, <2>4
      <3> QED
        BY <2>3, <3>1, <3>2
    <2>5. CASE \E s \in {"none", "late", "starting"}, then \in {"offer", "over"} :
                 /\ pod' = [pod EXCEPT ![p].status = s, ![p].bought = s # "none"]
                 /\ rent' = [rent EXCEPT !.pc = "sweep", !.pod = p, !.tried = @ + 1, !.swept = TRUE,
                                         !.listed = FALSE, !.then = then]
      <3>1. rent'.billing = rent.billing /\ rent'.got = rent.got /\ rent'.pod = p
        BY <1>1, <2>5 DEF RentState
      <3>2. \A q \in Pods \ {p} : pod'[q] = pod[q]
        BY <1>1, <2>5
      <3> QED
        BY <2>3, <3>1, <3>2
    <2> QED
      BY <1>2, <2>2, <2>4, <2>5 DEF Create
  <1> SUFFICES ASSUME ~ \E p \in Pods : Create(p)
               PROVE  BillKnown'
    BY <1>2
  <1>3. \A q \in Pods : Bills(q)' => Bills(q)
    BY NoNewBills DEF Bills
  <1>4. ASSUME rent'.billing = rent.billing, rent'.got = rent.got, rent'.pod = rent.pod
        PROVE  BillKnown'
    BY <1>3, <1>4 DEF BillKnown
  <1>6. CASE \/ RentBegins \/ OffersOver \/ SweepFailedCreate \/ WaitForSsh \/ Connect \/ Register
             \/ Bootstrap \/ Fails \/ AbandonCall
    <2>1. \/ \E pc : rent' = [rent EXCEPT !.pc = pc]
          \/ \E pc, then : rent' = [rent EXCEPT !.pc = pc, !.then = then]
          \/ rent' = [rent EXCEPT !.listed = TRUE]
      BY <1>6 DEF RentBegins, OffersOver, SweepFailedCreate, WaitForSsh, Connect, Register, Bootstrap, Fails,
                  AbandonCall
    <2>2. rent'.billing = rent.billing /\ rent'.got = rent.got /\ rent'.pod = rent.pod
      BY <1>1, <2>1 DEF RentState
    <2> QED
      BY <1>4, <2>2
  <1>7. ASSUME NEW r \in RentState, NEW to, rent' = Goes(r, to), rent.got = None,
               rent.pod \in r.billing \cup {r.got} \/ ~Bills(rent.pod), rent.billing \subseteq r.billing
        PROVE  BillKnown'
    <2>1. rent'.billing = r.billing /\ rent'.got = r.got
      BY <1>7 DEF Goes, RentState
    <2> QED
      BY <1>1, <1>3, <1>7, <2>1 DEF BillKnown
  <1>8. CASE SweepOver \/ Interrupted \/ AbandonFails \/ Abandoned \/ Record
    <2>1. rent.pc \notin {"off", "offer", "over"} /\ rent.pod \in Pods /\ rent.got = None
      BY <1>1, <1>8 DEF SweepOver, Interrupted, AbandonFails, Abandoned, Record, InHand
    <2>2. Named \in RentState /\ rent.pod \in Named.billing /\ rent.billing \subseteq Named.billing
      BY <1>1, <2>1, NamedSound
    <2>3. ASSUME NEW to, rent' = Goes(Named, to)
          PROVE  BillKnown'
      BY <1>7, <2>1, <2>2, <2>3
    <2>4. ASSUME NEW to, rent' = Goes(rent, to), ~Bills(rent.pod)
          PROVE  BillKnown'
      BY <1>1, <1>7, <2>1, <2>4
    <2>5. CASE SweepOver
      <3>1. rent.listed => ~Bills(rent.pod)
        BY <2>5 DEF SweepOver, Bills, Alive
      <3> QED
        BY <2>3, <2>4, <2>5, <3>1 DEF SweepOver
    <2>6. CASE Interrupted
      <3>1. rent.swept
        BY <1>1, <2>6 DEF Interrupted, InHand
      <3> QED
        BY <2>3, <2>6, <3>1 DEF Interrupted
    <2>7. CASE AbandonFails
      BY <2>3, <2>7 DEF AbandonFails
    <2>8. CASE Abandoned
      <3>1. Made(rent.pod)
        BY <1>1, <2>8 DEF Abandoned, InHand
      <3>2. ~Bills(rent.pod)
        BY <2>8, <3>1, MadeAndGone DEF Abandoned, Bills, Alive
      <3> QED
        BY <2>4, <2>8, <3>2 DEF Abandoned
    <2>9. CASE Record
      <3> DEFINE r == [rent EXCEPT !.got = rent.pod]
      <3>1. r \in RentState /\ r.got = rent.pod /\ r.billing = rent.billing
        BY <1>1, <2>1 DEF RentState
      <3>2. rent' = Goes(r, "over")
        BY <2>9 DEF Record
      <3> HIDE DEF r
      <3> QED
        BY <1>7, <2>1, <3>1, <3>2
    <2> QED
      BY <1>8, <2>5, <2>6, <2>7, <2>8, <2>9
  <1>9. CASE \/ ForgetGoneRentals \/ (\E c \in Commands : ForgetHost(c)) \/ (\E n \in Names : RemoveHost(n))
             \/ (\E p \in Pods : \/ AddHost(p) \/ BootstrapHost(p) \/ MadeByHand(p)
                                 \/ Lands(p) \/ Boots(p) \/ Exits(p) \/ Ends(p) \/ EndsByItself(p)
                                 \/ Work(p) \/ WorkEnds(p))
             \/ Resolve \/ Inspect \/ GetPod \/ TerminateCall \/ TerminateFails \/ Terminated \/ UNCHANGED vars
    <2>1. rent' = rent
      BY <1>9
         DEF ForgetGoneRentals, ForgetHost, RemoveHost, AddHost, BootstrapHost, MadeByHand, Lands, Boots, Exits,
             Ends, EndsByItself, Becomes, Work, WorkEnds, Resolve, Inspect, GetPod, TerminateCall,
             TerminateFails, Terminated, vars
    <2> QED
      BY <1>4, <2>1
  <1> QED
    BY <1>6, <1>8, <1>9 DEF Next

\* Whenever a rent is about to buy again, and when it ends, each pod it bought that
\* may still bill is the host it hands back or is named in what it says
\* (_try_offer, _abandon, _sweep_failed_create): if a create whose answer was lost
\* is listed before its sweep ends, nobody interrupts the terminate itself, and what
\* the provider answers to it can be understood.
THEOREM RentNamesItsBill ==
  ASSUME {"lands", "patience", "answers"} \subseteq Assumed
  PROVE  Spec => []BillIsNamed
  <1>1. Init => BillKnown
    BY DEF Init, NoPod, BillKnown, Bills
  <1>2. RentalInv /\ BillKnown => BillIsNamed
    <2> SUFFICES ASSUME RentalInv, BillKnown, rent.pc \in {"offer", "over"}, NEW p \in Pods, Bills(p)
                 PROVE  p \in rent.billing \cup {rent.got}
      BY DEF BillIsNamed, Bills
    <2>1. rent.pod = None /\ None \notin Pods
      BY RentalAssumption DEF RentalInv, InHand
    <2> QED
      BY <2>1 DEF BillKnown
  <1>3. RentalInv /\ BillKnown /\ [Next]_vars => BillKnown'
    BY BillStep
  <1> QED
    BY <1>1, <1>2, <1>3, RentalInvariant, PTL DEF Spec
=============================================================================

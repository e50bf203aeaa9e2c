------------------------------- MODULE Rental -------------------------------
(***************************************************************************)
(* The life of rented pods as one client sees and steers it: `gpuc host    *)
(* rent` (provision.py), `gpuc host terminate` (teardown.py), the commands *)
(* that ask after hosts and forget the ones whose pod is gone, and `host   *)
(* add --pod`.  Each talks to the provider and to the pod, any call of     *)
(* which may fail, and takes the registry's lock only for one entry's      *)
(* change at a time.  What a pod does with its jobs, and how it ends when  *)
(* it is idle, is Drain's; here it has work or not.                        *)
(***************************************************************************)
EXTENDS Naturals, FiniteSets

CONSTANTS
  Pods,        \* pods of this account under our prefix, made or not
  HandName,    \* the name a person gives in `host add`
  None,
  MaxOffers,   \* bound: offers the catalog has for the one `host rent`
  MaxByHand,   \* bound: pods somebody makes in the provider's console
  Assumed      \* what is assumed not to go wrong: see RentalAssumption

\* "lands": a create whose answer was lost is listed before the sweep for it
\* is over.  "patience": nobody interrupts a rent that is already terminating.
\* "answers": what the provider says to a list, a read and a terminate can be
\* understood, or is an error of the provider's.
ASSUME RentalAssumption ==
  /\ Assumed \subseteq {"lands", "patience", "answers"}
  /\ {MaxOffers, MaxByHand} \subseteq Nat
  /\ {HandName, None} \cap Pods = {} /\ HandName # None

VARIABLES
  pod,       \* what is true of each pod
  registry,  \* registry[n]: the pod that this machine's entry n names
  rent,      \* the one `host rent`
  term,      \* a `host terminate`
  drop       \* drop[c]: entries that command c is about to forget, as it read them

vars == <<pod, registry, rent, term, drop>>

\* A pod's own name is unique to the create that made it: the pod stands for it.
Names == Pods \cup {HandName}
Commands == {"rent", "terminate", "status"}

\* "late": a create still in flight after its error; "ending": terminate accepted.
Alive == {"starting", "ready", "exited", "ending"}

TypeOK ==
  /\ pod \in [Pods -> [status : {"none", "late", "gone"} \cup Alive, bought : BOOLEAN,
                       calls : Names \cup {None}, dispatcher : BOOLEAN, work : BOOLEAN]]
  /\ registry \in [Names -> Pods \cup {None}]
  /\ rent \in [pc : {"off", "offer", "sweep", "waiting", "connect", "register", "bootstrap",
                     "record", "abandon", "confirm", "over"},
               pod : Pods \cup {None}, tried : 0..MaxOffers, listed : BOOLEAN, swept : BOOLEAN,
               then : {"offer", "over"}, billing : SUBSET Pods, got : Pods \cup {None}]
  /\ term \in [pc : {"off", "inspect", "get", "call", "confirm"}, pod : Pods \cup {None},
               name : Names \cup {None}, force : BOOLEAN, had : BOOLEAN,
               seen : {"unread", "gone", "there"}]
  /\ drop \in [Commands -> SUBSET (Names \X Pods)]

NoTerm == [pc |-> "off", pod |-> None, name |-> None, force |-> FALSE, had |-> FALSE,
           seen |-> "unread"]
NoPod == [status |-> "none", bought |-> FALSE, calls |-> None, dispatcher |-> FALSE, work |-> FALSE]

Init ==
  /\ pod = [p \in Pods |-> NoPod]
  /\ registry = [n \in Names |-> None]
  /\ rent = [pc |-> "off", pod |-> None, tried |-> 0, listed |-> FALSE, swept |-> FALSE,
             then |-> "over", billing |-> {}, got |-> None]
  /\ term = NoTerm
  /\ drop = [c \in Commands |-> {}]

-----------------------------------------------------------------------------
(* The provider's words for a pod.                                         *)

IsGone(p) == pod[p].status \in {"none", "late", "gone"}
IsDead(p) == IsGone(p) \/ pod[p].status = "exited"
Unmade == {p \in Pods : pod[p].status = "none"}
\* Which of the names nobody has used yet makes no difference.
IsFresh(p) == p \in Unmade /\ p = CHOOSE q \in Unmade : TRUE
ListOurs == {p \in Pods : ~IsGone(p)}

\* A host with a package and a dispatcher answers, if ssh does.
MayAnswer(p) == pod[p].status = "ready" /\ pod[p].dispatcher

-----------------------------------------------------------------------------
(* The registry.                                                           *)

\* Mutant: whatever the name means by now is forgotten.
ForgetByName(c) ==
  /\ drop[c] # {}
  /\ \E e \in drop[c] :
       /\ drop' = [drop EXCEPT ![c] = @ \ {e}]
       /\ registry' = [registry EXCEPT ![e[1]] = None]
  /\ UNCHANGED <<pod, rent, term>>

\* Re-read under the lock: the entry goes only if it still names that pod.  A
\* lock that is held too long is a warning, and the entry stays.
ForgetHost(c) ==
  /\ drop[c] # {}
  /\ \E e \in drop[c] :
       /\ drop' = [drop EXCEPT ![c] = @ \ {e}]
       /\ registry' \in {registry,
                         IF registry[e[1]] = e[2] THEN [registry EXCEPT ![e[1]] = None]
                         ELSE registry}
  /\ UNCHANGED <<pod, rent, term>>

\* Entries whose pod the provider, where it could be read, does not have.
GoneEntries(asked) ==
  {e \in Names \X Pods : e[1] \in asked /\ registry[e[1]] = e[2] /\ IsGone(e[2])}

\* `gpuc status`, `host bootstrap --all`: each entry is asked after on its own.
ForgetGoneRentals ==
  /\ drop["status"] = {}
  /\ \E n \in Names : drop' = [drop EXCEPT !["status"] = GoneEntries({n})]
  /\ UNCHANGED <<pod, registry, rent, term>>

RemoveHost(n) ==
  /\ registry[n] # None
  /\ registry' = [registry EXCEPT ![n] = None]
  /\ UNCHANGED <<pod, rent, term, drop>>

\* A pod that is there and has an ssh endpoint.
HasAddress(p) == pod[p].status = "ready"

\* An adopted name, other than the one typed, is another host's on this machine.
Taken(n, p) == n # HandName /\ registry[n] \notin {None, p}

\* `host add <HandName> --pod p`: a pod that has a config is taken under the name
\* it calls itself by, unless that is another host's here.
AddHost(p) ==
  /\ HasAddress(p)
  /\ LET n == IF pod[p].calls # None THEN pod[p].calls ELSE HandName
     IN  /\ ~Taken(n, p)
         /\ registry' = [registry EXCEPT ![n] = p]
         /\ pod' = [pod EXCEPT ![p].calls = n]
  /\ UNCHANGED <<rent, term, drop>>

\* The bootstrap that follows an add, or a `host bootstrap`: it may fail, and the
\* host stays registered.
BootstrapHost(p) ==
  /\ \E n \in Names : registry[n] = p
  /\ pod[p].status = "ready" /\ pod[p].calls # None
  /\ pod' = [pod EXCEPT ![p].dispatcher = TRUE]
  /\ UNCHANGED <<registry, rent, term, drop>>

-----------------------------------------------------------------------------
(* Pods: the provider's doing, and their own.                              *)

\* What a terminate found on its pod is gone, through no doing of its own.
StillHad == term' = [term EXCEPT !.had = @ /\ pod'[term.pod].work]

Becomes(p, from, to) ==
  /\ pod[p].status \in from
  /\ pod' = [pod EXCEPT ![p].status = to, ![p].work = @ /\ to = "ready",
                        ![p].dispatcher = @ /\ to = "ready"]
  /\ StillHad
  /\ UNCHANGED <<registry, rent, drop>>

Lands(p) == Becomes(p, {"late"}, "starting")
Boots(p) == Becomes(p, {"starting"}, "ready")
Exits(p) == Becomes(p, {"starting", "ready"}, "exited")
Ends(p) == Becomes(p, {"ending"}, "gone")
\* In the console, or by its own dispatcher once it is idle.
EndsByItself(p) == Becomes(p, {"starting", "ready", "exited"}, "gone")

MadeByHand(p) ==
  /\ IsFresh(p)
  /\ Cardinality({q \in Pods : pod[q].status # "none" /\ ~pod[q].bought}) < MaxByHand
  /\ pod' = [pod EXCEPT ![p].status = "ready"]
  /\ UNCHANGED <<registry, rent, term, drop>>

Work(p) ==
  /\ MayAnswer(p) /\ (\E n \in Names : registry[n] = p) /\ ~pod[p].work
  /\ pod' = [pod EXCEPT ![p].work = TRUE]
  /\ UNCHANGED <<registry, rent, term, drop>>

WorkEnds(p) ==
  /\ pod[p].work
  /\ pod' = [pod EXCEPT ![p].work = FALSE]
  /\ StillHad
  /\ UNCHANGED <<registry, rent, drop>>

-----------------------------------------------------------------------------
(* `gpuc host rent`.                                                       *)

\* What is left of an offer once its pod is settled.
Goes(r, to) ==
  [r EXCEPT !.pc = to, !.pod = None, !.listed = FALSE, !.swept = FALSE, !.then = "over"]

\* matching_rentals: of the entries that could be asked, what answers and is free.
FreeMatches(asked) ==
  {n \in asked : registry[n] # None /\ MayAnswer(registry[n]) /\ ~pod[registry[n]].work}

\* Without --force one free match is enough to buy nothing.
RentBegins ==
  /\ rent.pc = "off"
  /\ \E asked \in SUBSET Names, force \in BOOLEAN :
       /\ rent' = [rent EXCEPT !.pc = IF FreeMatches(asked) # {} /\ ~force THEN "over" ELSE "offer"]
       /\ drop' = [drop EXCEPT !["rent"] = GoneEntries(asked)]
  /\ UNCHANGED <<pod, registry, term>>

\* The next offer is bought; how the create's answer comes out.
Create(p) ==
  /\ rent.pc = "offer" /\ drop["rent"] = {}
  /\ rent.tried < MaxOffers /\ IsFresh(p)
  /\ \/ /\ pod' = [pod EXCEPT ![p].status = "starting", ![p].bought = TRUE]
        /\ rent' = [rent EXCEPT !.pc = "waiting", !.pod = p, !.tried = @ + 1, !.swept = FALSE]
     \/ /\ UNCHANGED pod       \* CreateRefused: nothing was made
        /\ rent' = [rent EXCEPT !.tried = @ + 1]
     \/ \E s \in {"none", "late", "starting"}, then \in {"offer", "over"} :
          /\ pod' = [pod EXCEPT ![p].status = s, ![p].bought = s # "none"]
          /\ rent' = [rent EXCEPT !.pc = "sweep", !.pod = p, !.tried = @ + 1, !.swept = TRUE,
                                  !.listed = FALSE, !.then = then]
  /\ UNCHANGED <<registry, term, drop>>

\* Every offer has failed, or the ceiling has passed.
OffersOver ==
  /\ rent.pc = "offer" /\ drop["rent"] = {}
  /\ rent' = [rent EXCEPT !.pc = "over"]
  /\ UNCHANGED <<pod, registry, term, drop>>

\* One poll of the sweep that could list pods.
SweepFailedCreate ==
  /\ rent.pc = "sweep"
  /\ rent' = IF rent.pod \in ListOurs THEN [rent EXCEPT !.pc = "abandon"]
             ELSE [rent EXCEPT !.listed = TRUE]
  /\ UNCHANGED <<pod, registry, term, drop>>

\* The pod is among what the rent says may still bill.
Named == [rent EXCEPT !.billing = @ \cup {rent.pod}]

\* Mutant: a sweep that could list nothing found nothing.
SweepOverUnlisted ==
  /\ rent.pc = "sweep"
  /\ rent' = Goes(rent, rent.then)
  /\ UNCHANGED <<pod, registry, term, drop>>

\* The last poll: nothing appeared, or nothing could be asked.
SweepOver ==
  /\ rent.pc = "sweep"
  /\ rent.listed /\ "lands" \in Assumed => pod[rent.pod].status \in {"none", "gone"}
  /\ rent' = IF rent.listed THEN Goes(rent, rent.then) ELSE Goes(Named, "over")
  /\ UNCHANGED <<pod, registry, term, drop>>

\* What nothing in _try_offer catches ends the rent where it is: a Ctrl-C during
\* _abandon's own calls, or an answer that could not be understood.  A Ctrl-C
\* during the sweep, its abandon too, names the pod.
Interrupted ==
  /\ rent.pc \in {"sweep", "abandon", "confirm"}
  /\ \E named \in BOOLEAN :
       /\ named => rent.swept
       /\ ~named => "answers" \notin Assumed \/ (~rent.swept /\ "patience" \notin Assumed)
       /\ rent' = Goes(IF named THEN Named ELSE rent, "over")
  /\ UNCHANGED <<pod, registry, term, drop>>

\* An endpoint, then an sshd that answers.
WaitForSsh ==
  /\ rent.pc = "waiting" /\ pod[rent.pod].status = "ready"
  /\ rent' = [rent EXCEPT !.pc = "connect"]
  /\ UNCHANGED <<pod, registry, term, drop>>

\* connect_host: the pod's first config, or the one that somebody gave it since.
Connect ==
  /\ rent.pc = "connect" /\ pod[rent.pod].status = "ready"
  /\ pod' = [pod EXCEPT ![rent.pod].calls = IF @ = None THEN rent.pod ELSE @]
  /\ rent' = [rent EXCEPT !.pc = "register"]
  /\ UNCHANGED <<registry, term, drop>>

Register ==
  /\ rent.pc = "register"
  /\ registry' = [registry EXCEPT ![pod[rent.pod].calls] = rent.pod]
  /\ rent' = [rent EXCEPT !.pc = "bootstrap"]
  /\ UNCHANGED <<pod, term, drop>>

Bootstrap ==
  /\ rent.pc = "bootstrap" /\ pod[rent.pod].status = "ready"
  /\ pod' = [pod EXCEPT ![rent.pod].dispatcher = TRUE]
  /\ rent' = [rent EXCEPT !.pc = "record"]
  /\ UNCHANGED <<registry, term, drop>>

Record ==
  /\ rent.pc = "record"
  /\ registry' = [registry EXCEPT ![pod[rent.pod].calls] = rent.pod]
  /\ rent' = Goes([rent EXCEPT !.got = rent.pod], "over")
  /\ UNCHANGED <<pod, term, drop>>

\* verdict: the offer's fault, and the next one is tried; or, like the ceiling,
\* a local ssh that cannot work, a bug and a Ctrl-C, nobody's: the attempt ends.
Fails ==
  /\ rent.pc \in {"waiting", "connect", "register", "bootstrap", "record"}
  /\ \E then \in {"offer", "over"} : rent' = [rent EXCEPT !.pc = "abandon", !.then = then]
  /\ UNCHANGED <<pod, registry, term, drop>>

\* terminate_confirmed: the call, retried, and then reads until the pod is gone.
Terminating(p) ==
  pod' = [pod EXCEPT ![p].status = IF @ \in Alive THEN "ending" ELSE @,
                     ![p].work = FALSE, ![p].dispatcher = FALSE]

AbandonCall ==
  /\ rent.pc = "abandon"
  /\ Terminating(rent.pod)
  /\ rent' = [rent EXCEPT !.pc = "confirm"]
  /\ StillHad
  /\ UNCHANGED <<registry, drop>>

\* A failed create's pod that still bills ends the attempt; any other is named,
\* and the next offer is bought all the same.
AfterFailure == IF rent.swept THEN "over" ELSE rent.then

\* Three calls failed, whatever came of them, or no read said the pod was gone.
AbandonFails ==
  /\ rent.pc \in {"abandon", "confirm"}
  /\ UNCHANGED pod \/ (rent.pc = "abandon" /\ Terminating(rent.pod))
  /\ rent' = Goes(Named, AfterFailure)
  /\ StillHad
  /\ UNCHANGED <<registry, drop>>

\* Its entry is the one under its own name.
Abandoned ==
  /\ rent.pc = "confirm" /\ IsGone(rent.pod)
  /\ rent' = Goes(rent, rent.then)
  /\ drop' = [drop EXCEPT !["rent"] = {<<rent.pod, rent.pod>>}]
  /\ UNCHANGED <<pod, registry, term>>

-----------------------------------------------------------------------------
(* `gpuc host terminate`.                                                  *)

\* A registered name, else a pod's own id or name, with whatever entry it has.
Resolve ==
  /\ term.pc = "off" /\ drop["terminate"] = {}
  /\ \E p \in Pods, n \in Names \cup {None}, force \in BOOLEAN :
       \E seen \in {"unread", "there"} :
         /\ IF n # None THEN registry[n] = p ELSE \A m \in Names : registry[m] # p
         /\ seen = "there" => p \in ListOurs
         /\ n = None => seen = "there"
         /\ term' = [pc |-> IF force THEN "get" ELSE "inspect", pod |-> p, name |-> n,
                     force |-> force, had |-> pod[p].work, seen |-> seen]
  /\ UNCHANGED <<pod, registry, rent, drop>>

\* Mutant: a host that does not answer has nothing to say.
IdleUnlessItSays(answered, read) ==
  (read /\ IsDead(term.pod)) \/ ~answered \/ ~pod[term.pod].work

\* The host said it is idle, or the provider said that nothing can run there.
NothingToLose(answered, read) ==
  \/ read /\ IsDead(term.pod)
  \/ answered /\ ~pod[term.pod].work

\* What the provider says of the pod now, if it says anything.
ReadPod == IF IsGone(term.pod) THEN "gone" ELSE "there"

Inspect ==
  /\ term.pc = "inspect"
  /\ \E answered \in {FALSE, term.name # None /\ MayAnswer(term.pod)}, read \in BOOLEAN :
       term' = IF NothingToLose(answered, read)
               THEN [term EXCEPT !.pc = "get", !.seen = IF read THEN ReadPod ELSE @]
               ELSE NoTerm
  /\ UNCHANGED <<pod, registry, rent, drop>>

Forgetting ==
  drop' = [drop EXCEPT !["terminate"] = {<<term.name, term.pod>>} \cap (Names \X Pods)]

\* A provider that cannot be read ends the command; one that has no such pod
\* leaves only the entry to forget.  What was read before serves.
GetPod ==
  /\ term.pc = "get"
  /\ \E s \in IF term.seen = "unread" THEN {"unread", ReadPod} ELSE {term.seen} :
       /\ term' = IF s = "there" THEN [term EXCEPT !.pc = "call"] ELSE NoTerm
       /\ IF s = "gone" THEN Forgetting ELSE UNCHANGED drop
  /\ UNCHANGED <<pod, registry, rent>>

TerminateCall ==
  /\ term.pc = "call"
  /\ Terminating(term.pod)
  /\ term' = [term EXCEPT !.pc = "confirm"]
  /\ UNCHANGED <<registry, rent, drop>>

TerminateFails ==
  /\ term.pc \in {"call", "confirm"}
  /\ UNCHANGED pod \/ (term.pc = "call" /\ Terminating(term.pod))
  /\ term' = NoTerm
  /\ UNCHANGED <<registry, rent, drop>>

Terminated ==
  /\ term.pc = "confirm" /\ IsGone(term.pod)
  /\ term' = NoTerm
  /\ Forgetting
  /\ UNCHANGED <<pod, registry, rent>>

-----------------------------------------------------------------------------
Next ==
  \/ \E p \in Pods : Create(p)
  \/ RentBegins \/ OffersOver \/ SweepFailedCreate \/ SweepOver
  \/ WaitForSsh \/ Connect \/ Register \/ Bootstrap \/ Record \/ Fails
  \/ AbandonCall \/ AbandonFails \/ Abandoned \/ Interrupted
  \/ \E c \in Commands : ForgetHost(c)
  \/ ForgetGoneRentals
  \/ \E n \in Names : RemoveHost(n)
  \/ \E p \in Pods : \/ AddHost(p) \/ BootstrapHost(p) \/ MadeByHand(p)
                     \/ Lands(p) \/ Boots(p) \/ Exits(p) \/ Ends(p) \/ EndsByItself(p)
                     \/ Work(p) \/ WorkEnds(p)
  \/ Resolve \/ Inspect \/ GetPod \/ TerminateCall \/ TerminateFails \/ Terminated

Spec == Init /\ [][Next]_vars

-----------------------------------------------------------------------------
\* BillIsNamed: whenever a rent is about to buy again, and when it ends, each pod
\* it bought that may still bill is the host it hands back or is named in what it
\* says (_try_offer's "every way out of here terminates first", _abandon,
\* _sweep_failed_create, and _cleanup's "All pods created here were terminated").
BillIsNamed ==
  rent.pc \in {"offer", "over"} =>
    \A p \in Pods : pod[p].bought /\ pod[p].status \in Alive \cup {"late"} =>
                      p \in rent.billing \cup {rent.got}

\* SparesWork: without --force, work that was on a pod from before the command
\* looked until it called the provider is not ended: not answering, not being
\* registered and not being readable are all no answer (teardown.terminate).
SparesWork == term.pc \in {"call", "confirm"} /\ ~term.force => ~term.had

\* RegisteredUntilGone: no command but one that a person typed for it takes away
\* the entry of a pod that still bills, though what it forgets was decided before
\* it had the lock (forget_host's pod_id, terminate_confirmed).
RegisteredUntilGone ==
  [][\A n \in Names :
       registry[n] # None /\ registry'[n] # registry[n] /\ ~IsGone(registry[n]) =>
         RemoveHost(n) \/ (\E p \in Pods : AddHost(p)) \/ Register \/ Record]_vars
=============================================================================

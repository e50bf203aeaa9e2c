------------------------------- MODULE Lookup -------------------------------
(***************************************************************************)
(* How a client finds a job and learns what became of it: the registry,    *)
(* the two indexes, the provider, ssh and the S3 mirror, as actions.py     *)
(* (locate_many), remote.py (ask) and wait.py (Watch) read them.  Whatever *)
(* can fail on the way is a set of outcomes; Client chooses among them.    *)
(***************************************************************************)
EXTENDS Naturals, FiniteSets

CONSTANTS
  Hosts,      \* the hosts a client may know
  Rentals,    \* the ones a provider rents out
  Ids,        \* job ids, in the order they are made
  None,
  Assumed     \* what is assumed not to go wrong: see Client

ASSUME RentalsAreHosts == Rentals \subseteq Hosts
ASSUME NoneIsNobody == None \notin Hosts /\ None \notin Ids

VARIABLES
  net,        \* net[h]: what is true of h: "up", "dead" or "gone"
  registry,   \* registry[h]: "read", "unreadable" or "none" on this machine
  job,        \* job[id]: what its host holds of it, and how it really ended
  mirror,     \* mirror[id]: the status in the mirrored state.json, or "none"
  localIndex, \* localIndex[id]: the host this machine's index names, or None
  s3Index     \* s3Index[id]: the host the mirrored index names, or None

FINISHED_STATUSES == {"succeeded", "failed", "cancelled"}
Live == {"queued", "running"}

\* A job in a host's answer: its dir is there.
HostHas(h, id) == job[id].host = h /\ job[id].status \in Live \cup FINISHED_STATUSES

Registered == {h \in Hosts : registry[h] = "read"}

(***************************************************************************)
(* Asking.  A pod that is dead or gone is not dialled, unless the provider *)
(* could not be read; any ssh may fail.                                    *)
(***************************************************************************)
RentalState(h) ==
  IF h \notin Rentals THEN {"dial"}
  ELSE {"dial", IF net[h] = "gone" THEN "gone"
                ELSE IF net[h] = "dead" THEN "unaskable" ELSE "dial"}

Dial(h) == IF net[h] = "up" THEN {"answered", "unaskable"} ELSE {"unaskable"}

Ask(h) == (RentalState(h) \ {"dial"})
             \cup (IF "dial" \in RentalState(h) THEN Dial(h) ELSE {})

MirrorIsTheAnswer(asked) == asked = "gone"

(***************************************************************************)
(* The one reader of a mirrored state: what it ends as, or that it does    *)
(* not.  Where it is comes from an index, else from the host's own entry,  *)
(* and each host has a prefix of its own (default_s3_prefix).  An object   *)
(* that cannot be fetched reads like one that is not there: a state, and   *)
(* an entry of the mirrored index.                                         *)
(***************************************************************************)
\* The client that submitted has its own index; another has the mirror's.
LocalIndex(id, here) == IF here THEN localIndex[id] ELSE None

\* JobIndex.get: every answer one reading may give.
IndexedAt(id, here) ==
  IF LocalIndex(id, here) # None THEN {LocalIndex(id, here)}
  ELSE {s3Index[id]} \cup (IF "mirror" \in Assumed THEN {} ELSE {None})

\* Whether the prefix a watch goes by is the job's: the index is read again.
MirrorPrefix(id, h, here) ==
  {indexed # None \/ (h \in Registered /\ h = job[id].host) : indexed \in IndexedAt(id, here)}

MirroredState(id) ==
  {mirror[id]} \cup (IF "mirror" \in Assumed THEN {} ELSE {"none"})

ReadMirror(id, prefix) ==
  {IF prefix /\ s \in FINISHED_STATUSES THEN s ELSE "none" :
     s \in MirroredState(id)}

(***************************************************************************)
(* Locating a job.  A location is a host and what asking it came to        *)
(* ("unasked" when nobody had to), or no host and whether the job is       *)
(* missing for certain.                                                    *)
(***************************************************************************)
Location(h, asked) == [host |-> h, asked |-> asked, missing |-> FALSE]
Unlocated(missing) == [host |-> None, asked |-> "unaskable", missing |-> missing]

\* Mutant: a host that could not be asked is taken not to have the job.
PlacedByThoseWhoAnswer(id, indexed, answers) ==
  LET found   == {h \in Registered : answers[h] = "answered" /\ HostHas(h, id)}
  IN  IF found # {} THEN Location(CHOOSE h \in found : TRUE, "answered")
      ELSE IF indexed \in Registered /\ answers[indexed] # "answered"
      THEN Location(indexed, answers[indexed])
      ELSE IF indexed \in Hosts \ Registered THEN Location(indexed, "gone")
      ELSE Unlocated(TRUE)

\* What the index said, one way the hosts may answer, and where that puts the job.
Placed(id, indexed, answers) ==
  LET found   == {h \in Registered : answers[h] = "answered" /\ HostHas(h, id)}
      unasked == {h \in Registered : answers[h] = "unaskable" /\ h # indexed}
  IN  IF found # {}
      THEN Location(CHOOSE h \in found : TRUE, "answered")
      ELSE IF indexed \in Registered /\ answers[indexed] # "answered"
      THEN Location(indexed, answers[indexed])
      ELSE IF indexed \in Hosts \ Registered /\ unasked = {}
      THEN Location(indexed, "gone")
      ELSE Unlocated(unasked = {})

AskAround(id, indexed) ==
  LET answers == {f \in [Registered -> {"answered", "unaskable", "gone"}] :
                     \A h \in Registered : f[h] \in Ask(h)}
  IN  {Placed(id, indexed, f) : f \in answers}

LocateBy(id, here, indexed) ==
  IF LocalIndex(id, here) \in Registered
  THEN {Location(LocalIndex(id, here), "unasked")}
  ELSE IF indexed # None /\ registry[indexed] = "unreadable"
  THEN {Location(indexed, "unaskable")}
  ELSE AskAround(id, indexed)

\* `--host h`: not asked if it has an entry; gone only if the index agrees.
OnNamedHost(id, h, indexed) ==
  CASE registry[h] = "read"       -> Location(h, "unasked")
    [] registry[h] = "unreadable" -> Location(h, "unaskable")
    [] OTHER -> IF indexed = h THEN Location(h, "gone") ELSE Unlocated(TRUE)

\* With the host that was named, or None.
LocateMany(id, here, named) ==
  UNION {IF named = None THEN LocateBy(id, here, indexed) ELSE {OnNamedHost(id, named, indexed)} :
           indexed \in IndexedAt(id, here)}

(***************************************************************************)
(* A job being watched.  "since" in trouble is that a first poll went      *)
(* unanswered; whether TROUBLE_GRACE_S has passed since is the clock's.    *)
(***************************************************************************)
Watched == [host : Hosts \cup {None}, gone : BOOLEAN, prefix : BOOLEAN,
            status : {"unknown"} \cup Live \cup FINISHED_STATUSES,
            source : {"host", "mirror"}, seen : BOOLEAN, missing : BOOLEAN,
            error : BOOLEAN, trouble : {"none", "since"},
            hostState : {"answered", "unaskable", "gone"}]

Settled(w) == w.error \/ w.status \in FINISHED_STATUSES

\* What the lookup makes of a job before the first poll.
Watch(id, here, place) ==
  LET unaskable == place.host = None \/ (place.asked = "unaskable"
                                           /\ place.host \notin Registered)
      lost == place.missing \/ unaskable
  IN  {[host |-> place.host, gone |-> MirrorIsTheAnswer(place.asked), prefix |-> prefix,
        status |-> "unknown", source |-> "host", seen |-> FALSE,
        missing |-> place.missing, error |-> lost, trouble |-> "none",
        hostState |-> IF unaskable /\ ~place.missing THEN "unaskable" ELSE "answered"] :
          prefix \in MirrorPrefix(id, place.host, here)}

\* wait.start: every view of a job that looking for it may come to.
Start(id, here, named) ==
  UNION {Watch(id, here, place) : place \in LocateMany(id, here, named)}

\* A mirrored end is the answer; without one the reason is.
FromMirror(w, s) == [w EXCEPT !.status = s, !.source = "mirror"]

\* Mutant: the grace starts again with every round.
TroubleSinceNow(w, id, gone, state, patient, over) ==
  IF ~gone /\ patient THEN {w}
  ELSE {IF gone /\ s # "none" THEN FromMirror(w, s)
        ELSE [w EXCEPT !.error = TRUE, !.hostState = IF gone THEN "gone" ELSE state] :
          s \in ReadMirror(id, w.prefix)}

TroubleWith(w, id, gone, state, patient, over) ==
  LET waiting == ~gone /\ patient /\ (w.trouble = "none" \/ ~over)
      v == [w EXCEPT !.trouble = "since"]
      u == [v EXCEPT !.hostState = IF gone THEN "gone" ELSE state]
  IN  IF waiting THEN {v}
      ELSE {IF (gone \/ patient) /\ s # "none" THEN FromMirror(u, s)
            ELSE [u EXCEPT !.error = TRUE] : s \in ReadMirror(id, w.prefix)}

Vanished(w, id, patient, over) ==
  IF ~w.seen THEN {[w EXCEPT !.missing = TRUE, !.error = TRUE]}
  ELSE TroubleWith(w, id, FALSE, "answered", patient, over)

ClearTrouble(w) == [w EXCEPT !.trouble = "none"]

\* Watch._poll_host: every way one round over this job's host may end.
PollHost(w, id, asked, patient, over) ==
  CASE asked = "gone" -> TroubleWith(w, id, TRUE, "gone", patient, over)
    [] asked = "unaskable" -> TroubleWith(w, id, FALSE, "unaskable", patient, over)
    [] OTHER ->
         IF HostHas(w.host, id)
         THEN {[ClearTrouble(w) EXCEPT !.status = job[id].status, !.seen = TRUE]}
         ELSE Vanished(ClearTrouble(w), id, patient, over)

Poll(w, id, patient, over) ==
  IF Settled(w) THEN {w}
  ELSE UNION {PollHost(w, id, asked, patient, over) :
                asked \in IF w.gone THEN {"gone"} ELSE Ask(w.host)}

\* `gpuc status <id>`: one impatient round.
Look(id, here) ==
  UNION {Poll(w, id, FALSE, TRUE) : w \in Start(id, here, None)}
=============================================================================

---------------------------- MODULE ClientProofs ----------------------------
(***************************************************************************)
(* What a client is told and what it submits, for any hosts, jobs, outputs *)
(* and starts of the controller, from what Client assumes of the timing.   *)
(***************************************************************************)
EXTENDS Client, WellFoundedInduction, TLAPS

-----------------------------------------------------------------------------
(* Choices.                                                                *)

\* A set of job ids has a first.
LEMMA HasFirst ==
  ASSUME NEW S \in SUBSET Ids, S # {}
  PROVE  \E id \in S : \A other \in S : id <= other
<1> DEFINE Less == {pair \in Nat \X Nat : pair[1] < pair[2]}
<1>1. S \subseteq Nat
  BY NumberedAssumption
<1>2. IsWellFoundedOn(Less, Nat)
  BY NatLessThanWellFounded, Zenon DEF OpToRel
<1>3. PICK id \in S : \A other \in S : ~(<<other, id>> \in Less)
  BY <1>1, <1>2, WFMin
<1>4. ASSUME NEW other \in S PROVE id <= other
  <2>1. <<other, id>> \in Nat \X Nat /\ other \in Nat /\ id \in Nat
    BY <1>1
  <2>2. ~(<<other, id>>[1] < <<other, id>>[2])
    BY <1>3, <2>1
  <2> QED  BY <2>1, <2>2
<1> QED  BY <1>4

LEMMA NewJobIdIs ==
  ASSUME Unused # {} PROVE NewJobId \in Ids /\ job[NewJobId].status = "none" /\ ran[NewJobId] = 0
<1>1. Unused \in SUBSET Ids
  BY DEF Unused
<1>2. NewJobId \in Unused
  BY <1>1, HasFirst DEF NewJobId
<1> QED  BY <1>2 DEF Unused

\* Every id that a marker names is a job's.
LEMMA MarkedAreIds ==
  ASSUME marker \in [Outputs -> Ids \cup {None}]
  PROVE  ExternalJobids \subseteq Ids /\ None \notin ExternalJobids
BY NoneIsNobody DEF ExternalJobids

\* The chosen one, if any, is one of those that may have run.
LEMMA ChosenIs ==
  ASSUME marker \in [Outputs -> Ids \cup {None}]
  PROVE  /\ Chosen # None => Chosen \in ExternalJobids
         /\ Chosen = None => \A id \in ExternalJobids : ctl.earlier[id] \notin {"succeeded", "live", "unaskable"}
<1> DEFINE at(s) == {id \in ExternalJobids : ctl.earlier[id] = s}
           first(ids) == CHOOSE id \in ids : \A other \in ids : id <= other
<1>1. ASSUME NEW s, at(s) # {} PROVE first(at(s)) \in at(s)
  BY <1>1, MarkedAreIds, HasFirst
<1>2. Chosen = IF at("succeeded") # {} THEN first(at("succeeded"))
               ELSE IF at("live") # {} THEN first(at("live"))
               ELSE IF at("unaskable") # {} THEN first(at("unaskable")) ELSE None
  BY DEF Chosen
<1>3. \A s : first(at(s)) \in at(s) \/ at(s) = {}
  BY <1>1
<1> HIDE DEF first
<1>4. CASE at("succeeded") # {}
  <2>1. Chosen \in at("succeeded")  BY <1>2, <1>3, <1>4
  <2> QED  BY <2>1, MarkedAreIds
<1>5. CASE at("succeeded") = {} /\ at("live") # {}
  <2>1. Chosen \in at("live")  BY <1>2, <1>3, <1>5
  <2> QED  BY <2>1, MarkedAreIds
<1>6. CASE at("succeeded") = {} /\ at("live") = {} /\ at("unaskable") # {}
  <2>1. Chosen \in at("unaskable")  BY <1>2, <1>3, <1>6
  <2> QED  BY <2>1, MarkedAreIds
<1>7. CASE at("succeeded") = {} /\ at("live") = {} /\ at("unaskable") = {}
  BY <1>2, <1>7
<1> QED  BY <1>4, <1>5, <1>6, <1>7

-----------------------------------------------------------------------------
(* What asking comes to, and what a client makes of it.                    *)

JobRecord == [host : Hosts \cup {None}, status : JobStatus,
              stop : BOOLEAN, end : {"none"} \cup FINISHED_STATUSES]
SubRecord == [pc : SubPc, id : Ids \cup {None}, host : Hosts \cup {None},
              by : {"controller", "person"}]
CtlRecord == [pc : CtlPc, version : Versions, starts : 0..MaxStarts,
              forced : BOOLEAN, failure : BOOLEAN,
              earlier : [Ids -> Outcomes \cup {"unmentioned"}],
              flight : Ids \cup {None}, said : {"none", "success", "error"}]
WaitRecord == [pc : {"off", "poll", "over"}, id : Ids \cup {None}, named : Hosts \cup {None},
               round : {0, 1}, job : Watched]
Place == [host : Hosts \cup {None}, asked : {"unasked", "answered", "unaskable", "gone"},
          missing : BOOLEAN]

LookupType ==
  /\ net \in [Hosts -> {"up", "dead", "gone"}]
  /\ registry \in [Hosts -> {"read", "unreadable", "none"}]
  /\ job \in [Ids -> JobRecord]
  /\ mirror \in [Ids -> {"none"} \cup Live \cup FINISHED_STATUSES]
  /\ localIndex \in [Ids -> Hosts \cup {None}]
  /\ s3Index \in [Ids -> Hosts \cup {None}]

ClientType ==
  /\ sub \in SubRecord
  /\ ran \in [Ids -> 0..MaxVersion]
  /\ person \subseteq Ids
  /\ ctl \in CtlRecord
  /\ marker \in [Outputs -> Ids \cup {None}]
  /\ record \in [Ids -> 0..MaxVersion]
  /\ given \subseteq Ids
  /\ wait \in WaitRecord

LEMMA TypesAreTypeOK == TypeOK <=> LookupType /\ ClientType
BY DEF TypeOK, LookupType, ClientType, JobRecord, SubRecord, CtlRecord, WaitRecord

Known(id) == job[id].status # "none"

\* An index names the job's host, if any; an entry is dropped when its pod is gone.
IndexesSound == \A id \in Ids : /\ localIndex[id] \in {None, job[id].host}
                                /\ s3Index[id] \in {None, job[id].host}
                                /\ Known(id) => job[id].host \in Hosts
EntriesSound ==
  /\ \A h \in Hosts : registry[h] = "none" => net[h] = "gone"
  /\ \A h \in Hosts : net[h] = "gone" => h \in Rentals

\* No host of these that is left has the job.
NotAmong(id, S) == \A h \in S : net[h] = "gone" \/ ~HostHas(h, id)

\* Where a job is looked for, and where it is to be found, with the host that was named.
SoughtAt(named) == IF named = None THEN Hosts ELSE {named}
Target(id, named) == IF named = None THEN job[id].host ELSE named

\* An entry is unreadable only where this machine or the mirror can tell.
UnreadableIndexed ==
  \A h \in Hosts : registry[h] = "unreadable" =>
    sub.host # h /\ \A id \in Ids : job[id].host = h => s3Index[id] # None

LEMMA AskIs ==
  ASSUME NEW h, NEW asked \in Ask(h)
  PROVE  /\ asked \in {"answered", "unaskable", "gone"}
         /\ asked = "gone" => h \in Rentals /\ net[h] = "gone"
         /\ asked = "answered" => net[h] = "up"
BY DEF Ask, RentalState, Dial

LEMMA IndexedIs ==
  ASSUME IndexesSound, NEW id \in Ids, NEW here \in BOOLEAN, NEW indexed \in IndexedAt(id, here)
  PROVE  /\ indexed \in {None, job[id].host}
         /\ LocalIndex(id, here) \in {None, job[id].host}
         /\ LocalIndex(id, here) # None => indexed = LocalIndex(id, here)
         /\ indexed = None => LocalIndex(id, here) = None
         /\ indexed = None /\ "mirror" \in Assumed => s3Index[id] = None
<1>1. localIndex[id] \in {None, job[id].host} /\ s3Index[id] \in {None, job[id].host}
  BY DEF IndexesSound
<1>2. LocalIndex(id, here) \in {None, job[id].host}
  BY <1>1 DEF LocalIndex
<1>3. CASE LocalIndex(id, here) # None
  BY <1>2, <1>3 DEF IndexedAt
<1>4. CASE LocalIndex(id, here) = None
  <2>1. indexed = s3Index[id] \/ (indexed = None /\ "mirror" \notin Assumed)
    BY <1>4 DEF IndexedAt
  <2> QED  BY <1>1, <1>4, <2>1
<1> QED  BY <1>3, <1>4

LEMMA PlacedIs ==
  ASSUME LookupType, IndexesSound, EntriesSound, NEW id \in Ids, Known(id), NEW here \in BOOLEAN,
         NEW indexed \in IndexedAt(id, here),
         indexed # None => registry[indexed] # "unreadable",
         NEW place \in AskAround(id, indexed)
  PROVE  /\ place \in Place
         /\ place.host \in {None, job[id].host}
         /\ place.asked = "gone" => net[job[id].host] = "gone" /\ place.host # None
         /\ place.missing => place.host = None
         /\ place.missing /\ UnreadableIndexed /\ "mirror" \in Assumed => NotAmong(id, Hosts)
         /\ registry[job[id].host] # "read" /\ indexed # None => ~place.missing
<1> DEFINE H == job[id].host
<1>1. H \in Hosts /\ indexed \in {None, H}
  BY IndexedIs DEF IndexesSound
<1>2. PICK f \in [Registered -> {"answered", "unaskable", "gone"}] :
        (\A h \in Registered : f[h] \in Ask(h)) /\ place = Placed(id, indexed, f)
  BY DEF AskAround
<1> DEFINE found == {h \in Registered : f[h] = "answered" /\ HostHas(h, id)}
           unasked == {h \in Registered : f[h] = "unaskable" /\ h # indexed}
<1>3. place = IF found # {}
              THEN Location(CHOOSE h \in found : TRUE, "answered")
              ELSE IF indexed \in Registered /\ f[indexed] # "answered"
              THEN Location(indexed, f[indexed])
              ELSE IF indexed \in Hosts \ Registered /\ unasked = {}
              THEN Location(indexed, "gone")
              ELSE Unlocated(unasked = {})
  BY <1>2 DEF Placed
<1>4. \A h \in found : h = H
  BY DEF HostHas
<1>5. \A h \in Registered : f[h] = "gone" => net[h] = "gone"
  BY <1>2, AskIs
<1>6. Registered \subseteq Hosts /\ None \notin Hosts
  BY NoneIsNobody DEF Registered
<1>7. CASE found # {}
  <2>1. place = Location(H, "answered")
    BY <1>3, <1>4, <1>7
  <2> QED  BY <2>1, <1>1, <1>6 DEF Location, Place
<1>8. CASE found = {} /\ indexed \in Registered /\ f[indexed] # "answered"
  <2>1. place = Location(H, f[H]) /\ f[H] \in {"unaskable", "gone"} /\ H \in Registered
    BY <1>1, <1>2, <1>3, <1>6, <1>8
  <2> QED  BY <2>1, <1>1, <1>5, <1>6 DEF Location, Place
<1>9. CASE found = {} /\ indexed \in Hosts \ Registered /\ unasked = {}
  <2>1. place = Location(H, "gone") /\ indexed = H
    BY <1>1, <1>3, <1>6, <1>9
  <2>2. registry[H] = "none"
    BY <2>1, <1>1, <1>6, <1>9 DEF Registered, LookupType
  <2>3. net[H] = "gone"
    BY <2>2, <1>1 DEF EntriesSound
  <2> QED  BY <2>1, <2>3, <1>1, <1>6 DEF Location, Place
<1>10. CASE /\ found = {} /\ ~(indexed \in Registered /\ f[indexed] # "answered")
            /\ ~(indexed \in Hosts \ Registered /\ unasked = {})
  <2>1. place = Unlocated(unasked = {})
    BY <1>3, <1>10
  <2>2. ASSUME unasked = {}, UnreadableIndexed, "mirror" \in Assumed, net[H] # "gone"
        PROVE  ~HostHas(H, id)
    <3>1. registry[H] # "none"
      BY <1>1, <2>2 DEF EntriesSound
    <3>2. CASE H \in Registered
      <4>1. f[H] # "gone" /\ (f[H] = "unaskable" => indexed = H)
        BY <1>5, <2>2, <3>2
      <4>2. f[H] = "answered"
        BY <4>1, <3>2, <1>2, <1>10
      <4> QED  BY <4>2, <3>2, <1>10
    <3>3. CASE registry[H] = "unreadable"
      <4>1. s3Index[id] # None
        BY <3>3, <1>1, <2>2 DEF UnreadableIndexed
      <4>2. indexed = H
        BY <4>1, <1>1, <2>2, IndexedIs
      <4> QED  BY <4>2, <3>3, <1>1, <1>6
    <3> QED  BY <3>1, <3>2, <3>3, <1>1 DEF Registered, LookupType
  <2>3. \A h \in Hosts : HostHas(h, id) => h = H
    BY DEF HostHas
  <2>4. registry[H] # "read" /\ indexed # None => unasked # {}
    BY <1>1, <1>10 DEF Registered
  <2> QED  BY <2>1, <2>2, <2>3, <2>4 DEF Unlocated, Place, NotAmong
<1> QED  BY <1>7, <1>8, <1>9, <1>10

\* However a client looks for a job that a host was given.
LEMMA PlaceIs ==
  ASSUME LookupType, IndexesSound, EntriesSound, NEW id \in Ids, Known(id), NEW here \in BOOLEAN,
         NEW named \in Hosts \cup {None}, NEW place \in LocateMany(id, here, named)
  PROVE  /\ place \in Place
         /\ place.host \in {None, Target(id, named)}
         /\ place.asked = "gone" => net[job[id].host] = "gone" /\ place.host # None
         /\ place.missing => place.host = None
         /\ place.missing /\ UnreadableIndexed /\ "mirror" \in Assumed => NotAmong(id, SoughtAt(named))
         /\ named = None /\ LocalIndex(id, here) # None => ~place.missing
<1> DEFINE H == job[id].host
<1>1. H \in Hosts /\ None \notin Hosts
  BY NoneIsNobody DEF IndexesSound
<1>2. PICK indexed \in IndexedAt(id, here) :
        place \in IF named = None THEN LocateBy(id, here, indexed) ELSE {OnNamedHost(id, named, indexed)}
  BY DEF LocateMany
<1>3. indexed \in {None, H} /\ LocalIndex(id, here) \in {None, H}
  BY <1>2, IndexedIs
<1>4. CASE named # None
  <2>1. place = OnNamedHost(id, named, indexed) /\ named \in Hosts /\ Target(id, named) = named
        /\ SoughtAt(named) = {named}
    BY <1>2, <1>4 DEF Target, SoughtAt
  <2>2. CASE registry[named] \in {"read", "unreadable"}
    BY <1>1, <1>4, <2>1, <2>2 DEF OnNamedHost, Location, Unlocated, Place
  <2>3. CASE registry[named] = "none"
    <3>1. net[named] = "gone" /\ NotAmong(id, SoughtAt(named))
      BY <2>1, <2>3 DEF EntriesSound, NotAmong
    <3>2. place = IF indexed = named THEN Location(named, "gone") ELSE Unlocated(TRUE)
      BY <2>1, <2>3 DEF OnNamedHost
    <3>3. CASE indexed = named
      <4>1. named = H /\ place = Location(H, "gone")
        BY <1>1, <1>3, <2>1, <3>2, <3>3
      <4>2. place = [host |-> H, asked |-> "gone", missing |-> FALSE]
        BY <4>1 DEF Location
      <4>3. place \in Place
        BY <1>1, <4>2 DEF Place
      <4>4. net[H] = "gone" /\ H # None /\ Target(id, named) = H
        BY <1>1, <2>1, <3>1, <4>1
      <4> QED  BY <1>4, <4>2, <4>3, <4>4
    <3>4. CASE indexed # named
      BY <1>4, <3>1, <3>2, <3>4 DEF Unlocated, Place
    <3> QED  BY <3>3, <3>4
  <2> QED  BY <2>1, <2>2, <2>3 DEF LookupType
<1>5. CASE named = None
  <2>1. Target(id, named) = H /\ SoughtAt(named) = Hosts /\ place \in LocateBy(id, here, indexed)
    BY <1>2, <1>5 DEF Target, SoughtAt
  <2>2. CASE LocalIndex(id, here) \in Registered
    <3>1. place = Location(H, "unasked")
      BY <1>1, <1>3, <2>1, <2>2 DEF LocateBy, Registered
    <3> QED  BY <1>1, <2>1, <3>1 DEF Location, Place
  <2>3. CASE /\ LocalIndex(id, here) \notin Registered
             /\ indexed # None /\ registry[indexed] = "unreadable"
    <3>1. place = Location(H, "unaskable")
      BY <1>3, <2>1, <2>3 DEF LocateBy
    <3> QED  BY <1>1, <2>1, <3>1 DEF Location, Place
  <2>4. CASE /\ LocalIndex(id, here) \notin Registered
             /\ ~(indexed # None /\ registry[indexed] = "unreadable")
    <3>1. place \in AskAround(id, indexed)
      BY <2>1, <2>4 DEF LocateBy
    <3>2. LocalIndex(id, here) # None => registry[H] # "read" /\ indexed # None
      BY <1>1, <1>2, <1>3, <2>4, IndexedIs DEF Registered
    <3>3. indexed # None => registry[indexed] # "unreadable"
      BY <2>4
    <3>4. /\ place \in Place
          /\ place.host \in {None, H}
          /\ place.asked = "gone" => net[H] = "gone" /\ place.host # None
          /\ place.missing => place.host = None
          /\ place.missing /\ UnreadableIndexed /\ "mirror" \in Assumed => NotAmong(id, Hosts)
          /\ registry[H] # "read" /\ indexed # None => ~place.missing
      BY <1>2, <3>1, <3>3, PlacedIs
    <3> QED  BY <1>5, <2>1, <3>2, <3>4
  <2> QED  BY <2>2, <2>3, <2>4
<1> QED  BY <1>4, <1>5


\* What is on record of a job agrees: how it is, how it ended, what the mirror says.
JobsSound ==
  \A id \in Ids :
    /\ job[id].status = "none" => job[id] = NoJob /\ mirror[id] = "none"
    /\ job[id].status \in Live => job[id].end = "none"
    /\ job[id].status \in FINISHED_STATUSES => job[id].end = job[id].status
    /\ mirror[id] \in FINISHED_STATUSES => job[id].end = mirror[id]

LookupSound == LookupType /\ IndexesSound /\ EntriesSound /\ JobsSound

\* What a client knows of a job by the end it has read, the host it asks, and
\* what it takes for certain.
WatchSound(w, id) ==
  /\ w \in Watched
  /\ w.status \in FINISHED_STATUSES => job[id].end = w.status
  /\ w.missing => w.error

\* The first view of a job, before anybody is asked.
LEMMA WatchIs ==
  ASSUME LookupSound, NEW id \in Ids, Known(id), NEW here \in BOOLEAN,
         NEW named \in Hosts \cup {None}, NEW w \in Start(id, here, named)
  PROVE  /\ WatchSound(w, id)
         /\ ~w.error => w.host = Target(id, named)
         /\ w.status = "unknown" /\ ~w.seen /\ w.trouble = "none"
         /\ w.gone => net[job[id].host] = "gone"
         /\ w.missing /\ UnreadableIndexed /\ "mirror" \in Assumed => NotAmong(id, SoughtAt(named))
         /\ named = None /\ LocalIndex(id, here) # None => ~w.missing /\ w.prefix
         /\ w.hostState = IF w.error /\ ~w.missing THEN "unaskable" ELSE "answered"
<1>0. PICK place \in LocateMany(id, here, named) : w \in Watch(id, here, place)
  BY DEF Start
<1> DEFINE unaskable == place.host = None \/ (place.asked = "unaskable" /\ place.host \notin Registered)
           lost == place.missing \/ unaskable
<1>1. /\ place \in Place
      /\ place.host \in {None, Target(id, named)}
      /\ place.asked = "gone" => net[job[id].host] = "gone" /\ place.host # None
      /\ place.missing => place.host = None
      /\ place.missing /\ UnreadableIndexed /\ "mirror" \in Assumed => NotAmong(id, SoughtAt(named))
      /\ named = None /\ LocalIndex(id, here) # None => ~place.missing
  BY <1>0, PlaceIs DEF LookupSound
<1>2. PICK prefix \in MirrorPrefix(id, place.host, here) :
        w = [host |-> place.host, gone |-> MirrorIsTheAnswer(place.asked), prefix |-> prefix,
             status |-> "unknown", source |-> "host", seen |-> FALSE,
             missing |-> place.missing, error |-> lost, trouble |-> "none",
             hostState |-> IF unaskable /\ ~place.missing THEN "unaskable" ELSE "answered"]
  BY <1>0 DEF Watch
<1>3. place.host \in Hosts \cup {None} /\ place.missing \in BOOLEAN
  BY <1>1 DEF Place
<1>4. MirrorIsTheAnswer(place.asked) \in BOOLEAN /\ (MirrorIsTheAnswer(place.asked) <=> place.asked = "gone")
  BY DEF MirrorIsTheAnswer
<1>5. prefix \in BOOLEAN
  BY <1>2 DEF MirrorPrefix
<1>6. LocalIndex(id, here) # None => prefix
  <2>1. PICK indexed \in IndexedAt(id, here) :
          prefix = (indexed # None \/ (place.host \in Registered /\ place.host = job[id].host))
    BY <1>2 DEF MirrorPrefix
  <2> QED  BY <2>1, IndexedIs DEF LookupSound
<1>7. unaskable \in BOOLEAN /\ lost \in BOOLEAN
  BY <1>3
<1>8. w \in Watched
  BY <1>2, <1>3, <1>4, <1>5, <1>7 DEF Watched, Live, FINISHED_STATUSES
<1>9. ~lost => place.host = Target(id, named)
  BY <1>1
<1>10. /\ w.host = place.host /\ w.status = "unknown" /\ w.missing = place.missing /\ w.error = lost
       /\ w.seen = FALSE /\ w.trouble = "none" /\ w.gone = MirrorIsTheAnswer(place.asked)
       /\ w.prefix = prefix
       /\ w.hostState = IF unaskable /\ ~place.missing THEN "unaskable" ELSE "answered"
  BY <1>2
<1>11. WatchSound(w, id)
  BY <1>8, <1>10 DEF WatchSound, FINISHED_STATUSES
<1>12. w.hostState = IF w.error /\ ~w.missing THEN "unaskable" ELSE "answered"
  BY <1>7, <1>10
<1> QED  BY <1>1, <1>4, <1>6, <1>9, <1>10, <1>11, <1>12

\* What the mirror may say of a job is how it ended, or nothing.
LEMMA MirrorTells ==
  ASSUME LookupSound, NEW id \in Ids, NEW prefix \in BOOLEAN, NEW s \in ReadMirror(id, prefix)
  PROVE  /\ s # "none" => s \in FINISHED_STATUSES /\ job[id].end = s
         /\ s = "none" /\ prefix /\ "mirror" \in Assumed => mirror[id] \notin FINISHED_STATUSES
BY DEF ReadMirror, MirroredState, LookupSound, JobsSound, FINISHED_STATUSES

\* Trouble with a host changes what is known for certain by the mirror's word only.
LEMMA TroubleIs ==
  ASSUME LookupSound, NEW id \in Ids, NEW w, WatchSound(w, id), ~Settled(w),
         NEW gone \in BOOLEAN, NEW state \in {"answered", "unaskable", "gone"},
         NEW patient \in BOOLEAN, NEW over \in BOOLEAN,
         NEW v \in TroubleWith(w, id, gone, state, patient, over)
  PROVE  /\ WatchSound(v, id)
         /\ ~v.missing /\ v.host = w.host
         /\ ~patient => /\ v.hostState = IF gone THEN "gone" ELSE state
                        /\ v.error \/ v.status \in FINISHED_STATUSES
                        /\ v.error /\ gone /\ w.prefix /\ "mirror" \in Assumed =>
                             mirror[id] \notin FINISHED_STATUSES
<1> DEFINE waiting == ~gone /\ patient /\ (w.trouble = "none" \/ ~over)
           x == [w EXCEPT !.trouble = "since"]
           u == [x EXCEPT !.hostState = IF gone THEN "gone" ELSE state]
<1>1. w \in Watched /\ ~w.error /\ ~w.missing /\ w.status \notin FINISHED_STATUSES
  BY DEF WatchSound, Settled
<1>2. x \in Watched /\ u \in Watched
  BY <1>1 DEF Watched
<1>3. /\ x.error = FALSE /\ u.error = FALSE /\ x.missing = FALSE /\ u.missing = FALSE
      /\ x.status = w.status /\ u.status = w.status /\ x.host = w.host /\ u.host = w.host
      /\ u.prefix = w.prefix /\ u.hostState = IF gone THEN "gone" ELSE state
  BY <1>1 DEF Watched
<1> HIDE DEF x, u, waiting
<1>4. CASE waiting
  <2>1. v = x
    BY <1>4 DEF TroubleWith, x, waiting
  <2> QED  BY <1>1, <1>2, <1>3, <1>4, <2>1 DEF WatchSound, waiting
<1>5. CASE ~waiting
  <2>1. PICK s \in ReadMirror(id, w.prefix) :
          v = IF (gone \/ patient) /\ s # "none" THEN FromMirror(u, s) ELSE [u EXCEPT !.error = TRUE]
    BY <1>5 DEF TroubleWith, x, u, waiting
  <2>2. w.prefix \in BOOLEAN
    BY <1>1 DEF Watched
  <2>3. CASE (gone \/ patient) /\ s # "none"
    <3>1. s \in FINISHED_STATUSES /\ job[id].end = s
      BY <2>2, <2>3, MirrorTells
    <3>2. v = [u EXCEPT !.status = s, !.source = "mirror"]
      BY <2>1, <2>3 DEF FromMirror
    <3>3. v \in Watched /\ v.status = s /\ v.error = FALSE /\ v.missing = FALSE /\ v.host = u.host
          /\ v.hostState = u.hostState
      BY <1>2, <1>3, <3>1, <3>2 DEF Watched
    <3> QED  BY <1>1, <1>3, <3>1, <3>3 DEF WatchSound
  <2>4. CASE ~((gone \/ patient) /\ s # "none")
    <3>1. v = [u EXCEPT !.error = TRUE]
      BY <2>1, <2>4
    <3>2. v \in Watched /\ v.status = w.status /\ v.error = TRUE /\ v.missing = FALSE
          /\ v.host = u.host /\ v.hostState = u.hostState
      BY <1>2, <1>3, <3>1 DEF Watched
    <3>3. gone /\ w.prefix /\ "mirror" \in Assumed => mirror[id] \notin FINISHED_STATUSES
      BY <2>2, <2>4, MirrorTells
    <3> QED  BY <1>1, <1>3, <3>2, <3>3 DEF WatchSound
  <2> QED  BY <2>3, <2>4
<1> QED  BY <1>4, <1>5

\* One answer of the job's host, or none.
LEMMA PollHostIs ==
  ASSUME LookupSound, NEW id \in Ids, Known(id), NEW w, WatchSound(w, id), ~Settled(w),
         NEW asked \in {"answered", "unaskable", "gone"},
         NEW patient \in BOOLEAN, NEW over \in BOOLEAN,
         NEW v \in PollHost(w, id, asked, patient, over)
  PROVE  /\ WatchSound(v, id) /\ v.host = w.host
         /\ v.missing => ~HostHas(w.host, id)
         /\ ~patient /\ ~w.seen =>
              \/ ~v.error /\ v.status \in Live \cup FINISHED_STATUSES
              \/ v.error /\ v.hostState = "unaskable"
              \/ v.error /\ (job[id].status = "purged" \/ w.host # job[id].host)
              \/ /\ v.error /\ asked = "gone"
                 /\ w.prefix /\ "mirror" \in Assumed => mirror[id] \notin FINISHED_STATUSES
<1>1. w \in Watched /\ ~w.error /\ ~w.missing
  BY DEF WatchSound, Settled
<1>2. CASE asked \in {"gone", "unaskable"}
  <2>1. PICK gone \in BOOLEAN :
          v \in TroubleWith(w, id, gone, asked, patient, over) /\ (gone <=> asked = "gone")
    <3>1. v \in TroubleWith(w, id, asked = "gone", asked, patient, over)
      BY <1>2 DEF PollHost
    <3> QED  BY <3>1
  <2>2. /\ WatchSound(v, id) /\ ~v.missing /\ v.host = w.host
        /\ ~patient => /\ v.hostState = IF gone THEN "gone" ELSE asked
                       /\ v.error \/ v.status \in FINISHED_STATUSES
                       /\ v.error /\ gone /\ w.prefix /\ "mirror" \in Assumed =>
                            mirror[id] \notin FINISHED_STATUSES
    BY <2>1, TroubleIs
  <2>3. v.error \in BOOLEAN
    BY <2>2 DEF WatchSound, Watched
  <2>4. CASE gone
    <3>1. asked = "gone"
      BY <2>1, <2>4
    <3> QED  BY <2>2, <2>3, <2>4, <3>1
  <2>5. CASE ~gone
    <3>1. asked = "unaskable"
      BY <1>2, <2>1, <2>5
    <3> QED  BY <2>2, <2>3, <2>5, <3>1
  <2> QED  BY <2>4, <2>5
<1>3. CASE asked = "answered" /\ HostHas(w.host, id)
  <2>1. v = [ClearTrouble(w) EXCEPT !.status = job[id].status, !.seen = TRUE]
    BY <1>3 DEF PollHost
  <2>2. job[id].status \in Live \cup FINISHED_STATUSES
    BY <1>3 DEF HostHas
  <2>3. /\ v \in Watched /\ v.status = job[id].status /\ v.error = FALSE /\ v.missing = FALSE
        /\ v.host = w.host
    BY <1>1, <2>1, <2>2 DEF Watched, ClearTrouble
  <2>4. job[id].status \in FINISHED_STATUSES => job[id].end = job[id].status
    BY DEF LookupSound, JobsSound
  <2> QED  BY <1>1, <2>2, <2>3, <2>4 DEF WatchSound
<1>4. CASE asked = "answered" /\ ~HostHas(w.host, id)
  <2> DEFINE x == ClearTrouble(w)
  <2>1. v \in Vanished(x, id, patient, over)
    BY <1>4 DEF PollHost
  <2>2. /\ x \in Watched /\ x.status = w.status /\ x.error = FALSE /\ x.missing = FALSE
        /\ x.host = w.host /\ x.seen = w.seen
    BY <1>1 DEF Watched, ClearTrouble
  <2>3. WatchSound(x, id) /\ ~Settled(x)
    BY <1>1, <2>2 DEF WatchSound, Settled
  <2>4. ~HostHas(w.host, id) /\ (job[id].status = "purged" \/ w.host # job[id].host)
    <3>1. job[id].status \in JobStatus
      BY DEF LookupSound, LookupType, JobRecord
    <3> QED  BY <1>4, <3>1 DEF HostHas, Known, JobStatus
  <2> HIDE DEF x
  <2>5. CASE ~x.seen
    <3>1. v = [x EXCEPT !.missing = TRUE, !.error = TRUE]
      BY <2>1, <2>5 DEF Vanished
    <3>2. v \in Watched /\ v.status = x.status /\ v.error = TRUE /\ v.missing = TRUE /\ v.host = x.host
      BY <2>2, <3>1 DEF Watched
    <3> QED  BY <2>2, <2>3, <2>4, <3>2 DEF WatchSound
  <2>6. CASE x.seen
    <3>1. v \in TroubleWith(x, id, FALSE, "answered", patient, over)
      BY <2>1, <2>6 DEF Vanished
    <3>2. PICK gone \in BOOLEAN : v \in TroubleWith(x, id, gone, "answered", patient, over)
      BY <3>1
    <3>3. WatchSound(v, id) /\ ~v.missing /\ v.host = x.host
      BY <2>3, <3>2, TroubleIs
    <3> QED  BY <2>2, <2>6, <3>3
  <2> QED  BY <2>5, <2>6
<1> QED  BY <1>2, <1>3, <1>4

\* A round of a wait.
LEMMA PollIs ==
  ASSUME LookupSound, NEW id \in Ids, Known(id), NEW w, WatchSound(w, id),
         NEW patient \in BOOLEAN, NEW over \in BOOLEAN, NEW v \in Poll(w, id, patient, over)
  PROVE  /\ WatchSound(v, id) /\ v.host = w.host
         /\ w.error => v = w
         /\ v.missing => w.missing \/ (~w.error /\ ~HostHas(w.host, id))
<1>1. CASE Settled(w)
  BY <1>1 DEF Poll
<1>2. CASE ~Settled(w)
  <2>0. ~w.error
    BY <1>2 DEF Settled
  <2>1. PICK asked \in (IF w.gone THEN {"gone"} ELSE Ask(w.host)) : v \in PollHost(w, id, asked, patient, over)
    BY <1>2 DEF Poll
  <2>2. asked \in {"answered", "unaskable", "gone"}
    BY <2>1, AskIs
  <2> QED  BY <1>2, <2>0, <2>1, <2>2, PollHostIs
<1> QED  BY <1>1, <1>2

\* What `gpuc status` says of a job that this machine's index knows.  "gone" is
\* said of one that is nowhere, with no end on record, or that was purged.
LEMMA LookAnswers ==
  ASSUME LookupSound, NEW id \in Ids, Known(id), NEW w \in Look(id, TRUE)
  PROVE  /\ Outcome(w) \in Outcomes
         /\ Outcome(w) = "succeeded" => job[id].end = "succeeded"
         /\ Outcome(w) = "failed" => job[id].end \in {"failed", "cancelled"}
         /\ Outcome(w) = "gone" /\ localIndex[id] # None /\ job[id].status # "purged" /\ "mirror" \in Assumed =>
              net[job[id].host] = "gone" /\ mirror[id] \notin FINISHED_STATUSES
<1>1. PICK x \in Start(id, TRUE, None) : w \in Poll(x, id, FALSE, TRUE)
  BY DEF Look
<1>2. /\ WatchSound(x, id)
      /\ ~x.error => x.host = job[id].host
      /\ x.status = "unknown" /\ ~x.seen
      /\ x.gone => net[job[id].host] = "gone"
      /\ LocalIndex(id, TRUE) # None => ~x.missing /\ x.prefix
      /\ x.hostState = IF x.error /\ ~x.missing THEN "unaskable" ELSE "answered"
  BY <1>1, WatchIs DEF Target
<1>3. LocalIndex(id, TRUE) = localIndex[id]
  BY DEF LocalIndex
<1>4. /\ WatchSound(w, id)
      /\ \/ ~w.error /\ w.status \in Live \cup FINISHED_STATUSES
         \/ w.error /\ w.hostState = "unaskable"
         \/ w.error /\ x.missing
         \/ w.error /\ job[id].status = "purged"
         \/ /\ w.error /\ net[job[id].host] = "gone"
            /\ x.prefix /\ "mirror" \in Assumed => mirror[id] \notin FINISHED_STATUSES
  <2>1. CASE Settled(x)
    <3>1. w = x
      BY <1>1, <2>1 DEF Poll
    <3>2. x.error
      BY <1>2, <2>1 DEF Settled, FINISHED_STATUSES
    <3> QED  BY <1>2, <3>1, <3>2
  <2>2. CASE ~Settled(x)
    <3>1. PICK asked \in (IF x.gone THEN {"gone"} ELSE Ask(x.host)) : w \in PollHost(x, id, asked, FALSE, TRUE)
      BY <1>1, <2>2 DEF Poll
    <3>2. x.host = job[id].host
      BY <1>2, <2>2 DEF Settled
    <3>3. asked \in {"answered", "unaskable", "gone"} /\ (asked = "gone" => net[job[id].host] = "gone")
      BY <1>2, <3>1, <3>2, AskIs
    <3>6. PICK patient \in BOOLEAN, over \in BOOLEAN : ~patient /\ w \in PollHost(x, id, asked, patient, over)
      BY <3>1
    <3>4. /\ WatchSound(w, id)
          /\ \/ ~w.error /\ w.status \in Live \cup FINISHED_STATUSES
             \/ w.error /\ w.hostState = "unaskable"
             \/ w.error /\ (job[id].status = "purged" \/ x.host # job[id].host)
             \/ /\ w.error /\ asked = "gone"
                /\ x.prefix /\ "mirror" \in Assumed => mirror[id] \notin FINISHED_STATUSES
      BY <1>2, <2>2, <3>3, <3>6, PollHostIs
    <3>5. job[id].status = "purged" \/ x.host # job[id].host => job[id].status = "purged"
      BY <3>2
    <3> QED  BY <3>3, <3>4, <3>5
  <2> QED  BY <2>1, <2>2
<1>5. w.error \in BOOLEAN /\ (w.status \in FINISHED_STATUSES => job[id].end = w.status)
  BY <1>4 DEF WatchSound, Watched
<1> QED  BY <1>2, <1>3, <1>4, <1>5 DEF Outcome, Outcomes, FINISHED_STATUSES, Live

-----------------------------------------------------------------------------
(* What holds whatever goes wrong.                                         *)

\* A submit is of a job its host does not have yet, or of one that it has.
SubmitSound ==
  /\ sub.pc = "idle" => sub = NoSubmit
  /\ sub.pc # "idle" => sub.id \in Ids /\ sub.host \in Hosts
  /\ sub.pc \in {"prepared", "staged"} => ~Known(sub.id)
  /\ sub.pc \in {"accepted", "mirrored", "recorded"} => Known(sub.id) /\ job[sub.id].host = sub.host
  /\ sub.pc = "recorded" => localIndex[sub.id] = sub.host
  /\ sub.pc # "idle" /\ sub.by = "person" => sub.id \in person
  /\ sub.pc # "idle" /\ sub.by = "controller" => ctl.pc = "submitting" /\ ran[sub.id] = ctl.version
  /\ ctl.pc = "submitting" => sub.pc # "idle" /\ sub.by = "controller"

\* A job that a marker names, or that is in flight, is in this machine's index,
\* and what is on record of it is what it was submitted with, unless it was edited.
NamesSound ==
  /\ \A id \in Ids : id \in ExternalJobids \/ ctl.flight = id => Known(id) /\ localIndex[id] # None
  /\ ctl.flight # None <=> ctl.pc \in {"submitted", "marking", "active"}
  /\ \A id \in Ids : record[id] # 0 => Known(id)
  /\ "edits" \in Assumed => /\ ctl.flight # None => ran[ctl.flight] = ctl.version
                            /\ \A id \in Ids : record[id] # 0 => record[id] = ran[id]
  /\ \A id \in Ids : ctl.earlier[id] = "succeeded" => job[id].end = "succeeded"
  /\ ctl.said # "none" => ctl.pc \in {"over", "off"}
  /\ ctl.said = "success" => ctl.pc = "over"

WaitSound ==
  /\ wait.id = None => wait.job = NoWatch /\ wait.pc # "poll"
  /\ wait.id # None => Known(wait.id) /\ WatchSound(wait.job, wait.id)

\* A success that was reported is one of what the rule says, unless it was edited.
SuccessIsOne ==
  "edits" \in Assumed /\ ctl.said = "success" => \E id \in Ids : ran[id] = ctl.version /\ job[id].end = "succeeded"

ClientInv == ClientType /\ LookupSound /\ SubmitSound /\ NamesSound /\ WaitSound /\ SuccessIsOne

\* How what is on record of a job changes once a host has it.
Moves(j, k) ==
  \/ k = j
  \/ j.status = "queued" /\ k = [j EXCEPT !.status = "running"]
  \/ j.status = "queued" /\ k = [j EXCEPT !.status = "cancelled", !.end = "cancelled"]
  \/ j.status = "running" /\ k = [j EXCEPT !.stop = TRUE]
  \/ /\ j.status = "running"
     /\ \E s \in FINISHED_STATUSES : k = [j EXCEPT !.status = s, !.end = s, !.stop = FALSE]
  \/ j.status \in FINISHED_STATUSES /\ k = [j EXCEPT !.status = "purged"]

JobsMove == job' \in [Ids -> JobRecord] /\ \A id \in Ids : Moves(job[id], job'[id])

\* An end is for ever, and a job stays where it is.
LEMMA MovesIs ==
  ASSUME NEW j \in JobRecord, NEW k, Moves(j, k),
         j.status \in Live => j.end = "none",
         j.status \in FINISHED_STATUSES => j.end = j.status
  PROVE  /\ k \in JobRecord /\ k.host = j.host
         /\ k.status = "none" <=> j.status = "none"
         /\ k.status = "none" => k = j
         /\ j.end # "none" => k.end = j.end
         /\ k.end = "succeeded" => j.end = "succeeded" \/ j.status = "running"
         /\ k.status \in Live => j.status \in Live /\ k.end = "none"
         /\ k.status \in FINISHED_STATUSES => k.end = k.status /\ j.status \in Live \cup FINISHED_STATUSES
         /\ k.status = "purged" => j.status \in FINISHED_STATUSES \cup {"purged"}
<1> USE DEF JobRecord, JobStatus, Live, FINISHED_STATUSES
<1>1. CASE k = j
  BY <1>1
<1>2. CASE j.status = "queued" /\ k = [j EXCEPT !.status = "running"]
  BY <1>2
<1>3. CASE j.status = "queued" /\ k = [j EXCEPT !.status = "cancelled", !.end = "cancelled"]
  BY <1>3
<1>4. CASE j.status = "running" /\ k = [j EXCEPT !.stop = TRUE]
  BY <1>4
<1>5. ASSUME NEW s \in FINISHED_STATUSES, j.status = "running",
             k = [j EXCEPT !.status = s, !.end = s, !.stop = FALSE]
      PROVE  /\ k \in JobRecord /\ k.host = j.host
             /\ k.status = s /\ k.end = s /\ j.end = "none"
  BY <1>5
<1>6. CASE j.status \in FINISHED_STATUSES /\ k = [j EXCEPT !.status = "purged"]
  BY <1>6
<1>7. CASE /\ j.status = "running"
           /\ \E s \in FINISHED_STATUSES : k = [j EXCEPT !.status = s, !.end = s, !.stop = FALSE]
  BY <1>5, <1>7
<1> QED  BY <1>1, <1>2, <1>3, <1>4, <1>6, <1>7 DEF Moves

\* The same of every job.
LEMMA JobsMoveIs ==
  ASSUME LookupSound, JobsMove, NEW id \in Ids
  PROVE  /\ job'[id].host = job[id].host
         /\ Known(id)' <=> Known(id)
         /\ ~Known(id) => job'[id] = job[id]
         /\ job[id].end # "none" => job'[id].end = job[id].end
         /\ job'[id].end = "succeeded" => job[id].end = "succeeded" \/ job[id].status = "running"
         /\ job'[id].status \in Live => job[id].status \in Live /\ job'[id].end = "none"
         /\ job'[id].status \in FINISHED_STATUSES =>
              job'[id].end = job'[id].status /\ job[id].status \in Live \cup FINISHED_STATUSES
         /\ job'[id].status = "purged" => job[id].status \in FINISHED_STATUSES \cup {"purged"}
<1>1. job[id] \in JobRecord /\ Moves(job[id], job'[id])
  BY DEF LookupSound, LookupType, JobsMove
<1>2. /\ job[id].status \in Live => job[id].end = "none"
      /\ job[id].status \in FINISHED_STATUSES => job[id].end = job[id].status
  BY DEF LookupSound, JobsSound
<1>3. job[id].host = job'[id].host /\ (job'[id].status = "none" => job'[id] = job[id])
  BY <1>1, <1>2, MovesIs
<1> QED  BY <1>1, <1>2, <1>3, MovesIs DEF Known

LEMMA CancelMoves ==
  ASSUME LookupSound, NEW ids, CancelJobs(ids)
  PROVE  JobsMove
<1>1. PICK done : job' = [id \in Ids |-> IF id \in done THEN Cancelled(job[id]) ELSE job[id]]
  BY DEF CancelJobs
<1>2. ASSUME NEW id \in Ids
      PROVE  Moves(job[id], job'[id]) /\ job'[id] \in JobRecord
  <2>1. job[id] \in JobRecord
    BY DEF LookupSound, LookupType
  <2>2. Moves(job[id], job'[id])
    BY <1>1 DEF Moves, Cancelled
  <2> QED
    BY <2>1, <2>2, MovesIs DEF LookupSound, JobsSound
<1> QED  BY <1>1, <1>2 DEF JobsMove

\* What the hosts, and what is seen of them, may do.
HostsAct ==
  \/ \E id \in Ids : Run(id) \/ Mirror(id) \/ Purge(id)
  \/ \E id \in Ids, s \in FINISHED_STATUSES : End(id, s)
  \/ \E h \in Hosts : \/ \E how \in {"dead", "gone"} : PodEnds(h, how)
                      \/ \E how \in {"read", "unreadable"} : EntryTurns(h, how)
  \/ ForgetGoneRentals

Mirrors ==
  /\ mirror' \in [Ids -> {"none"} \cup Live \cup FINISHED_STATUSES]
  /\ \A id \in Ids : mirror'[id] = mirror[id] \/ (job' = job /\ mirror'[id] = job[id].status)

\* Of one job something new is on record.
LEMMA OneMoves ==
  ASSUME LookupSound, NEW id \in Ids, NEW k, job' = [job EXCEPT ![id] = k], Moves(job[id], k)
  PROVE  JobsMove
<1>1. job \in [Ids -> JobRecord]
  BY DEF LookupSound, LookupType
<1>2. \A i \in Ids : Moves(job[i], job'[i])
  BY <1>1 DEF Moves
<1>3. k \in JobRecord
  BY <1>1, MovesIs DEF LookupSound, JobsSound
<1> QED  BY <1>1, <1>2, <1>3 DEF JobsMove

LEMMA NothingMoves ==
  ASSUME LookupSound, job' = job PROVE JobsMove
BY DEF LookupSound, LookupType, JobsMove, Moves

LEMMA HostsMove ==
  ASSUME LookupSound, HostsAct
  PROVE  /\ UNCHANGED <<indexVars, sub, ran, person, ctlVars, wait>>
         /\ JobsMove
         /\ Mirrors
         /\ net' \in [Hosts -> {"up", "dead", "gone"}]
         /\ registry' \in [Hosts -> {"read", "unreadable", "none"}]
         /\ EntriesSound'
         /\ \A h \in Hosts : net[h] = "gone" => net'[h] = "gone"
<1> USE DEF hostVars
<1>1. ASSUME NEW id \in Ids, Run(id) \/ Purge(id) \/ \E s \in FINISHED_STATUSES : End(id, s)
      PROVE  JobsMove /\ UNCHANGED <<net, registry, mirror, indexVars, sub, ran, person, ctlVars, wait>>
  <2>1. CASE Run(id)
    <3>1. job' = [job EXCEPT ![id] = [job[id] EXCEPT !.status = "running"]] /\ job[id].status = "queued"
      BY <2>1 DEF Run
    <3> QED  BY <2>1, <3>1, OneMoves DEF Run, Moves
  <2>2. CASE Purge(id)
    <3>1. /\ job' = [job EXCEPT ![id] = [job[id] EXCEPT !.status = "purged"]]
          /\ job[id].status \in FINISHED_STATUSES
      BY <2>2 DEF Purge
    <3> QED  BY <2>2, <3>1, OneMoves DEF Purge, Moves
  <2>3. ASSUME NEW s \in FINISHED_STATUSES, End(id, s)
        PROVE  JobsMove /\ UNCHANGED <<net, registry, mirror, indexVars, sub, ran, person, ctlVars, wait>>
    <3> DEFINE k == [job[id] EXCEPT !.status = s, !.end = s, !.stop = FALSE]
    <3>1. job' = [job EXCEPT ![id] = k] /\ job[id].status = "running"
      <4>1. job \in [Ids -> JobRecord]
        BY DEF LookupSound, LookupType
      <4> QED  BY <2>3, <4>1 DEF End, JobRecord
    <3>2. Moves(job[id], k)
      BY <3>1 DEF Moves
    <3> QED  BY <2>3, <3>1, <3>2, OneMoves DEF End
  <2> QED  BY <1>1, <2>1, <2>2, <2>3
<1>2. ASSUME NEW id \in Ids, Mirror(id)
      PROVE  Mirrors /\ UNCHANGED <<net, registry, job, indexVars, sub, ran, person, ctlVars, wait>>
  BY <1>2 DEF Mirror, Mirrors, LookupSound, LookupType, Reports
<1>3. UNCHANGED mirror => Mirrors
  BY DEF Mirrors, LookupSound, LookupType
<1>4. ASSUME NEW h \in Hosts, NEW how \in {"dead", "gone"}, PodEnds(h, how)
      PROVE  /\ UNCHANGED <<registry, job, mirror, indexVars, sub, ran, person, ctlVars, wait>>
             /\ net' \in [Hosts -> {"up", "dead", "gone"}]
             /\ EntriesSound'
             /\ \A g \in Hosts : net[g] = "gone" => net'[g] = "gone"
  BY <1>4 DEF PodEnds, LookupSound, LookupType, EntriesSound
<1>5. ASSUME NEW h \in Hosts, NEW how \in {"read", "unreadable"}, EntryTurns(h, how)
      PROVE  /\ UNCHANGED <<net, job, mirror, indexVars, sub, ran, person, ctlVars, wait>>
             /\ registry' \in [Hosts -> {"read", "unreadable", "none"}]
             /\ EntriesSound'
  BY <1>5 DEF EntryTurns, LookupSound, LookupType, EntriesSound
<1>6. CASE ForgetGoneRentals
  <2>1. /\ UNCHANGED <<net, job, mirror, indexVars, sub, ran, person, ctlVars, wait>>
        /\ registry' \in [Hosts -> {"read", "unreadable", "none"}]
        /\ EntriesSound'
    BY <1>6 DEF ForgetGoneRentals, LookupSound, LookupType, EntriesSound
  <2> QED  BY <1>3, <2>1, NothingMoves DEF LookupSound, LookupType
<1>7. ASSUME NEW h \in Hosts,
             \/ \E how \in {"dead", "gone"} : PodEnds(h, how)
             \/ \E how \in {"read", "unreadable"} : EntryTurns(h, how)
      PROVE  /\ UNCHANGED <<job, mirror, indexVars, sub, ran, person, ctlVars, wait>>
             /\ net' \in [Hosts -> {"up", "dead", "gone"}]
             /\ registry' \in [Hosts -> {"read", "unreadable", "none"}]
             /\ EntriesSound'
             /\ \A g \in Hosts : net[g] = "gone" => net'[g] = "gone"
  BY <1>4, <1>5, <1>7 DEF LookupSound, LookupType
<1>8. UNCHANGED <<net, registry>> =>
        /\ net' \in [Hosts -> {"up", "dead", "gone"}]
        /\ registry' \in [Hosts -> {"read", "unreadable", "none"}]
        /\ EntriesSound'
        /\ \A h \in Hosts : net[h] = "gone" => net'[h] = "gone"
  BY DEF LookupSound, LookupType, EntriesSound
<1> QED  BY <1>1, <1>2, <1>3, <1>6, <1>7, <1>8, NothingMoves DEF HostsAct

LEMMA LookupMoves ==
  ASSUME LookupSound, JobsMove, Mirrors, UNCHANGED indexVars,
         net' \in [Hosts -> {"up", "dead", "gone"}],
         registry' \in [Hosts -> {"read", "unreadable", "none"}], EntriesSound'
  PROVE  LookupSound'
<1>1. LookupType'
  BY DEF LookupType, LookupSound, JobsMove, Mirrors, indexVars
<1>2. IndexesSound'
  BY JobsMoveIs DEF IndexesSound, LookupSound, indexVars, Known
<1>3. ASSUME NEW id \in Ids
      PROVE  /\ job'[id].status = "none" => job'[id] = NoJob /\ mirror'[id] = "none"
             /\ job'[id].status \in Live => job'[id].end = "none"
             /\ job'[id].status \in FINISHED_STATUSES => job'[id].end = job'[id].status
             /\ mirror'[id] \in FINISHED_STATUSES => job'[id].end = mirror'[id]
  <2>1. /\ job[id].status = "none" => job[id] = NoJob /\ mirror[id] = "none"
        /\ job[id].status \in FINISHED_STATUSES => job[id].end = job[id].status
        /\ mirror[id] \in FINISHED_STATUSES => job[id].end = mirror[id]
    BY DEF LookupSound, JobsSound
  <2>2. mirror'[id] = mirror[id] \/ (job' = job /\ mirror'[id] = job[id].status)
    BY DEF Mirrors
  <2>3. /\ job'[id].status = "none" => job'[id] = job[id]
        /\ job[id].end # "none" => job'[id].end = job[id].end
        /\ job'[id].status \in Live => job'[id].end = "none"
        /\ job'[id].status \in FINISHED_STATUSES => job'[id].end = job'[id].status
    BY JobsMoveIs DEF Known
  <2> QED  BY <2>1, <2>2, <2>3 DEF FINISHED_STATUSES
<1>4. JobsSound'
  BY <1>3 DEF JobsSound
<1> QED  BY <1>1, <1>2, <1>4 DEF LookupSound

\* What clients hold stays true of jobs that move.
LEMMA ClientMoves ==
  ASSUME ClientInv, JobsMove, LookupSound', UNCHANGED <<indexVars, sub, ran, person, ctlVars, wait>>
  PROVE  ClientInv'
<1> USE DEF ctlVars, indexVars
<1>1. ClientType'
  BY DEF ClientType, ClientInv
<1>2. \A id \in Ids : (Known(id)' <=> Known(id)) /\ job'[id].host = job[id].host
  BY JobsMoveIs DEF ClientInv
<1>3. \A id \in Ids : job[id].end # "none" => job'[id].end = job[id].end
  BY JobsMoveIs DEF ClientInv
<1>4. SubmitSound'
  BY <1>2 DEF SubmitSound, ClientInv, NoSubmit, Known
<1>5. NamesSound'
  BY <1>2, <1>3 DEF NamesSound, ClientInv, ExternalJobids, Known
<1>6. WaitSound'
  <2>1. wait.id \in Ids \cup {None}
    BY DEF ClientInv, ClientType, WaitRecord
  <2> QED
    BY <1>2, <1>3, <2>1 DEF WaitSound, ClientInv, WatchSound, Known, FINISHED_STATUSES
<1>7. SuccessIsOne'
  BY <1>3 DEF SuccessIsOne, ClientInv
<1> QED  BY <1>1, <1>4, <1>5, <1>6, <1>7 DEF ClientInv

LEMMA LookupStays ==
  ASSUME LookupSound, UNCHANGED lookupVars
  PROVE  LookupSound'
BY DEF LookupSound, lookupVars, LookupType, IndexesSound, EntriesSound, JobsSound, Known

\* A job that no host has is not in anybody's hands, and has come to nothing.
LEMMA UnknownIs ==
  ASSUME ClientInv, NEW id \in Ids, ~Known(id)
  PROVE  /\ id \notin ExternalJobids /\ ctl.flight # id /\ wait.id # id
         /\ record[id] = 0 /\ job[id].end = "none" /\ mirror[id] = "none"
         /\ job[id].host = None /\ localIndex[id] = None /\ s3Index[id] = None
<1>1. job[id] = NoJob /\ mirror[id] = "none"
  BY DEF ClientInv, LookupSound, JobsSound, Known
<1>2. wait.id # id
  BY NoneIsNobody DEF ClientInv, WaitSound
<1> QED
  BY <1>1, <1>2 DEF ClientInv, LookupSound, IndexesSound, NamesSound, NoJob

\* A submit or a rule's run gets an id.
LEMMA PrepareIs ==
  ASSUME ClientInv, NEW by \in {"controller", "person"}, NEW v \in Versions, Prepare(by, v)
  PROVE  /\ sub.pc = "idle" /\ sub'.pc = "prepared" /\ sub'.by = by /\ sub' \in SubRecord
         /\ sub'.id \in Ids /\ sub'.id = NewJobId /\ ~Known(sub'.id)
         /\ sub'.host \in Registered /\ sub'.host \in Hosts
         /\ ran' \in [Ids -> 0..MaxVersion] /\ ran'[sub'.id] = v
         /\ \A id \in Ids : Known(id) => ran'[id] = ran[id]
         /\ UNCHANGED <<lookupVars, wait>>
<1>1. PICK h \in Registered : sub' = [pc |-> "prepared", id |-> NewJobId, host |-> h, by |-> by]
  BY DEF Prepare
<1>2. NewJobId \in Ids /\ ~Known(NewJobId)
  BY NewJobIdIs DEF Prepare, Known
<1>3. h \in Hosts
  BY DEF Registered
<1>4. v \in 0..MaxVersion
  BY BoundsAssumption DEF Versions
<1>5. sub' \in SubRecord
  BY <1>1, <1>2, <1>3 DEF SubRecord, SubPc
<1> QED
  BY <1>1, <1>2, <1>3, <1>4, <1>5 DEF Prepare, ClientInv, ClientType

LEMMA PrepareStep ==
  ASSUME ClientInv, SubmitJob \/ RunJob
  PROVE  ClientInv'
<1>1. CASE SubmitJob
  <2>1. Prepare("person", MaxVersion) /\ person' = person \cup {NewJobId} /\ UNCHANGED ctlVars
    BY <1>1 DEF SubmitJob
  <2>2. MaxVersion \in Versions
    BY BoundsAssumption DEF Versions
  <2>3. /\ sub.pc = "idle" /\ sub'.pc = "prepared" /\ sub'.by = "person" /\ sub' \in SubRecord
        /\ sub'.id \in Ids /\ sub'.id = NewJobId /\ sub'.host \in Hosts /\ ~Known(sub'.id)
        /\ ran' \in [Ids -> 0..MaxVersion]
        /\ \A id \in Ids : Known(id) => ran'[id] = ran[id]
        /\ UNCHANGED <<lookupVars, wait>>
    BY <2>1, <2>2, PrepareIs
  <2>4. LookupSound'
    BY <2>3, LookupStays DEF ClientInv
  <2>5. ClientType'
    BY <2>1, <2>3 DEF ClientInv, ClientType, ctlVars
  <2>6. SubmitSound'
    BY <2>1, <2>3 DEF ClientInv, SubmitSound, ctlVars, lookupVars, Known
  <2>7. NamesSound'
    <3>1. ctl.flight # None => ctl.flight \in Ids
      BY DEF ClientInv, ClientType, CtlRecord
    <3> QED
      BY <2>1, <2>3, <3>1 DEF ClientInv, NamesSound, ctlVars, lookupVars, Known, ExternalJobids
  <2>8. WaitSound'
    BY <2>3 DEF ClientInv, WaitSound, lookupVars, Known, WatchSound
  <2>9. SuccessIsOne'
    <3>1. \A id \in Ids : job[id].end = "succeeded" => ran'[id] = ran[id]
      BY <2>3, UnknownIs
    <3> QED  BY <2>1, <2>3, <3>1 DEF ClientInv, SuccessIsOne, ctlVars, lookupVars
  <2> QED  BY <2>4, <2>5, <2>6, <2>7, <2>8, <2>9 DEF ClientInv
<1>2. CASE RunJob
  <2>1. /\ ctl.pc = "prepare" /\ Prepare("controller", ctl.version)
        /\ ctl' = [ctl EXCEPT !.pc = "submitting"] /\ UNCHANGED <<person, marker, record, given>>
    BY <1>2 DEF RunJob
  <2>2. ctl.version \in Versions /\ ctl \in CtlRecord
    BY DEF ClientInv, ClientType, CtlRecord
  <2>3. /\ sub.pc = "idle" /\ sub'.pc = "prepared" /\ sub'.by = "controller" /\ sub' \in SubRecord
        /\ sub'.id \in Ids /\ sub'.host \in Hosts /\ ~Known(sub'.id)
        /\ ran' \in [Ids -> 0..MaxVersion] /\ ran'[sub'.id] = ctl.version
        /\ \A id \in Ids : Known(id) => ran'[id] = ran[id]
        /\ UNCHANGED <<lookupVars, wait>>
    BY <2>1, <2>2, PrepareIs
  <2>4. LookupSound'
    BY <2>3, LookupStays DEF ClientInv
  <2>5. /\ ctl' \in CtlRecord /\ ctl'.pc = "submitting" /\ ctl'.version = ctl.version
        /\ ctl'.flight = ctl.flight /\ ctl'.earlier = ctl.earlier /\ ctl'.said = ctl.said
    BY <2>1, <2>2 DEF CtlRecord, CtlPc
  <2>6. ClientType'
    BY <2>1, <2>3, <2>5 DEF ClientInv, ClientType
  <2>7. SubmitSound'
    BY <2>3, <2>5 DEF ClientInv, SubmitSound, lookupVars, Known
  <2>8. NamesSound'
    <3>1. ctl.flight = None /\ ctl.said = "none"
      BY <2>1, <2>2 DEF ClientInv, NamesSound, CtlRecord
    <3> QED
      BY <2>1, <2>3, <2>5, <3>1 DEF ClientInv, NamesSound, lookupVars, Known, ExternalJobids
  <2>9. WaitSound'
    BY <2>3 DEF ClientInv, WaitSound, lookupVars, Known, WatchSound
  <2>10. SuccessIsOne'
    <3>1. \A id \in Ids : job[id].end = "succeeded" => ran'[id] = ran[id]
      BY <2>3, UnknownIs
    <3> QED  BY <2>1, <2>3, <2>5, <3>1 DEF ClientInv, SuccessIsOne, lookupVars
  <2> QED  BY <2>4, <2>6, <2>7, <2>8, <2>9, <2>10 DEF ClientInv
<1> QED  BY <1>1, <1>2

LEMMA NoSubmitType == NoSubmit \in SubRecord /\ NoSubmit.pc = "idle"
BY DEF NoSubmit, SubRecord, SubPc

\* A submit that fails takes its rule's run with it.
LEMMA RaisesIs ==
  ASSUME ClientInv, SubmitRaises, sub.pc # "idle"
  PROVE  /\ sub' = NoSubmit /\ sub' \in SubRecord /\ sub'.pc = "idle"
         /\ ctl' \in CtlRecord /\ ctl'.pc # "submitting"
         /\ ctl'.flight = ctl.flight /\ ctl'.version = ctl.version /\ ctl'.earlier = ctl.earlier
         /\ ctl'.failure = ctl.failure
         /\ \/ sub.by = "person" /\ UNCHANGED <<ctl, marker>>
            \/ sub.by = "controller" /\ ctl'.pc = "over" /\ ctl'.said = "error"
         /\ ctl'.flight # None <=> ctl'.pc \in {"submitted", "marking", "active"}
         /\ marker' \in [Outputs -> Ids \cup {None}] /\ ExternalJobids' \in {{}, ExternalJobids}
         /\ UNCHANGED <<record, given>>
<1>1. sub' = NoSubmit /\ UNCHANGED <<record, given>>
  BY DEF SubmitRaises
<1>2. ctl \in CtlRecord /\ sub \in SubRecord
  BY DEF ClientInv, ClientType
<1>3. CASE sub.by = "controller"
  <2>1. ctl' = [ctl EXCEPT !.pc = "over", !.said = "error"] /\ ctl.pc = "submitting"
        /\ (Unmarked \/ UNCHANGED marker)
    BY <1>3 DEF SubmitRaises, ClientInv, SubmitSound
  <2>2. /\ ctl' \in CtlRecord /\ ctl'.pc = "over" /\ ctl'.said = "error"
        /\ ctl'.flight = ctl.flight /\ ctl'.version = ctl.version /\ ctl'.earlier = ctl.earlier
        /\ ctl'.failure = ctl.failure
    BY <1>2, <2>1 DEF CtlRecord, CtlPc
  <2>3. ctl.flight = None
    BY <2>1 DEF ClientInv, NamesSound
  <2>4. marker' \in [Outputs -> Ids \cup {None}] /\ ExternalJobids' \in {{}, ExternalJobids}
    BY <2>1 DEF ClientInv, ClientType, Unmarked, ExternalJobids
  <2> QED  BY <1>1, <1>3, <2>2, <2>3, <2>4, NoSubmitType
<1>4. CASE sub.by # "controller"
  <2>1. UNCHANGED <<ctl, marker>> /\ sub.by = "person" /\ ctl.pc # "submitting"
    BY <1>2, <1>4 DEF SubmitRaises, ClientInv, SubmitSound, SubRecord
  <2>2. marker' \in [Outputs -> Ids \cup {None}] /\ ExternalJobids' = ExternalJobids
    BY <2>1 DEF ClientInv, ClientType, ExternalJobids
  <2> QED  BY <1>1, <1>2, <2>1, <2>2, NoSubmitType DEF ClientInv, NamesSound
<1> QED  BY <1>3, <1>4

LEMMA SubmitFailsStep ==
  ASSUME ClientInv, SubmitFails
  PROVE  ClientInv'
<1>1. /\ sub.pc \in {"prepared", "staged"} /\ SubmitRaises
      /\ ran' = [ran EXCEPT ![sub.id] = 0] /\ person' = person \ {sub.id} /\ UNCHANGED <<lookupVars, wait>>
  BY DEF SubmitFails
<1>2. sub.pc # "idle"
  BY <1>1
<1>3. /\ sub' = NoSubmit /\ sub' \in SubRecord /\ sub'.pc = "idle"
      /\ ctl' \in CtlRecord /\ ctl'.pc # "submitting"
      /\ ctl'.flight = ctl.flight /\ ctl'.version = ctl.version /\ ctl'.earlier = ctl.earlier
      /\ (sub.by = "person" /\ UNCHANGED <<ctl, marker>>) \/ (ctl'.pc = "over" /\ ctl'.said = "error")
      /\ ctl'.flight # None <=> ctl'.pc \in {"submitted", "marking", "active"}
      /\ marker' \in [Outputs -> Ids \cup {None}] /\ ExternalJobids' \in {{}, ExternalJobids}
      /\ UNCHANGED <<record, given>>
  BY <1>1, <1>2, RaisesIs
<1>4. ~Known(sub.id) /\ sub.id \in Ids
  BY <1>1, <1>2 DEF ClientInv, SubmitSound
<1>5. ran' \in [Ids -> 0..MaxVersion] /\ (\A id \in Ids : Known(id) => ran'[id] = ran[id])
  <2>1. 0 \in 0..MaxVersion
    BY BoundsAssumption
  <2> QED  BY <1>1, <1>4, <2>1 DEF ClientInv, ClientType
<1>6. LookupSound'
  BY <1>1, LookupStays DEF ClientInv
<1>7. ClientType'
  BY <1>1, <1>3, <1>5 DEF ClientInv, ClientType
<1>8. SubmitSound'
  BY <1>3 DEF SubmitSound
<1>9. NamesSound'
  <2>1. ctl.flight # None => ctl.flight \in Ids
    BY DEF ClientInv, ClientType, CtlRecord
  <2>2. /\ ctl'.said # "none" => ctl'.pc \in {"over", "off"}
        /\ ctl'.said = "success" => ctl'.pc = "over"
    BY <1>3 DEF ClientInv, NamesSound
  <2> QED
    BY <1>1, <1>3, <1>5, <2>1, <2>2 DEF ClientInv, NamesSound, lookupVars, Known
<1>10. WaitSound'
  BY <1>1 DEF ClientInv, WaitSound, lookupVars, Known, WatchSound
<1>11. SuccessIsOne'
  <2>1. \A id \in Ids : job[id].end = "succeeded" => ran'[id] = ran[id]
    BY <1>5, UnknownIs
  <2> QED  BY <1>1, <1>3, <2>1 DEF ClientInv, SuccessIsOne, lookupVars
<1> QED  BY <1>6, <1>7, <1>8, <1>9, <1>10, <1>11 DEF ClientInv

\* A host takes a job.
LEMMA EnqueueIs ==
  ASSUME ClientInv, EnqueueSpec
  PROVE  /\ sub.pc = "staged" /\ sub.id \in Ids /\ sub.host \in Hosts /\ ~Known(sub.id) /\ net[sub.host] = "up"
         /\ \A id \in Ids : id # sub.id => job'[id] = job[id]
         /\ LookupSound' /\ job'[sub.id].host = sub.host
         /\ job'[sub.id].status = "queued" /\ job'[sub.id].end = "none"
         /\ UNCHANGED <<net, registry, mirror, indexVars, ran, person, wait>>
<1>1. /\ sub.pc = "staged" /\ sub.id \in Ids /\ sub.host \in Hosts /\ ~Known(sub.id)
      /\ UNCHANGED <<net, registry, mirror, indexVars, ran, person, wait>> /\ net[sub.host] = "up"
      /\ job' = [job EXCEPT ![sub.id] = [NoJob EXCEPT !.host = sub.host, !.status = "queued"]]
  BY DEF EnqueueSpec, ClientInv, SubmitSound
<1> DEFINE k == [NoJob EXCEPT !.host = sub.host, !.status = "queued"]
<1>2. k \in JobRecord /\ k.host = sub.host /\ k.status = "queued" /\ k.end = "none"
  BY <1>1 DEF NoJob, JobRecord, JobStatus, Live
<1>3. job \in [Ids -> JobRecord]
  BY DEF ClientInv, LookupSound, LookupType
<1> HIDE DEF k
<1>4. job'[sub.id] = k /\ (\A id \in Ids : id # sub.id => job'[id] = job[id]) /\ job' \in [Ids -> JobRecord]
  BY <1>1, <1>2, <1>3 DEF k
<1>5. /\ mirror[sub.id] = "none" /\ localIndex[sub.id] = None /\ s3Index[sub.id] = None
  BY <1>1, UnknownIs
<1>6. LookupType' /\ EntriesSound'
  BY <1>1, <1>4 DEF ClientInv, LookupSound, LookupType, EntriesSound, indexVars
<1>7. IndexesSound'
  BY <1>1, <1>2, <1>4, <1>5 DEF ClientInv, LookupSound, IndexesSound, indexVars, Known
<1>8. JobsSound'
  BY <1>1, <1>2, <1>4, <1>5 DEF ClientInv, LookupSound, JobsSound, Live, FINISHED_STATUSES
<1>9. LookupSound'
  BY <1>6, <1>7, <1>8 DEF LookupSound
<1> QED  BY <1>1, <1>2, <1>4, <1>9

LEMMA EnqueueStep ==
  ASSUME ClientInv, EnqueueSpec
  PROVE  ClientInv'
<1>1. /\ sub.pc = "staged" /\ sub.id \in Ids /\ sub.host \in Hosts /\ ~Known(sub.id)
      /\ \A id \in Ids : id # sub.id => job'[id] = job[id]
      /\ LookupSound' /\ job'[sub.id].host = sub.host /\ job'[sub.id].status = "queued"
      /\ UNCHANGED <<net, registry, mirror, indexVars, ran, person, wait>>
  BY EnqueueIs
<1>2. \/ sub' = [sub EXCEPT !.pc = "accepted"] /\ UNCHANGED ctlVars
      \/ SubmitRaises
  BY DEF EnqueueSpec
<1>3. /\ \A id \in Ids : Known(id) => Known(id)' /\ job'[id].host = job[id].host /\ job'[id].end = job[id].end
      /\ \A id \in Ids : job[id].end # "none" => job'[id].end = job[id].end
  BY <1>1, UnknownIs DEF Known
<1>4. sub \in SubRecord
  BY DEF ClientInv, ClientType
<1>5. WaitSound'
  <2>1. wait.id \in Ids \cup {None}
    BY DEF ClientInv, ClientType, WaitRecord
  <2> QED
    BY <1>1, <1>3, <2>1 DEF WaitSound, ClientInv, WatchSound, FINISHED_STATUSES
<1>6. CASE sub' = [sub EXCEPT !.pc = "accepted"] /\ UNCHANGED ctlVars
  <2>1. sub' \in SubRecord /\ sub'.pc = "accepted" /\ sub'.id = sub.id /\ sub'.host = sub.host /\ sub'.by = sub.by
    BY <1>4, <1>6 DEF SubRecord, SubPc
  <2>2. ClientType'
    BY <1>1, <1>6, <2>1 DEF ClientInv, ClientType, ctlVars
  <2>3. SubmitSound'
    BY <1>1, <1>6, <2>1 DEF ClientInv, SubmitSound, ctlVars, Known
  <2>4. NamesSound'
    BY <1>1, <1>3, <1>6 DEF ClientInv, NamesSound, ctlVars, indexVars, ExternalJobids
  <2>5. SuccessIsOne'
    BY <1>1, <1>3, <1>6 DEF ClientInv, SuccessIsOne, ctlVars
  <2> QED  BY <1>1, <1>5, <2>2, <2>3, <2>4, <2>5 DEF ClientInv
<1>7. CASE SubmitRaises
  <2>1. /\ sub' \in SubRecord /\ sub'.pc = "idle" /\ sub' = NoSubmit
        /\ ctl' \in CtlRecord /\ ctl'.pc # "submitting"
        /\ ctl'.flight = ctl.flight /\ ctl'.version = ctl.version /\ ctl'.earlier = ctl.earlier
        /\ (sub.by = "person" /\ UNCHANGED <<ctl, marker>>) \/ (ctl'.pc = "over" /\ ctl'.said = "error")
        /\ ctl'.flight # None <=> ctl'.pc \in {"submitted", "marking", "active"}
        /\ marker' \in [Outputs -> Ids \cup {None}] /\ ExternalJobids' \in {{}, ExternalJobids}
        /\ UNCHANGED <<record, given>>
    BY <1>1, <1>7, RaisesIs
  <2>2. ClientType'
    BY <1>1, <2>1 DEF ClientInv, ClientType
  <2>3. SubmitSound'
    BY <2>1 DEF SubmitSound
  <2>4. NamesSound'
    <3>1. /\ ctl'.said # "none" => ctl'.pc \in {"over", "off"}
          /\ ctl'.said = "success" => ctl'.pc = "over"
      BY <2>1 DEF ClientInv, NamesSound
    <3> QED
      BY <1>1, <1>3, <2>1, <3>1 DEF ClientInv, NamesSound, indexVars
  <2>5. SuccessIsOne'
    BY <1>1, <1>3, <2>1 DEF ClientInv, SuccessIsOne
  <2> QED  BY <1>1, <1>5, <2>2, <2>3, <2>4, <2>5 DEF ClientInv
<1> QED  BY <1>2, <1>6, <1>7

\* The rest of a submit: what goes to the mirror and to the indexes.
LEMMA HandingStep ==
  ASSUME ClientInv, StageJob \/ MirrorSpec \/ RecordIndex \/ PutIndex
  PROVE  ClientInv'
<1>1. sub \in SubRecord /\ ctl \in CtlRecord
  BY DEF ClientInv, ClientType
<1>2. CASE StageJob \/ MirrorSpec
  <2>1. UNCHANGED <<lookupVars, ran, person, ctlVars, wait>>
    BY <1>2 DEF StageJob, MirrorSpec
  <2>2. \/ sub.pc = "prepared" /\ sub' = [sub EXCEPT !.pc = "staged"]
        \/ sub.pc = "accepted" /\ sub' = [sub EXCEPT !.pc = "mirrored"]
    BY <1>2 DEF StageJob, MirrorSpec
  <2>3. /\ sub' \in SubRecord /\ sub'.id = sub.id /\ sub'.host = sub.host /\ sub'.by = sub.by
        /\ \/ sub.pc = "prepared" /\ sub'.pc = "staged"
           \/ sub.pc = "accepted" /\ sub'.pc = "mirrored"
    BY <1>1, <2>2 DEF SubRecord, SubPc
  <2>4. LookupSound'
    BY <2>1, LookupStays DEF ClientInv
  <2>5. ClientType'
    BY <2>1, <2>3 DEF ClientInv, ClientType, ctlVars
  <2>6. SubmitSound'
    BY <2>1, <2>3 DEF ClientInv, SubmitSound, ctlVars, lookupVars, Known
  <2>7. NamesSound' /\ WaitSound' /\ SuccessIsOne'
    BY <2>1 DEF ClientInv, NamesSound, WaitSound, SuccessIsOne, ctlVars, lookupVars, Known,
                WatchSound, ExternalJobids
  <2> QED  BY <2>4, <2>5, <2>6, <2>7 DEF ClientInv
<1>3. CASE RecordIndex /\ ~SubmitRaises
  <2>1. /\ sub.pc = "mirrored" /\ localIndex' = [localIndex EXCEPT ![sub.id] = sub.host]
        /\ sub' = [sub EXCEPT !.pc = "recorded"]
        /\ UNCHANGED <<hostVars, s3Index, ran, person, ctlVars, wait>>
    BY <1>3 DEF RecordIndex
  <2>2. /\ sub' \in SubRecord /\ sub'.id = sub.id /\ sub'.host = sub.host /\ sub'.by = sub.by
        /\ sub'.pc = "recorded"
    BY <1>1, <2>1 DEF SubRecord, SubPc
  <2>3. sub.id \in Ids /\ sub.host \in Hosts /\ Known(sub.id) /\ job[sub.id].host = sub.host
    BY <2>1 DEF ClientInv, SubmitSound
  <2>4. \A id \in Ids : localIndex'[id] = localIndex[id] \/ (id = sub.id /\ localIndex'[id] = sub.host)
    BY <2>1 DEF ClientInv, LookupSound, LookupType
  <2>5. localIndex'[sub.id] = sub.host
    BY <2>1, <2>3 DEF ClientInv, LookupSound, LookupType
  <2>6. LookupSound'
    <3>1. LookupType' /\ EntriesSound' /\ JobsSound'
      BY <2>1, <2>3 DEF ClientInv, LookupSound, LookupType, EntriesSound, JobsSound, hostVars
    <3>2. IndexesSound'
      BY <2>1, <2>3, <2>4 DEF ClientInv, LookupSound, IndexesSound, hostVars, Known
    <3> QED  BY <3>1, <3>2 DEF LookupSound
  <2>7. ClientType'
    BY <2>1, <2>2 DEF ClientInv, ClientType, ctlVars
  <2>8. SubmitSound'
    BY <2>1, <2>2, <2>3, <2>5 DEF ClientInv, SubmitSound, ctlVars, hostVars, Known
  <2>9. NamesSound'
    BY <2>1, <2>3, <2>4, NoneIsNobody DEF ClientInv, NamesSound, ctlVars, hostVars, Known, ExternalJobids
  <2>10. WaitSound' /\ SuccessIsOne'
    BY <2>1 DEF ClientInv, WaitSound, SuccessIsOne, ctlVars, hostVars, Known, WatchSound
  <2> QED  BY <2>6, <2>7, <2>8, <2>9, <2>10 DEF ClientInv
<1>5. CASE RecordIndex /\ SubmitRaises
  <2>1. sub.pc = "mirrored" /\ UNCHANGED <<hostVars, s3Index, ran, person, wait>>
        /\ localIndex' \in {localIndex, [localIndex EXCEPT ![sub.id] = sub.host]}
    BY <1>5 DEF RecordIndex
  <2>2. sub.id \in Ids /\ sub.host \in Hosts /\ Known(sub.id) /\ job[sub.id].host = sub.host
    BY <2>1 DEF ClientInv, SubmitSound
  <2>3. /\ sub' \in SubRecord /\ sub'.pc = "idle" /\ sub' = NoSubmit
        /\ ctl' \in CtlRecord /\ ctl'.pc # "submitting"
        /\ ctl'.flight = ctl.flight /\ ctl'.version = ctl.version /\ ctl'.earlier = ctl.earlier
        /\ (sub.by = "person" /\ UNCHANGED <<ctl, marker>>) \/ (ctl'.pc = "over" /\ ctl'.said = "error")
        /\ ctl'.flight # None <=> ctl'.pc \in {"submitted", "marking", "active"}
        /\ marker' \in [Outputs -> Ids \cup {None}] /\ ExternalJobids' \in {{}, ExternalJobids}
        /\ UNCHANGED <<record, given>>
    BY <1>5, <2>1, RaisesIs
  <2>4. \A id \in Ids : localIndex'[id] = localIndex[id] \/ (id = sub.id /\ localIndex'[id] = sub.host)
    BY <2>1 DEF ClientInv, LookupSound, LookupType
  <2>5. LookupSound'
    <3>1. LookupType' /\ EntriesSound' /\ JobsSound'
      BY <2>1, <2>2 DEF ClientInv, LookupSound, LookupType, EntriesSound, JobsSound, hostVars
    <3>2. IndexesSound'
      BY <2>1, <2>2, <2>4 DEF ClientInv, LookupSound, IndexesSound, hostVars, Known
    <3> QED  BY <3>1, <3>2 DEF LookupSound
  <2>6. ClientType'
    BY <2>1, <2>3 DEF ClientInv, ClientType
  <2>7. SubmitSound'
    BY <2>3 DEF SubmitSound
  <2>8. NamesSound'
    <3>1. /\ ctl'.said # "none" => ctl'.pc \in {"over", "off"}
          /\ ctl'.said = "success" => ctl'.pc = "over"
      BY <2>3 DEF ClientInv, NamesSound
    <3> QED
      BY <2>1, <2>2, <2>3, <2>4, <3>1, NoneIsNobody DEF ClientInv, NamesSound, hostVars, Known
  <2>9. WaitSound' /\ SuccessIsOne'
    BY <2>1, <2>3 DEF ClientInv, WaitSound, SuccessIsOne, hostVars, Known, WatchSound
  <2> QED  BY <2>5, <2>6, <2>7, <2>8, <2>9 DEF ClientInv
<1>4. CASE PutIndex
  <2>1. /\ sub.pc = "recorded" /\ s3Index' \in {s3Index, [s3Index EXCEPT ![sub.id] = sub.host]}
        /\ sub' = NoSubmit /\ UNCHANGED <<hostVars, localIndex, ran, person, marker, record, given, wait>>
        /\ ctl' = IF sub.by = "controller"
                  THEN [ctl EXCEPT !.pc = "submitted", !.flight = sub.id] ELSE ctl
    BY <1>4 DEF PutIndex
  <2>2. /\ sub.id \in Ids /\ sub.host \in Hosts /\ Known(sub.id) /\ job[sub.id].host = sub.host
        /\ localIndex[sub.id] = sub.host
    BY <2>1 DEF ClientInv, SubmitSound
  <2>3. LookupSound'
    <3>1. LookupType' /\ EntriesSound' /\ JobsSound'
      BY <2>1, <2>2 DEF ClientInv, LookupSound, LookupType, EntriesSound, JobsSound, hostVars
    <3>2. IndexesSound'
      BY <2>1, <2>2 DEF ClientInv, LookupSound, LookupType, IndexesSound, hostVars, Known
    <3> QED  BY <3>1, <3>2 DEF LookupSound
  <2>4. /\ ctl' \in CtlRecord /\ ctl'.version = ctl.version /\ ctl'.earlier = ctl.earlier
        /\ ctl'.said = ctl.said
        /\ \/ sub.by = "controller" /\ ctl'.pc = "submitted" /\ ctl'.flight = sub.id
           \/ sub.by # "controller" /\ ctl' = ctl
    BY <1>1, <2>1, <2>2 DEF CtlRecord, CtlPc
  <2>5. ClientType'
    BY <2>1, <2>4, NoSubmitType DEF ClientInv, ClientType
  <2>6. SubmitSound'
    <3>1. ctl'.pc # "submitting"
      BY <1>1, <2>4 DEF ClientInv, SubmitSound
    <3> QED  BY <2>1, <3>1, NoSubmitType DEF SubmitSound
  <2>7. NamesSound'
    <3>1. CASE sub.by = "controller"
      <4>1. ctl.pc = "submitting" /\ ran[sub.id] = ctl.version
        BY <2>1, <3>1 DEF ClientInv, SubmitSound
      <4>2. ctl.said = "none"
        BY <1>1, <4>1 DEF ClientInv, NamesSound, CtlRecord
      <4> QED
        BY <2>1, <2>2, <2>4, <3>1, <4>1, <4>2, NoneIsNobody
           DEF ClientInv, NamesSound, hostVars, Known, ExternalJobids
    <3>2. CASE sub.by # "controller"
      BY <2>1, <2>4, <3>2 DEF ClientInv, NamesSound, hostVars, Known, ExternalJobids
    <3> QED  BY <3>1, <3>2
  <2>8. WaitSound' /\ SuccessIsOne'
    BY <2>1, <2>4 DEF ClientInv, WaitSound, SuccessIsOne, hostVars, Known, WatchSound
  <2> QED  BY <2>3, <2>5, <2>6, <2>7, <2>8 DEF ClientInv
<1> QED  BY <1>2, <1>3, <1>4, <1>5

\* What a step of the controller may change.
ControllerMoves ==
  /\ UNCHANGED <<indexVars, net, registry, mirror, ran, person, wait>>
  /\ sub' = sub \/ sub' = NoSubmit
  /\ ctl' \in CtlRecord /\ marker' \in [Outputs -> Ids \cup {None}] /\ given' \subseteq Ids
  /\ record' \in [Ids -> 0..MaxVersion]
  /\ \A id \in Ids : id \in ExternalJobids' \/ ctl'.flight = id => id \in ExternalJobids \/ ctl.flight = id
  /\ ctl'.flight # None <=> ctl'.pc \in {"submitted", "marking", "active"}
  /\ \A id \in Ids : record'[id] \in {0, record[id]} \/ id = ctl.flight
  /\ "edits" \in Assumed =>
       /\ ctl'.flight # None => ran[ctl'.flight] = ctl'.version
       /\ \A id \in Ids : record'[id] \in {0, record[id]} \/ (id = ctl.flight /\ record'[id] = ctl.version)
  /\ \A id \in Ids : ctl'.earlier[id] = "succeeded" => job[id].end = "succeeded"
  /\ ctl'.said # "none" => ctl'.pc \in {"over", "off"}
  /\ ctl'.said = "success" => ctl'.pc = "over"
  /\ "edits" \in Assumed /\ ctl'.said = "success" =>
       \E id \in Ids : ran[id] = ctl'.version /\ job[id].end = "succeeded"
  /\ ctl'.pc # "submitting" /\ (sub'.pc # "idle" => sub'.by = "person")

LEMMA ControllerStays ==
  ASSUME ClientInv, ControllerMoves, JobsMove
  PROVE  ClientInv'
<1> USE DEF ControllerMoves
<1>1. LookupSound'
  <2>1. Mirrors /\ net' \in [Hosts -> {"up", "dead", "gone"}]
        /\ registry' \in [Hosts -> {"read", "unreadable", "none"}] /\ EntriesSound'
    BY DEF ClientInv, LookupSound, LookupType, EntriesSound, Mirrors
  <2> QED  BY <2>1, LookupMoves DEF ClientInv
<1>2. \A id \in Ids : (Known(id)' <=> Known(id)) /\ job'[id].host = job[id].host
  BY JobsMoveIs DEF ClientInv
<1>3. \A id \in Ids : job[id].end # "none" => job'[id].end = job[id].end
  BY JobsMoveIs DEF ClientInv
<1>4. ClientType'
  BY NoSubmitType DEF ClientInv, ClientType
<1>5. SubmitSound'
  <2>1. CASE sub' = NoSubmit
    BY <2>1, NoSubmitType DEF SubmitSound
  <2>2. CASE sub' = sub
    BY <1>2, <2>2 DEF ClientInv, SubmitSound, indexVars, Known
  <2> QED  BY <2>1, <2>2
<1>6. NamesSound'
  <2>1. \A id \in Ids : id \in ExternalJobids' \/ ctl'.flight = id => Known(id)' /\ localIndex'[id] # None
    BY <1>2 DEF ClientInv, NamesSound, indexVars
  <2>2. \A id \in Ids : record'[id] # 0 => Known(id)'
    <3>1. ASSUME NEW id \in Ids, record'[id] # 0 PROVE Known(id)
      <4>1. record'[id] = record[id] \/ id = ctl.flight
        BY <3>1
      <4>2. id = ctl.flight => Known(id)
        BY NoneIsNobody DEF ClientInv, NamesSound
      <4> QED  BY <3>1, <4>1, <4>2 DEF ClientInv, NamesSound
    <3> QED  BY <1>2, <3>1
  <2>4. "edits" \in Assumed => /\ ctl'.flight # None => ran'[ctl'.flight] = ctl'.version
                               /\ \A id \in Ids : record'[id] # 0 => record'[id] = ran'[id]
    <3>1. ASSUME "edits" \in Assumed, NEW id \in Ids, record'[id] # 0
          PROVE  record'[id] = ran[id]
      <4>1. record'[id] = record[id] \/ (id = ctl.flight /\ record'[id] = ctl.version)
        BY <3>1
      <4>2. record[id] # 0 => record[id] = ran[id]
        BY <3>1 DEF ClientInv, NamesSound
      <4>3. id = ctl.flight => ran[id] = ctl.version
        BY <3>1, NoneIsNobody DEF ClientInv, NamesSound
      <4> QED  BY <3>1, <4>1, <4>2, <4>3
    <3>2. ran' = ran
      OBVIOUS
    <3> QED  BY <3>1, <3>2
  <2>3. \A id \in Ids : ctl'.earlier[id] = "succeeded" => job'[id].end = "succeeded"
    BY <1>3
  <2>5. /\ ctl'.flight # None <=> ctl'.pc \in {"submitted", "marking", "active"}
        /\ ctl'.said # "none" => ctl'.pc \in {"over", "off"}
        /\ ctl'.said = "success" => ctl'.pc = "over"
    OBVIOUS
  <2> QED  BY <2>1, <2>2, <2>3, <2>4, <2>5 DEF NamesSound
<1>7. WaitSound'
  <2>1. wait.id \in Ids \cup {None}
    BY DEF ClientInv, ClientType, WaitRecord
  <2> QED
    BY <1>2, <1>3, <2>1 DEF WaitSound, ClientInv, WatchSound, Known, FINISHED_STATUSES
<1>8. SuccessIsOne'
  BY <1>3 DEF SuccessIsOne
<1> QED  BY <1>1, <1>4, <1>5, <1>6, <1>7, <1>8 DEF ClientInv

\* The steps of the controller but RunJob, which is a submit's too.
ControllerAct ==
  \/ StartController \/ EarlierJobs \/ AdoptFails \/ Adopt \/ Replace \/ NothingToAdopt
  \/ WriteRecord \/ ReportSubmission \/ CheckActiveJobs \/ CancelFlight \/ ControllerKilled

\* Only a person's submit goes on while the controller does something else.
LEMMA OthersSubmit ==
  ASSUME ClientInv, ctl.pc # "submitting", sub.pc # "idle"
  PROVE  sub.by = "person"
BY DEF ClientInv, ClientType, SubRecord, SubmitSound

LEMMA DecidedIs ==
  ASSUME ctl \in CtlRecord, NEW d, d = Decided
  PROVE  /\ d \in CtlRecord /\ d.pc = ctl.pc /\ d.flight = ctl.flight /\ d.version = ctl.version
         /\ d.said = ctl.said /\ d.earlier = NoEarlier /\ ~d.failure /\ ~d.forced
BY DEF Decided, CtlRecord, NoEarlier

\* The two ways in which the controller reports an end.
LEMMA ReportsIs ==
  ASSUME ClientInv, NEW id \in Ids, ReportSuccess(id) \/ ReportError(id)
  PROVE  /\ ctl' \in CtlRecord /\ ctl'.pc = "over" /\ ctl'.flight = None /\ ctl'.version = ctl.version
         /\ ctl'.said = "success" => ReportSuccess(id)
         /\ ctl'.said \in {"success", "error"}
         /\ \A i \in Ids : ctl'.earlier[i] = "succeeded" => job[i].end = "succeeded"
         /\ record' \in [Ids -> 0..MaxVersion] /\ \A i \in Ids : record'[i] \in {0, record[i]}
         /\ marker' \in [Outputs -> Ids \cup {None}] /\ ExternalJobids' \subseteq ExternalJobids
         /\ ReportSuccess(id) => ExternalJobids' = {} /\ ctl'.said = "success"
         /\ ExternalJobids' \in {{}, ExternalJobids}
<1> DEFINE d == Decided
<1>1. ctl \in CtlRecord
  BY DEF ClientInv, ClientType
<1>2. /\ d \in CtlRecord /\ d.version = ctl.version /\ d.earlier = NoEarlier
  BY <1>1, DecidedIs
<1>3. /\ record' = [record EXCEPT ![id] = 0] /\ 0 \in 0..MaxVersion
      /\ Unmarked \/ UNCHANGED marker
  BY BoundsAssumption DEF ReportSuccess, ReportError
<1>4. record' \in [Ids -> 0..MaxVersion] /\ \A i \in Ids : record'[i] \in {0, record[i]}
  BY <1>3 DEF ClientInv, ClientType
<1>5. /\ marker' \in [Outputs -> Ids \cup {None}]
      /\ Unmarked => ExternalJobids' = {}
      /\ ExternalJobids' \in {{}, ExternalJobids}
  BY <1>3 DEF ClientInv, ClientType, Unmarked, ExternalJobids
<1> HIDE DEF d
<1>6. CASE ReportSuccess(id)
  <2>1. ctl' = [d EXCEPT !.pc = "over", !.said = "success", !.flight = None] /\ Unmarked
    BY <1>6 DEF ReportSuccess, d
  <2>2. /\ ctl' \in CtlRecord /\ ctl'.pc = "over" /\ ctl'.flight = None /\ ctl'.version = ctl.version
        /\ ctl'.said = "success" /\ ctl'.earlier = NoEarlier
    BY <1>2, <2>1 DEF CtlRecord, CtlPc
  <2>3. \A i \in Ids : ctl'.earlier[i] # "succeeded"
    BY <2>2 DEF NoEarlier
  <2> QED  BY <1>4, <1>5, <1>6, <2>1, <2>2, <2>3
<1>7. CASE ReportError(id)
  <2>1. ctl' = [ctl EXCEPT !.pc = "over", !.said = "error", !.flight = None]
    BY <1>7 DEF ReportError
  <2>2. /\ ctl' \in CtlRecord /\ ctl'.pc = "over" /\ ctl'.flight = None /\ ctl'.version = ctl.version
        /\ ctl'.said = "error" /\ ctl'.earlier = ctl.earlier
    BY <1>1, <2>1 DEF CtlRecord, CtlPc
  <2>3. ~ReportSuccess(id)
    <3>1. ASSUME ReportSuccess(id) PROVE ctl'.said = "success"
      BY <3>1, <1>2 DEF ReportSuccess, d, CtlRecord
    <3> QED  BY <2>2, <3>1
  <2>4. \A i \in Ids : ctl'.earlier[i] = "succeeded" => job[i].end = "succeeded"
    BY <2>2 DEF ClientInv, NamesSound
  <2> QED  BY <1>4, <1>5, <2>2, <2>3, <2>4
<1> QED  BY <1>6, <1>7

\* The fields a step of the controller changes.
LEMMA ControllerStep ==
  ASSUME ClientInv, ControllerAct
  PROVE  ControllerMoves /\ JobsMove
<1>1. /\ ctl \in CtlRecord /\ sub \in SubRecord /\ marker \in [Outputs -> Ids \cup {None}]
      /\ record \in [Ids -> 0..MaxVersion] /\ given \subseteq Ids
      /\ ExternalJobids \subseteq Ids /\ None \notin ExternalJobids
  BY MarkedAreIds DEF ClientInv, ClientType
<1>2. /\ ctl.flight # None <=> ctl.pc \in {"submitted", "marking", "active"}
      /\ "edits" \in Assumed /\ ctl.flight # None => ran[ctl.flight] = ctl.version
      /\ \A id \in Ids : ctl.earlier[id] = "succeeded" => job[id].end = "succeeded"
      /\ ctl.said # "none" => ctl.pc \in {"over", "off"}
      /\ ctl.said = "success" => ctl.pc = "over"
  BY DEF ClientInv, NamesSound
<1>3. ctl.pc # "submitting" => (sub.pc # "idle" => sub.by = "person")
  BY OthersSubmit
<1>4. job' = job => JobsMove
  BY NothingMoves DEF ClientInv
<1>5. NoEarlier \in [Ids -> Outcomes \cup {"unmentioned"}] /\ \A id \in Ids : NoEarlier[id] # "succeeded"
  BY DEF NoEarlier
<1>6. /\ Decided \in CtlRecord /\ Decided.pc = ctl.pc /\ Decided.flight = ctl.flight
      /\ Decided.version = ctl.version /\ Decided.said = ctl.said /\ Decided.earlier = NoEarlier
  BY <1>1, DecidedIs
<1>7. UNCHANGED marker => ExternalJobids' = ExternalJobids
  BY DEF ExternalJobids
<1>8. CASE StartController
  <2>1. PICK v \in Versions, forced \in BOOLEAN :
          ctl' = [ctl EXCEPT !.pc = "earlier", !.starts = @ + 1, !.version = v,
                             !.forced = forced, !.failure = FALSE,
                             !.earlier = NoEarlier, !.flight = None, !.said = "none"]
    BY <1>8 DEF StartController
  <2>2. ctl.pc \in {"off", "over"} /\ ctl.starts < MaxStarts
        /\ UNCHANGED <<lookupVars, sub, ran, person, marker, record, given, wait>>
    BY <1>8 DEF StartController
  <2>3. ctl.starts + 1 \in 0..MaxStarts
    BY <1>1, <2>2, BoundsAssumption DEF CtlRecord
  <2>4. /\ ctl' \in CtlRecord /\ ctl'.pc = "earlier" /\ ctl'.flight = None /\ ctl'.earlier = NoEarlier
        /\ ctl'.said = "none"
    BY <1>1, <1>5, <2>1, <2>3 DEF CtlRecord, CtlPc
  <2> QED
    BY <1>1, <1>3, <1>4, <1>5, <1>7, <2>2, <2>4, NoneIsNobody DEF ControllerMoves, lookupVars, indexVars
<1>9. CASE EarlierJobs
  <2>1. ctl.pc = "earlier" /\ UNCHANGED <<lookupVars, sub, ran, person, marker, record, given, wait>>
    BY <1>9 DEF EarlierJobs
  <2>2. /\ ctl' \in CtlRecord /\ ctl'.pc = "adopt" /\ ctl'.flight = ctl.flight /\ ctl'.said = ctl.said
        /\ \A id \in Ids : ctl'.earlier[id] = "succeeded" => job[id].end = "succeeded"
    <3>1. CASE ctl' = [ctl EXCEPT !.pc = "adopt", !.failure = TRUE]
      BY <1>1, <1>2, <3>1 DEF CtlRecord, CtlPc
    <3>2. ASSUME NEW said \in [ExternalJobids -> Outcomes],
                 \A id \in ExternalJobids : \E w \in Look(id, TRUE) : said[id] = Outcome(w),
                 ctl' = [ctl EXCEPT !.pc = "adopt",
                           !.earlier = [id \in Ids |-> IF id \in ExternalJobids THEN said[id]
                                                       ELSE "unmentioned"]]
          PROVE  /\ ctl' \in CtlRecord /\ ctl'.pc = "adopt" /\ ctl'.flight = ctl.flight
                 /\ ctl'.said = ctl.said
                 /\ \A id \in Ids : ctl'.earlier[id] = "succeeded" => job[id].end = "succeeded"
      <4> DEFINE e == [id \in Ids |-> IF id \in ExternalJobids THEN said[id] ELSE "unmentioned"]
      <4>1. e \in [Ids -> Outcomes \cup {"unmentioned"}]
        BY <3>2
      <4>2. ASSUME NEW id \in Ids, e[id] = "succeeded" PROVE job[id].end = "succeeded"
        <5>1. id \in ExternalJobids /\ said[id] = "succeeded"
          BY <4>2
        <5>2. PICK w \in Look(id, TRUE) : Outcome(w) = "succeeded"
          BY <3>2, <5>1
        <5>3. Known(id)
          BY <5>1 DEF ClientInv, NamesSound
        <5> QED  BY <5>2, <5>3, LookAnswers DEF ClientInv
      <4> HIDE DEF e
      <4>3. ctl' = [ctl EXCEPT !.pc = "adopt", !.earlier = e]
        BY <3>2 DEF e
      <4>4. /\ ctl' \in CtlRecord /\ ctl'.pc = "adopt" /\ ctl'.flight = ctl.flight
            /\ ctl'.said = ctl.said /\ ctl'.earlier = e
        BY <1>1, <4>1, <4>3 DEF CtlRecord, CtlPc
      <4> QED  BY <4>2, <4>4
    <3> QED  BY <1>9, <3>1, <3>2 DEF EarlierJobs
  <2> QED
    BY <1>1, <1>2, <1>3, <1>4, <1>7, <2>1, <2>2 DEF ControllerMoves, lookupVars, indexVars
<1>10. CASE AdoptFails
  <2>1. /\ ctl.pc = "adopt" /\ ctl' = [Decided EXCEPT !.pc = "over", !.said = "error"]
        /\ Unmarked \/ UNCHANGED marker
        /\ UNCHANGED <<lookupVars, sub, ran, person, record, given, wait>>
    BY <1>10 DEF AdoptFails
  <2>3. marker' \in [Outputs -> Ids \cup {None}] /\ ExternalJobids' \subseteq ExternalJobids
    BY <1>1, <2>1 DEF Unmarked, ExternalJobids
  <2>2. /\ ctl' \in CtlRecord /\ ctl'.pc = "over" /\ ctl'.flight = ctl.flight /\ ctl'.said = "error"
        /\ ctl'.earlier = NoEarlier
    BY <1>6, <2>1 DEF CtlRecord, CtlPc
  <2> QED
    BY <1>1, <1>2, <1>3, <1>4, <1>5, <2>1, <2>2, <2>3 DEF ControllerMoves, lookupVars, indexVars
<1>11. CASE NothingToAdopt \/ Replace
  <2>1. /\ ctl.pc = "adopt" /\ ctl' = [Decided EXCEPT !.pc = "prepare"]
        /\ UNCHANGED <<net, registry, mirror, indexVars, sub, ran, person, marker, record, wait>>
        /\ given' \in {given, given \cup ExternalJobids}
    BY <1>11 DEF NothingToAdopt, Replace, lookupVars, indexVars
  <2>2. /\ ctl' \in CtlRecord /\ ctl'.pc = "prepare" /\ ctl'.flight = ctl.flight /\ ctl'.said = ctl.said
        /\ ctl'.earlier = NoEarlier
    BY <1>6, <2>1 DEF CtlRecord, CtlPc
  <2>3. JobsMove
    BY <1>4, <1>11, CancelMoves DEF NothingToAdopt, Replace, lookupVars, ClientInv
  <2> QED
    BY <1>1, <1>2, <1>3, <1>5, <1>7, <2>1, <2>2, <2>3 DEF ControllerMoves
<1>12. CASE Adopt
  <2>1. /\ ctl.pc = "adopt" /\ Chosen # None /\ ~Unlike(Chosen)
        /\ IF ctl.earlier[Chosen] = "succeeded"
           THEN ReportSuccess(Chosen)
           ELSE /\ ctl' = [Decided EXCEPT !.pc = "marking", !.flight = Chosen]
                /\ UNCHANGED <<marker, record>>
        /\ UNCHANGED <<lookupVars, sub, ran, person, given, wait>>
    BY <1>12 DEF Adopt
  <2>2. Chosen \in ExternalJobids /\ Chosen \in Ids
    BY <1>1, <2>1, ChosenIs
  <2>3. "edits" \in Assumed => ran[Chosen] = ctl.version
    <3>1. ctl.version # 0 /\ record[Chosen] = ctl.version
      BY <1>1, <2>1 DEF Unlike, CtlRecord, Versions
    <3> QED  BY <2>2, <3>1 DEF ClientInv, NamesSound
  <2>4. CASE ctl.earlier[Chosen] = "succeeded"
    <3>1. ReportSuccess(Chosen) /\ job[Chosen].end = "succeeded"
      BY <1>2, <2>1, <2>2, <2>4
    <3>2. /\ ctl' \in CtlRecord /\ ctl'.pc = "over" /\ ctl'.flight = None /\ ctl'.version = ctl.version
          /\ \A i \in Ids : ctl'.earlier[i] = "succeeded" => job[i].end = "succeeded"
          /\ record' \in [Ids -> 0..MaxVersion] /\ \A i \in Ids : record'[i] \in {0, record[i]}
          /\ marker' \in [Outputs -> Ids \cup {None}] /\ ExternalJobids' \subseteq ExternalJobids
      BY <2>2, <3>1, ReportsIs
    <3> QED
      BY <1>1, <1>3, <1>4, <2>1, <2>2, <2>3, <3>1, <3>2, NoneIsNobody
         DEF ControllerMoves, lookupVars, indexVars
  <2>5. CASE ctl.earlier[Chosen] # "succeeded"
    <3>1. ctl' = [Decided EXCEPT !.pc = "marking", !.flight = Chosen] /\ UNCHANGED <<marker, record>>
      BY <2>1, <2>5
    <3>2. /\ ctl' \in CtlRecord /\ ctl'.pc = "marking" /\ ctl'.flight = Chosen /\ ctl'.said = ctl.said
          /\ ctl'.version = ctl.version /\ ctl'.earlier = NoEarlier
      BY <1>6, <2>2, <3>1 DEF CtlRecord, CtlPc
    <3> QED
      BY <1>1, <1>2, <1>3, <1>4, <1>5, <1>7, <2>1, <2>2, <2>3, <3>1, <3>2, NoneIsNobody
         DEF ControllerMoves, lookupVars, indexVars
  <2> QED  BY <2>4, <2>5
<1>13. CASE WriteRecord
  <2>1. /\ ctl.pc = "submitted"
        /\ \/ UNCHANGED record
           \/ \E v \in Versions : /\ "edits" \in Assumed => v = ctl.version
                                 /\ record' = [record EXCEPT ![ctl.flight] = v]
        /\ ctl' = [ctl EXCEPT !.pc = "marking"]
        /\ UNCHANGED <<lookupVars, sub, ran, person, marker, given, wait>>
    BY <1>13 DEF WriteRecord
  <2>2. /\ ctl' \in CtlRecord /\ ctl'.pc = "marking" /\ ctl'.flight = ctl.flight /\ ctl'.said = ctl.said
        /\ ctl'.version = ctl.version /\ ctl'.earlier = ctl.earlier
    BY <1>1, <2>1 DEF CtlRecord, CtlPc
  <2>4. /\ record' \in [Ids -> 0..MaxVersion]
        /\ \A id \in Ids : record'[id] = record[id] \/ id = ctl.flight
        /\ "edits" \in Assumed => \A id \in Ids :
             record'[id] = record[id] \/ (id = ctl.flight /\ record'[id] = ctl.version)
    <3>1. CASE UNCHANGED record
      BY <1>1, <3>1
    <3>2. ASSUME NEW v \in Versions, "edits" \in Assumed => v = ctl.version,
                 record' = [record EXCEPT ![ctl.flight] = v]
          PROVE  /\ record' \in [Ids -> 0..MaxVersion]
                 /\ \A id \in Ids : record'[id] = record[id] \/ id = ctl.flight
                 /\ "edits" \in Assumed => \A id \in Ids :
                      record'[id] = record[id] \/ (id = ctl.flight /\ record'[id] = ctl.version)
      <4>1. v \in 0..MaxVersion
        BY DEF Versions
      <4> QED  BY <1>1, <3>2, <4>1
    <3> QED  BY <2>1, <3>1, <3>2
  <2> QED
    BY <1>1, <1>2, <1>3, <1>4, <1>7, <2>1, <2>2, <2>4 DEF ControllerMoves, lookupVars, indexVars
<1>14. CASE ReportSubmission
  <2>1. /\ ctl.pc = "marking" /\ UNCHANGED <<lookupVars, sub, ran, person, record, given, wait>>
        /\ \/ ctl' = ctl
           \/ ctl' = [ctl EXCEPT !.pc = "active"] /\ UNCHANGED marker
        /\ marker' = marker \/ \E o \in Outputs : marker' = [marker EXCEPT ![o] = ctl.flight]
    BY <1>14 DEF ReportSubmission
  <2>2. /\ ctl' \in CtlRecord /\ ctl'.pc \in {"marking", "active"} /\ ctl'.flight = ctl.flight
        /\ ctl'.said = ctl.said /\ ctl'.version = ctl.version /\ ctl'.earlier = ctl.earlier
    BY <1>1, <2>1 DEF CtlRecord, CtlPc
  <2>3. ctl.flight \in Ids
    BY <1>1, <1>2, <2>1 DEF CtlRecord
  <2>4. marker' \in [Outputs -> Ids \cup {None}] /\ ExternalJobids' \subseteq ExternalJobids \cup {ctl.flight}
    BY <1>1, <2>1, <2>3 DEF ExternalJobids
  <2> QED
    BY <1>1, <1>2, <1>3, <1>4, <2>1, <2>2, <2>4 DEF ControllerMoves, lookupVars, indexVars
<1>15. CASE CheckActiveJobs
  <2>1. PICK w \in Look(ctl.flight, TRUE) :
          CASE Outcome(w) = "succeeded" -> ReportSuccess(ctl.flight)
            [] Outcome(w) \in {"failed", "gone"} -> ReportError(ctl.flight)
            [] OTHER -> UNCHANGED <<ctl, marker, record>>
    BY <1>15 DEF CheckActiveJobs
  <2>2. ctl.pc = "active" /\ UNCHANGED <<lookupVars, sub, ran, person, given, wait>>
    BY <1>15 DEF CheckActiveJobs
  <2>3. ctl.flight \in Ids /\ Known(ctl.flight)
        /\ ("edits" \in Assumed => ran[ctl.flight] = ctl.version)
    BY <1>1, <1>2, <2>2, NoneIsNobody DEF CtlRecord, ClientInv, NamesSound
  <2>4. CASE UNCHANGED <<ctl, marker, record>>
    BY <1>1, <1>2, <1>3, <1>4, <1>7, <2>2, <2>4 DEF ControllerMoves, lookupVars, indexVars
  <2>5. CASE ReportSuccess(ctl.flight) \/ ReportError(ctl.flight)
    <3>1. /\ ctl' \in CtlRecord /\ ctl'.pc = "over" /\ ctl'.flight = None /\ ctl'.version = ctl.version
          /\ ctl'.said = "success" => ReportSuccess(ctl.flight)
          /\ \A i \in Ids : ctl'.earlier[i] = "succeeded" => job[i].end = "succeeded"
          /\ record' \in [Ids -> 0..MaxVersion] /\ \A i \in Ids : record'[i] \in {0, record[i]}
          /\ marker' \in [Outputs -> Ids \cup {None}] /\ ExternalJobids' \subseteq ExternalJobids
      BY <2>3, <2>5, ReportsIs
    <3>2. ctl'.said = "success" => job[ctl.flight].end = "succeeded"
      <4>1. ASSUME ctl'.said = "success" PROVE Outcome(w) = "succeeded"
        <5>1. ReportSuccess(ctl.flight)
          BY <3>1, <4>1
        <5>2. ~ReportError(ctl.flight)
          BY <1>1, <4>1 DEF ReportError, CtlRecord
        <5>3. ctl' # ctl
          BY <1>2, <2>2, <4>1
        <5> QED  BY <2>1, <5>2, <5>3
      <4> QED  BY <2>3, <4>1, LookAnswers DEF ClientInv
    <3> QED
      BY <1>1, <1>3, <1>4, <2>2, <2>3, <3>1, <3>2, NoneIsNobody
         DEF ControllerMoves, lookupVars, indexVars
  <2> QED  BY <2>1, <2>4, <2>5
<1>16. CASE CancelFlight \/ ControllerKilled
  <2>1. /\ ctl.pc \notin {"off", "over"} /\ ctl' = [ctl EXCEPT !.pc = "off", !.flight = None]
        /\ UNCHANGED <<net, registry, mirror, indexVars, ran, person, marker, record, given, wait>>
        /\ \/ sub' = sub /\ ctl.pc # "submitting"
           \/ sub' = IF sub.by = "controller" THEN NoSubmit ELSE sub
    BY <1>16 DEF CancelFlight, ControllerKilled, lookupVars, indexVars
  <2>2. /\ ctl' \in CtlRecord /\ ctl'.pc = "off" /\ ctl'.flight = None /\ ctl'.said = ctl.said
        /\ ctl'.earlier = ctl.earlier
    BY <1>1, <2>1 DEF CtlRecord, CtlPc
  <2>3. sub'.pc # "idle" => sub'.by = "person"
    BY <1>1, <1>3, <2>1, NoSubmitType DEF SubRecord
  <2>4. JobsMove
    BY <1>4, <1>16, CancelMoves DEF CancelFlight, ControllerKilled, lookupVars, ClientInv
  <2> QED
    BY <1>1, <1>2, <1>7, <2>1, <2>2, <2>3, <2>4, NoneIsNobody DEF ControllerMoves
<1> QED
  BY <1>8, <1>9, <1>10, <1>11, <1>12, <1>13, <1>14, <1>15, <1>16 DEF ControllerAct

\* A wait that goes on asks the host that was named, or the job's.
WaitAt ==
  wait.id # None /\ ~wait.job.error => wait.job.host = Target(wait.id, wait.named)

\* A wait's lookup and its rounds.
LEMMA WaitStep ==
  ASSUME ClientInv, (\E id \in Ids : StartWait(id)) \/ \E over \in BOOLEAN : Round(over)
  PROVE  /\ ClientInv' /\ UNCHANGED <<lookupVars, sub, ran, person, ctlVars>>
         /\ wait'.id \in Ids /\ wait'.named \in Hosts \cup {None} /\ (WaitAt => WaitAt')
         /\ wait'.job.missing /\ UnreadableIndexed /\ "mirror" \in Assumed /\ WaitAt =>
              \/ /\ wait.id # None /\ wait'.id = wait.id /\ wait'.named = wait.named
                 /\ wait.job.missing
              \/ NotAmong(wait'.id, SoughtAt(wait'.named))
<1>1. wait \in WaitRecord /\ NoneIsNobody
  BY NoneIsNobody DEF ClientInv, ClientType
<1>2. UNCHANGED <<lookupVars, sub, ran, person, ctlVars>>
  BY DEF StartWait, Round
<1>3. LookupSound' /\ SubmitSound' /\ NamesSound' /\ SuccessIsOne'
  <2>1. LookupSound'
    BY <1>2, LookupStays DEF ClientInv
  <2>2. SubmitSound' /\ NamesSound' /\ SuccessIsOne'
    BY <1>2 DEF ClientInv, SubmitSound, NamesSound, SuccessIsOne, lookupVars, ctlVars, Known, ExternalJobids
  <2> QED  BY <2>1, <2>2
<1> DEFINE Waits(w) == [pc : {"off", "poll", "over"}, id : Ids \cup {None}, named : Hosts \cup {None},
                         round : {0, 1}, job : {w}]
<1>4. ASSUME NEW id \in Ids, Known(id), NEW w, WatchSound(w, id),
             wait'.id = id, wait'.job = w, wait' \in Waits(w)
      PROVE  ClientInv'
  <2>1. wait' \in WaitRecord
    BY <1>4 DEF WaitRecord, WatchSound
  <2>2. WaitSound'
    BY <1>2, <1>4, NoneIsNobody DEF WaitSound, lookupVars, Known, WatchSound
  <2>3. ClientType'
    BY <1>2, <2>1 DEF ClientInv, ClientType, ctlVars
  <2> QED  BY <1>3, <2>2, <2>3 DEF ClientInv
<1>5. ASSUME NEW id \in Ids, StartWait(id)
      PROVE  /\ ClientInv' /\ WaitAt'
             /\ wait'.id \in Ids /\ wait'.named \in Hosts \cup {None}
             /\ wait'.job.missing /\ UnreadableIndexed /\ "mirror" \in Assumed =>
                  NotAmong(wait'.id, SoughtAt(wait'.named))
  <2>1. PICK here \in BOOLEAN, named \in Hosts \cup {None} : \E w \in Start(id, here, named) :
          wait' = [pc |-> "poll", id |-> id, named |-> named, round |-> 0, job |-> w]
    BY <1>5 DEF StartWait
  <2>2. PICK w \in Start(id, here, named) :
          wait' = [pc |-> "poll", id |-> id, named |-> named, round |-> 0, job |-> w]
    BY <2>1
  <2>3. Known(id)
    BY <1>5 DEF StartWait, Known
  <2>4. /\ WatchSound(w, id) /\ (~w.error => w.host = Target(id, named))
        /\ w.missing /\ UnreadableIndexed /\ "mirror" \in Assumed => NotAmong(id, SoughtAt(named))
    BY <2>2, <2>3, WatchIs DEF ClientInv
  <2>5. wait'.id = id /\ wait'.named = named /\ wait'.job = w /\ wait' \in Waits(w)
    BY <2>2
  <2>6. WaitAt'
    BY <1>2, <2>4, <2>5 DEF WaitAt, Target, lookupVars
  <2> QED  BY <1>4, <2>3, <2>4, <2>5, <2>6
<1>6. ASSUME NEW over \in BOOLEAN, Round(over)
      PROVE  /\ ClientInv' /\ (WaitAt => WaitAt')
             /\ wait'.id \in Ids /\ wait'.named \in Hosts \cup {None}
             /\ wait'.job.missing /\ WaitAt =>
                  \/ /\ wait.id # None /\ wait'.id = wait.id /\ wait'.named = wait.named
                     /\ wait.job.missing
                  \/ NotAmong(wait'.id, SoughtAt(wait'.named))
  <2>1. PICK w \in Poll(wait.job, wait.id, TRUE, over) :
          wait' = [wait EXCEPT !.job = w, !.round = 1 - @, !.pc = IF Settled(w) THEN "over" ELSE "poll"]
    BY <1>6 DEF Round
  <2>2. wait.pc = "poll" /\ wait.id \in Ids /\ wait.id # None /\ Known(wait.id) /\ WatchSound(wait.job, wait.id)
    BY <1>1, <1>6 DEF Round, WaitRecord, ClientInv, WaitSound
  <2>0. PICK patient \in BOOLEAN : w \in Poll(wait.job, wait.id, patient, over)
    BY <2>1
  <2>3. /\ WatchSound(w, wait.id) /\ w.host = wait.job.host /\ (wait.job.error => w = wait.job)
        /\ w.missing => wait.job.missing \/ (~wait.job.error /\ ~HostHas(wait.job.host, wait.id))
    BY <2>0, <2>2, PollIs DEF ClientInv
  <2>4. 1 - wait.round \in {0, 1}
    BY <1>1 DEF WaitRecord
  <2>5. wait'.id = wait.id /\ wait'.named = wait.named /\ wait'.job = w /\ wait' \in Waits(w)
    BY <1>1, <2>1, <2>4 DEF WaitRecord
  <2>6. WaitAt => WaitAt'
    BY <1>2, <2>2, <2>3, <2>5 DEF WaitAt, Target, lookupVars
  <2>7. ASSUME WaitAt, ~wait.job.error, ~HostHas(wait.job.host, wait.id)
        PROVE  NotAmong(wait.id, SoughtAt(wait.named))
    <3>1. wait.job.host = Target(wait.id, wait.named)
      BY <2>2, <2>7 DEF WaitAt
    <3> QED  BY <2>7, <3>1 DEF NotAmong, SoughtAt, Target, HostHas
  <2>8. wait.named \in Hosts \cup {None}
    BY <1>1 DEF WaitRecord
  <2> QED  BY <1>4, <2>2, <2>3, <2>5, <2>6, <2>7, <2>8
<1> HIDE DEF Waits
<1> QED  BY <1>2, <1>5, <1>6

SubmitAct ==
  SubmitJob \/ RunJob \/ StageJob \/ SubmitFails \/ EnqueueSpec \/ MirrorSpec \/ RecordIndex \/ PutIndex

LEMMA NextIs ==
  ASSUME [Next]_vars
  PROVE  \/ HostsAct \/ SubmitAct \/ ControllerAct \/ UNCHANGED vars
         \/ \E id \in Ids : StartWait(id)
         \/ \E over \in BOOLEAN : Round(over)
BY DEF Next, HostsAct, SubmitAct, ControllerAct

LEMMA ClientInit == ASSUME Init PROVE ClientInv
<1>1. /\ 1 \in Versions /\ 0 \in 0..MaxStarts /\ MaxStarts \in 0..MaxStarts /\ 0 \in 0..MaxVersion
  BY BoundsAssumption DEF Versions
<1>2. NoWatch \in Watched
  BY DEF NoWatch, Watched
<1>3. NoJob \in JobRecord /\ NoJob.status = "none" /\ NoJob.end = "none" /\ NoJob.host = None
  BY DEF NoJob, JobRecord, JobStatus
<1>4. LookupSound
  <2>1. LookupType
    BY <1>3 DEF Init, LookupType
  <2>2. IndexesSound /\ EntriesSound
    BY <1>3 DEF Init, IndexesSound, EntriesSound, Known
  <2>3. JobsSound
    BY <1>3 DEF Init, JobsSound, Live, FINISHED_STATUSES
  <2> QED  BY <2>1, <2>2, <2>3 DEF LookupSound
<1>5. PICK turn \in {"controller", "wait"} :
        /\ ctl = [pc |-> "off", version |-> 1,
                  starts |-> IF turn = "wait" THEN MaxStarts ELSE 0, forced |-> FALSE,
                  failure |-> FALSE, earlier |-> NoEarlier, flight |-> None, said |-> "none"]
        /\ wait = [pc |-> IF turn = "wait" THEN "off" ELSE "over", id |-> None, named |-> None,
                   round |-> 0, job |-> NoWatch]
  BY DEF Init
<1>6. /\ ctl \in CtlRecord /\ ctl.pc = "off" /\ ctl.flight = None /\ ctl.said = "none" /\ ctl.earlier = NoEarlier
  BY <1>1, <1>5 DEF CtlRecord, CtlPc, NoEarlier
<1>7. wait \in WaitRecord /\ wait.id = None /\ wait.job = NoWatch /\ wait.pc # "poll"
  BY <1>2, <1>5 DEF WaitRecord
<1>8. ClientType
  BY <1>1, <1>6, <1>7, NoSubmitType DEF Init, ClientType
<1>9. SubmitSound
  BY <1>6, NoSubmitType DEF Init, SubmitSound
<1>10. NamesSound
  BY <1>6, NoneIsNobody DEF Init, NamesSound, ExternalJobids, NoEarlier
<1>11. WaitSound /\ SuccessIsOne
  BY <1>6, <1>7 DEF WaitSound, SuccessIsOne
<1> QED  BY <1>4, <1>8, <1>9, <1>10, <1>11 DEF ClientInv

LEMMA ClientStep ==
  ASSUME ClientInv, [Next]_vars
  PROVE  ClientInv'
<1>1. CASE HostsAct
  <2>1. /\ UNCHANGED <<indexVars, sub, ran, person, ctlVars, wait>> /\ JobsMove /\ Mirrors
        /\ net' \in [Hosts -> {"up", "dead", "gone"}]
        /\ registry' \in [Hosts -> {"read", "unreadable", "none"}] /\ EntriesSound'
    BY <1>1, HostsMove DEF ClientInv
  <2> QED  BY <2>1, LookupMoves, ClientMoves DEF ClientInv
<1>2. CASE SubmitAct
  BY <1>2, PrepareStep, SubmitFailsStep, EnqueueStep, HandingStep DEF SubmitAct
<1>3. CASE ControllerAct
  BY <1>3, ControllerStep, ControllerStays
<1>4. CASE UNCHANGED vars
  <2>1. LookupSound'
    BY <1>4, LookupStays DEF ClientInv, vars, lookupVars
  <2>2. JobsMove
    BY <1>4, NothingMoves DEF ClientInv, vars
  <2> QED  BY <1>4, <2>1, <2>2, ClientMoves DEF vars, indexVars, ctlVars
<1> QED  BY <1>1, <1>2, <1>3, <1>4, NextIs, WaitStep

\* Every variable of the client and of what it sees has its type.
THEOREM ClientTypes == Spec => []TypeOK
<1>1. Init => ClientInv  BY ClientInit
<1>2. ClientInv /\ [Next]_vars => ClientInv'  BY ClientStep
<1>3. ClientInv => TypeOK  BY TypesAreTypeOK DEF ClientInv, LookupSound
<1> QED  BY <1>1, <1>2, <1>3, PTL DEF Spec

\* What Snakemake and a wait are told of an end is what it was
\* (Executor.adopt, check_active_jobs, Watch._poll_host, _from_mirror), given that
\* nobody edits what the rule says while a controller is at it.
THEOREM EndsAreTold ==
  ASSUME "edits" \in Assumed PROVE Spec => []ToldTheTruth
<1>1. Init => ClientInv  BY ClientInit
<1>2. ClientInv /\ [Next]_vars => ClientInv'  BY ClientStep
<1>3. ClientInv => ToldTheTruth
  <2> SUFFICES ASSUME ClientInv PROVE ToldTheTruth
    OBVIOUS
  <2>1. wait.job.status \in FINISHED_STATUSES => job[wait.id].end = wait.job.status
    <3>1. NoWatch.status \notin FINISHED_STATUSES
      BY DEF NoWatch, FINISHED_STATUSES
    <3> QED  BY <3>1 DEF ClientInv, WaitSound, WatchSound
  <2> QED  BY <2>1 DEF ToldTheTruth, ClientInv, SuccessIsOne
<1> QED  BY <1>1, <1>2, <1>3, PTL DEF Spec

-----------------------------------------------------------------------------
(* A job that is said to be missing.                                       *)

\* What a step does to a job that a host was given, and to the hosts.
LEMMA StepMoves ==
  ASSUME ClientInv, [Next]_vars
  PROVE  /\ \A id \in Ids : Known(id) => Moves(job[id], job'[id])
         /\ \A h \in Hosts : net[h] = "gone" => net'[h] = "gone"
<1>1. job' = job => \A id \in Ids : Moves(job[id], job'[id])
  BY DEF Moves
<1>2. CASE HostsAct
  BY <1>2, HostsMove DEF ClientInv, JobsMove
<1>3. CASE SubmitAct
  <2>1. CASE EnqueueSpec
    BY <2>1, EnqueueIs DEF Moves
  <2>2. CASE SubmitAct /\ ~EnqueueSpec
    <3>1. UNCHANGED <<net, job>>
      BY <2>2, PrepareIs DEF SubmitAct, SubmitJob, RunJob, Prepare, StageJob, SubmitFails, MirrorSpec,
                             RecordIndex, PutIndex, lookupVars, hostVars
    <3> QED  BY <1>1, <3>1
  <2> QED  BY <1>3, <2>1, <2>2
<1>4. CASE ControllerAct
  BY <1>4, ControllerStep DEF ControllerMoves, JobsMove
<1>5. CASE UNCHANGED vars \/ (\E id \in Ids : StartWait(id)) \/ \E over \in BOOLEAN : Round(over)
  <2>1. UNCHANGED <<net, job>>
    BY <1>5, WaitStep DEF vars, lookupVars
  <2> QED  BY <1>1, <2>1
<1> QED  BY <1>2, <1>3, <1>4, <1>5, NextIs

\* A job that none of these hosts has stays so.
LEMMA NotAmongStays ==
  ASSUME ClientInv, [Next]_vars, NEW id \in Ids, Known(id), NEW S \in SUBSET Hosts, NotAmong(id, S)
  PROVE  NotAmong(id, S)'
<1>1. job[id] \in JobRecord /\ Moves(job[id], job'[id])
  BY StepMoves DEF ClientInv, LookupSound, LookupType
<1>2. /\ job[id].status \in Live => job[id].end = "none"
      /\ job[id].status \in FINISHED_STATUSES => job[id].end = job[id].status
  BY DEF ClientInv, LookupSound, JobsSound
<1>3. /\ job'[id].host = job[id].host
      /\ job'[id].status \in Live => job[id].status \in Live
      /\ job'[id].status \in FINISHED_STATUSES => job[id].status \in Live \cup FINISHED_STATUSES
  BY <1>1, <1>2, MovesIs
<1>4. \A h \in Hosts : HostHas(h, id)' => HostHas(h, id)
  BY <1>3 DEF HostHas
<1> QED  BY <1>4, StepMoves DEF NotAmong

\* A host is given a job while its entry is read, and the job is in the mirror's
\* index before that entry can turn.
LEMMA UnreadableStep ==
  ASSUME "entries" \in Assumed, ClientInv, UnreadableIndexed, [Next]_vars
  PROVE  UnreadableIndexed'
<1> DEFINE Told(h) == sub.host # h /\ \A id \in Ids : job[id].host = h => s3Index[id] # None
<1>1. ASSUME UNCHANGED <<registry, s3Index>>, \A id \in Ids : job'[id].host = job[id].host,
             sub'.host \in {sub.host, None} \cup Registered
      PROVE  UnreadableIndexed'
  BY <1>1, NoneIsNobody DEF UnreadableIndexed, Registered
<1>2. NoSubmit.host = None
  BY DEF NoSubmit
<1>3. CASE HostsAct
  <2>1. UNCHANGED <<indexVars, sub>> /\ \A id \in Ids : job'[id].host = job[id].host
    BY <1>3, HostsMove, JobsMoveIs DEF ClientInv
  <2>2. \A h \in Hosts : registry'[h] = "unreadable" => registry[h] = "unreadable" \/ Told(h)
    <3>1. ASSUME NEW g \in Hosts, NEW how \in {"read", "unreadable"}, EntryTurns(g, how), NEW h \in Hosts,
                 registry'[h] = "unreadable"
          PROVE  registry[h] = "unreadable" \/ Told(h)
      BY <3>1 DEF EntryTurns, ClientInv, LookupSound, LookupType
    <3>2. ForgetGoneRentals => \A h \in Hosts : registry'[h] = "unreadable" => registry[h] = "unreadable"
      BY DEF ForgetGoneRentals
    <3>3. (\A g \in Hosts, how \in {"read", "unreadable"} : ~EntryTurns(g, how)) /\ ~ForgetGoneRentals
            => registry' = registry
      BY <1>3 DEF HostsAct, Run, Mirror, Purge, End, PodEnds
    <3> QED  BY <3>1, <3>2, <3>3
  <2> QED  BY <2>1, <2>2 DEF UnreadableIndexed, indexVars
<1>4. CASE SubmitJob \/ RunJob
  <2>1. UNCHANGED lookupVars /\ \E by \in {"controller", "person"} : Prepare(by, MaxVersion) \/ Prepare(by, ctl.version)
    BY <1>4 DEF SubmitJob, RunJob, Prepare
  <2>2. \E h \in Registered : sub'.host = h
    BY <2>1 DEF Prepare
  <2> QED  BY <1>1, <2>1, <2>2 DEF lookupVars
<1>5. CASE StageJob \/ MirrorSpec \/ RecordIndex \/ SubmitFails
  <2>1. sub \in SubRecord /\ UNCHANGED <<registry, s3Index, job>>
    BY <1>5 DEF ClientInv, ClientType, StageJob, MirrorSpec, RecordIndex, SubmitFails, lookupVars, hostVars
  <2>2. sub'.host \in {sub.host, None}
    BY <1>2, <1>5, <2>1 DEF StageJob, MirrorSpec, RecordIndex, SubmitFails, SubmitRaises, SubRecord
  <2> QED  BY <1>1, <2>1, <2>2
<1>6. CASE EnqueueSpec
  <2>1. /\ \A id \in Ids : id # sub.id => job'[id] = job[id]
        /\ job'[sub.id].host = sub.host /\ sub.host \in Hosts
        /\ UNCHANGED <<registry, indexVars>>
    BY <1>6, EnqueueIs
  <2>2. registry[sub.host] # "unreadable"
    BY <2>1 DEF UnreadableIndexed
  <2>3. sub'.host \in {sub.host, None}
    BY <1>2, <1>6 DEF EnqueueSpec, SubmitRaises, ClientInv, ClientType, SubRecord
  <2> QED  BY <2>1, <2>2, <2>3, NoneIsNobody DEF UnreadableIndexed, indexVars
<1>7. CASE PutIndex
  <2>1. /\ sub.pc = "recorded" /\ s3Index' \in {s3Index, [s3Index EXCEPT ![sub.id] = sub.host]}
        /\ sub' = NoSubmit /\ UNCHANGED <<registry, job>>
    BY <1>7 DEF PutIndex, hostVars
  <2>2. sub.id \in Ids /\ sub.host \in Hosts
    BY <2>1 DEF ClientInv, SubmitSound
  <2>3. \A id \in Ids : s3Index[id] # None => s3Index'[id] # None
    BY <2>1, <2>2, NoneIsNobody DEF ClientInv, LookupSound, LookupType
  <2> QED  BY <1>2, <2>1, <2>3, NoneIsNobody DEF UnreadableIndexed
<1>8. CASE ControllerAct
  <2>1. ControllerMoves /\ JobsMove
    BY <1>8, ControllerStep
  <2>2. UNCHANGED <<registry, s3Index>> /\ sub'.host \in {sub.host, None}
    BY <1>2, <2>1 DEF ControllerMoves, indexVars
  <2>3. \A id \in Ids : job'[id].host = job[id].host
    BY <2>1, JobsMoveIs DEF ClientInv
  <2> QED  BY <1>1, <2>2, <2>3
<1>9. CASE UNCHANGED vars \/ (\E id \in Ids : StartWait(id)) \/ \E over \in BOOLEAN : Round(over)
  BY <1>1, <1>9, WaitStep DEF vars, lookupVars
<1> QED  BY <1>3, <1>4, <1>5, <1>6, <1>7, <1>8, <1>9, NextIs DEF SubmitAct

\* What a wait has called missing is.
WaitFinds == wait.id # None /\ wait.job.missing => NotAmong(wait.id, SoughtAt(wait.named))
MissingInv == ClientInv /\ UnreadableIndexed /\ WaitAt /\ WaitFinds

LEMMA MissingStep ==
  ASSUME {"entries", "mirror"} \subseteq Assumed, MissingInv, [Next]_vars
  PROVE  MissingInv'
<1>1. ClientInv' /\ UnreadableIndexed'
  BY ClientStep, UnreadableStep DEF MissingInv
<1>2. wait.named \in Hosts \cup {None} /\ (wait.id # None => wait.id \in Ids /\ Known(wait.id))
  BY DEF MissingInv, ClientInv, ClientType, WaitRecord, WaitSound
<1>3. \A id \in Ids, S \in SUBSET Hosts : Known(id) /\ NotAmong(id, S) => NotAmong(id, S)'
  BY NotAmongStays DEF MissingInv
<1>4. CASE (\E id \in Ids : StartWait(id)) \/ \E over \in BOOLEAN : Round(over)
  <2>1. UNCHANGED lookupVars
    BY <1>4, WaitStep DEF MissingInv
  <2>2. /\ WaitAt'
        /\ wait'.job.missing => NotAmong(wait'.id, SoughtAt(wait'.named))
    BY <1>4, WaitStep DEF MissingInv, WaitFinds
  <2>3. UNCHANGED <<net, job>>
    BY <2>1 DEF lookupVars
  <2>4. WaitFinds'
    BY <2>2, <2>3 DEF WaitFinds, NotAmong, HostHas, SoughtAt
  <2> QED  BY <1>1, <2>2, <2>4 DEF MissingInv
<1>5. CASE HostsAct \/ SubmitAct \/ ControllerAct \/ UNCHANGED vars
  <2>1. HostsAct => wait' = wait
    BY HostsMove DEF MissingInv, ClientInv
  <2>2. SubmitAct => wait' = wait
    BY DEF SubmitAct, SubmitJob, RunJob, Prepare, StageJob, SubmitFails, EnqueueSpec, MirrorSpec,
                RecordIndex, PutIndex
  <2>3. ControllerAct => wait' = wait
    BY ControllerStep DEF MissingInv, ControllerMoves
  <2>4. wait' = wait
    BY <1>5, <2>1, <2>2, <2>3 DEF vars
  <2>5. WaitFinds'
    <3>1. CASE wait.id # None /\ wait.job.missing
      <4>1. NotAmong(wait.id, SoughtAt(wait.named)) /\ SoughtAt(wait.named) \in SUBSET Hosts
        BY <3>1, <1>2 DEF MissingInv, WaitFinds, SoughtAt
      <4>2. PICK S \in SUBSET Hosts, id \in Ids : S = SoughtAt(wait.named) /\ id = wait.id
        BY <1>2, <3>1, <4>1
      <4>3. NotAmong(id, S)'
        BY <3>1, <1>2, <1>3, <4>1, <4>2
      <4> QED  BY <2>4, <4>2, <4>3 DEF WaitFinds, NotAmong, HostHas, SoughtAt
    <3> QED  BY <2>4, <3>1 DEF WaitFinds
  <2>6. WaitAt'
    <3>1. ASSUME wait.id # None PROVE job'[wait.id].host = job[wait.id].host
      <4>1. Moves(job[wait.id], job'[wait.id]) /\ job[wait.id] \in JobRecord
        BY <1>2, <3>1, StepMoves DEF MissingInv, ClientInv, LookupSound, LookupType
      <4> QED
        BY <1>2, <3>1, <4>1, MovesIs DEF MissingInv, ClientInv, LookupSound, JobsSound
    <3> QED  BY <2>4, <3>1 DEF MissingInv, WaitAt, Target
  <2> QED  BY <1>1, <2>5, <2>6 DEF MissingInv
<1> QED  BY <1>4, <1>5, NextIs DEF MissingInv

\* "no such job" is said only of a job that no host there is has any more
\* (locate_many, Watch._vanished, _on_named_host), or not the one that was named, given
\* that an entry this build cannot read is of a host whose jobs are in the mirror's
\* index, and that this index can be read.
THEOREM MissingJobsAreNowhere ==
  ASSUME {"entries", "mirror"} \subseteq Assumed PROVE Spec => []MissingIsNowhere
<1>1. Init => MissingInv
  <2> SUFFICES ASSUME Init PROVE MissingInv
    OBVIOUS
  <2>1. wait.id = None
    BY DEF Init
  <2> QED  BY <2>1, ClientInit DEF Init, MissingInv, WaitFinds, WaitAt, UnreadableIndexed
<1>2. MissingInv /\ [Next]_vars => MissingInv'
  BY MissingStep
<1>3. MissingInv => MissingIsNowhere
  <2>1. ~NoWatch.missing
    BY DEF NoWatch
  <2> QED  BY <2>1 DEF MissingInv, WaitFinds, ClientInv, WaitSound, MissingIsNowhere, Sought, NotAmong, SoughtAt
<1> QED  BY <1>1, <1>2, <1>3, PTL DEF Spec

-----------------------------------------------------------------------------
(* One run of what the rule says.                                          *)

Held(id) == id \in ExternalJobids \/ ctl.flight = id

\* Outside of marking, the markers name one job at most.
OneMarked == ctl.pc # "marking" => \A a, b \in ExternalJobids : a = b

\* Nobody is left to ask about a job that was purged.
NotPurged == \A id \in Ids : Held(id) \/ sub.id = id => job[id].status # "purged"

\* What adopt goes by: a job that ended badly is no run that counts.
Judged ==
  ctl.pc = "adopt" /\ ~ctl.failure =>
    \A id \in ExternalJobids : /\ ctl.earlier[id] \in Outcomes
                               /\ ctl.earlier[id] \in {"failed", "gone"} => ~Counts(id)

\* A run that counts is in the controller's hands, or where the next one looks.
CountedIsHeld ==
  \A id \in Ids : Counts(id) =>
    \/ ctl.said = "success"
    \/ ctl.pc \in {"off", "over", "earlier", "adopt"} /\ id \in ExternalJobids
    \/ ctl.pc = "submitting" /\ id = sub.id
    \/ ctl.flight = id

OneCounts == \A a, b \in Ids : Counts(a) /\ Counts(b) => a = b

OnceInv == ClientInv /\ OneMarked /\ NotPurged /\ Judged /\ CountedIsHeld /\ OneCounts

\* A cancel ends nothing well, and purges nothing.
LEMMA CancelTells ==
  ASSUME NEW ids, CancelJobs(ids), NEW id \in Ids, job[id] \in JobRecord
  PROVE  /\ job'[id].end = "succeeded" => job[id].end = "succeeded"
         /\ job'[id].status = "purged" => job[id].status = "purged"
<1>1. job'[id] \in {job[id], Cancelled(job[id])}
  BY DEF CancelJobs
<1> QED  BY <1>1 DEF Cancelled, JobRecord

\* The same of the hosts, of one job.
LEMMA HostsTell ==
  ASSUME ClientInv, HostsAct, NEW id \in Ids
  PROVE  /\ job'[id].end = "succeeded" =>
              job[id].end = "succeeded" \/ (job[id].status = "running" /\ net[job[id].host] = "up")
         /\ mirror'[id] = "succeeded" =>
              mirror[id] = "succeeded" \/ (job[id].status = "succeeded" /\ net[job[id].host] = "up")
         /\ job'[id].status = "purged" =>
              job[id].status = "purged" \/ ("purges" \in Assumed => ~Held(id) /\ sub.id # id)
<1>1. job \in [Ids -> JobRecord] /\ mirror \in [Ids -> {"none"} \cup Live \cup FINISHED_STATUSES]
  BY DEF ClientInv, LookupSound, LookupType
<1>2. CASE \E i \in Ids : Run(i)
  BY <1>1, <1>2 DEF Run, JobRecord
<1>3. CASE \E i \in Ids, s \in FINISHED_STATUSES : End(i, s)
  <2>1. PICK i \in Ids, s \in FINISHED_STATUSES : End(i, s)
    BY <1>3
  <2>2. s # "purged"
    BY DEF FINISHED_STATUSES
  <2> QED  BY <1>1, <2>1, <2>2 DEF End, Reports, JobRecord
<1>4. CASE \E i \in Ids : Mirror(i)
  BY <1>1, <1>4 DEF Mirror, Reports
<1>5. CASE \E i \in Ids : Purge(i)
  <2>1. PICK i \in Ids : Purge(i)
    BY <1>5
  <2>2. "purges" \in Assumed => ~Held(i) /\ sub.id # i
    BY <2>1 DEF Purge, HeardOf, Held, ExternalJobids
  <2>3. /\ job'[id].end = job[id].end /\ (id # i => job'[id] = job[id]) /\ mirror' = mirror
    BY <1>1, <2>1 DEF Purge, JobRecord
  <2> QED  BY <2>2, <2>3
<1>6. CASE UNCHANGED <<job, mirror>>
  BY <1>6
<1>7. ASSUME NEW h \in Hosts, NEW how, PodEnds(h, how) \/ EntryTurns(h, how)
      PROVE  UNCHANGED <<job, mirror>>
  BY <1>7 DEF PodEnds, EntryTurns
<1>8. ForgetGoneRentals => UNCHANGED <<job, mirror>>
  BY DEF ForgetGoneRentals
<1> QED  BY <1>2, <1>3, <1>4, <1>5, <1>6, <1>7, <1>8 DEF HostsAct

\* And of any step, of a job that a host was given.
LEMMA StepTells ==
  ASSUME ClientInv, [Next]_vars, NEW id \in Ids, Known(id)
  PROVE  /\ job'[id].end = "succeeded" =>
              job[id].end = "succeeded" \/ (job[id].status = "running" /\ net[job[id].host] = "up")
         /\ mirror'[id] = "succeeded" =>
              mirror[id] = "succeeded" \/ (job[id].status = "succeeded" /\ net[job[id].host] = "up")
         /\ job'[id].status = "purged" =>
              job[id].status = "purged" \/ ("purges" \in Assumed => ~Held(id) /\ sub.id # id)
         /\ given \subseteq given' /\ (id \in person => id \in person')
<1>1. CASE HostsAct
  <2>1. UNCHANGED <<given, person>>
    BY <1>1, HostsMove DEF ClientInv, ctlVars
  <2> QED  BY <1>1, <2>1, HostsTell
<1>2. CASE SubmitAct
  <2>1. job'[id] = job[id]
    <3>1. CASE EnqueueSpec
      BY <3>1, EnqueueIs
    <3>2. CASE ~EnqueueSpec
      BY <1>2, <3>2 DEF SubmitAct, SubmitJob, RunJob, Prepare, StageJob, SubmitFails, MirrorSpec,
                        RecordIndex, PutIndex, lookupVars, hostVars
    <3> QED  BY <3>1, <3>2
  <2>2. UNCHANGED <<mirror, given>>
    BY <1>2 DEF SubmitAct, SubmitJob, RunJob, Prepare, StageJob, SubmitFails, MirrorSpec, EnqueueSpec,
                RecordIndex, PutIndex, lookupVars, hostVars, ctlVars, SubmitRaises
  <2>3. id \in person => id \in person'
    <3>1. SubmitFails => ~Known(sub.id)
      BY DEF SubmitFails, ClientInv, SubmitSound
    <3> QED
      BY <1>2, <3>1 DEF SubmitAct, SubmitJob, RunJob, StageJob, SubmitFails, MirrorSpec, EnqueueSpec,
                        RecordIndex, PutIndex
  <2> QED  BY <2>1, <2>2, <2>3
<1>3. CASE ControllerAct
  <2>1. UNCHANGED <<mirror, person>> /\ JobsMove
    BY <1>3, ControllerStep DEF ControllerMoves
  <2>2. given \subseteq given'
    BY <1>3 DEF ControllerAct, StartController, EarlierJobs, AdoptFails, Adopt, Replace, NothingToAdopt,
                WriteRecord, ReportSubmission, CheckActiveJobs, CancelFlight, ControllerKilled
  <2>3. job' = job \/ \E ids : CancelJobs(ids)
    BY <1>3 DEF ControllerAct, StartController, EarlierJobs, AdoptFails, Adopt, Replace, NothingToAdopt,
                WriteRecord, ReportSubmission, CheckActiveJobs, CancelFlight, ControllerKilled, lookupVars
  <2>4. job[id] \in JobRecord
    BY DEF ClientInv, LookupSound, LookupType
  <2> QED  BY <2>1, <2>2, <2>3, <2>4, CancelTells
<1>4. CASE UNCHANGED vars \/ (\E i \in Ids : StartWait(i)) \/ \E over \in BOOLEAN : Round(over)
  <2>1. UNCHANGED <<job, mirror, given, person>>
    BY <1>4, WaitStep DEF vars, lookupVars, ctlVars
  <2> QED  BY <2>1
<1> QED  BY <1>1, <1>2, <1>3, <1>4, NextIs

\* A job that no host had is given to one.
LEMMA UnknownStays ==
  ASSUME ClientInv, [Next]_vars, NEW id \in Ids, ~Known(id)
  PROVE  job'[id] = job[id] \/ (EnqueueSpec /\ id = sub.id)
<1>1. CASE HostsAct \/ ControllerAct
  <2>1. JobsMove
    BY <1>1, HostsMove, ControllerStep DEF ClientInv
  <2> QED  BY <2>1, JobsMoveIs DEF ClientInv
<1>2. CASE SubmitAct
  <2>1. CASE EnqueueSpec
    BY <2>1, EnqueueIs
  <2>2. CASE ~EnqueueSpec
    BY <1>2, <2>2 DEF SubmitAct, SubmitJob, RunJob, Prepare, StageJob, SubmitFails, MirrorSpec,
                      RecordIndex, PutIndex, lookupVars, hostVars
  <2> QED  BY <2>1, <2>2
<1>3. CASE UNCHANGED vars \/ (\E i \in Ids : StartWait(i)) \/ \E over \in BOOLEAN : Round(over)
  BY <1>3, WaitStep DEF vars, lookupVars
<1> QED  BY <1>1, <1>2, <1>3, NextIs

\* A run comes to count only by being submitted by the controller.
LEMMA CountsBack ==
  ASSUME ClientInv, [Next]_vars, NEW id \in Ids, Counts(id)'
  PROVE  Counts(id) \/ (EnqueueSpec /\ id = sub.id /\ sub.by = "controller" /\ ~Known(id))
<1>1. CASE Known(id)
  <2>1. job[id] \in JobRecord /\ Moves(job[id], job'[id]) /\ job[id].host \in Hosts
    BY <1>1, StepMoves DEF ClientInv, LookupSound, LookupType, IndexesSound
  <2>2. /\ job[id].status \in Live => job[id].end = "none"
        /\ job[id].status \in FINISHED_STATUSES => job[id].end = job[id].status
    BY DEF ClientInv, LookupSound, JobsSound
  <2>3. /\ job'[id].host = job[id].host
        /\ job'[id].status \in Live => job[id].status \in Live
        /\ job'[id].status \in FINISHED_STATUSES => job[id].status \in Live \cup FINISHED_STATUSES
    BY <2>1, <2>2, MovesIs
  <2>4. /\ job'[id].end = "succeeded" =>
             job[id].end = "succeeded" \/ (job[id].status = "running" /\ net[job[id].host] = "up")
        /\ mirror'[id] = "succeeded" =>
             mirror[id] = "succeeded" \/ (job[id].status = "succeeded" /\ net[job[id].host] = "up")
        /\ given \subseteq given' /\ (id \in person => id \in person')
    BY <1>1, StepTells
  <2>5. net'[job[id].host] # "gone" => net[job[id].host] # "gone"
    BY <2>1, StepMoves
  <2>6. id \notin given \cup person /\ job[id].host # None
    BY <2>4, <2>1, NoneIsNobody DEF Counts
  <2>7. \/ job'[id].status \in Live /\ net'[job[id].host] # "gone"
        \/ /\ job'[id].end = "succeeded"
           /\ \/ mirror'[id] = "succeeded"
              \/ job'[id].status \in Live \cup FINISHED_STATUSES /\ net'[job[id].host] # "gone"
    BY <2>3 DEF Counts, HostHas
  <2>8. CASE job'[id].status \in Live /\ net'[job[id].host] # "gone"
    BY <2>3, <2>5, <2>6, <2>8 DEF Counts
  <2>9. CASE job[id].status = "running" /\ net[job[id].host] = "up"
    BY <2>6, <2>9 DEF Counts, Live
  <2>10. CASE job[id].end = "succeeded" /\ mirror'[id] = "succeeded"
    BY <2>4, <2>6, <2>10 DEF Counts, HostHas, FINISHED_STATUSES
  <2>11. CASE /\ job[id].end = "succeeded"
              /\ job'[id].status \in Live \cup FINISHED_STATUSES /\ net'[job[id].host] # "gone"
    BY <2>3, <2>5, <2>6, <2>11 DEF Counts, HostHas
  <2> QED  BY <2>4, <2>7, <2>8, <2>9, <2>10, <2>11
<1>2. CASE ~Known(id)
  <2>1. job[id].host = None
    BY <1>2, UnknownIs
  <2>2. EnqueueSpec /\ id = sub.id
    BY <1>2, <2>1, UnknownStays DEF Counts
  <2>3. sub.pc = "staged" /\ person' = person /\ id \notin person'
    BY <2>2, EnqueueIs DEF Counts
  <2>4. sub.by = "controller"
    BY <2>2, <2>3 DEF ClientInv, ClientType, SubRecord, SubmitSound
  <2> QED  BY <1>2, <2>2, <2>4
<1> QED  BY <1>1, <1>2

\* A job that a look finds to have ended badly, or to be gone, is no run that counts.
LEMMA BadlyEnded ==
  ASSUME ClientInv, NotPurged, "mirror" \in Assumed, NEW id \in Ids, Held(id),
         NEW w \in Look(id, TRUE), Outcome(w) \in {"failed", "gone"}
  PROVE  ~Counts(id)
<1>1. Known(id) /\ localIndex[id] # None /\ job[id].status # "purged"
  BY DEF ClientInv, NamesSound, NotPurged, Held
<1>2. job[id].status \in Live => job[id].end = "none"
  BY DEF ClientInv, LookupSound, JobsSound
<1>3. CASE Outcome(w) = "failed"
  <2>1. job[id].end \in {"failed", "cancelled"}
    BY <1>1, <1>3, LookAnswers DEF ClientInv
  <2> QED  BY <1>2, <2>1 DEF Counts
<1>4. CASE Outcome(w) = "gone"
  <2>1. net[job[id].host] = "gone" /\ mirror[id] \notin FINISHED_STATUSES
    BY <1>1, <1>4, LookAnswers DEF ClientInv
  <2> QED  BY <2>1 DEF Counts, FINISHED_STATUSES
<1> QED  BY <1>3, <1>4

OnceAssumed == {"answers", "marks", "keeps", "outputs", "purges", "mirror"}

\* A run that counts has been given to a host.
LEMMA CountsIsKnown ==
  ASSUME ClientInv, NEW id \in Ids, Counts(id)
  PROVE  Known(id)
<1>1. ~Known(id) => job[id].host = None
  BY UnknownIs
<1> QED  BY <1>1 DEF Counts

\* What the steps of a submit are to the controller.
LEMMA SubmitDoes ==
  ASSUME ClientInv, SubmitAct, "answers" \in Assumed
  PROVE  /\ EnqueueSpec => sub.pc = "staged" /\ (sub.by = "controller" => sub'.id = sub.id)
         /\ \/ /\ ctl' = ctl /\ UNCHANGED marker
               /\ ctl.pc = "submitting" => sub'.id = sub.id
            \/ /\ ctl.pc = "prepare" /\ ctl'.pc = "submitting" /\ ctl'.flight = ctl.flight
               /\ UNCHANGED marker
            \/ /\ ctl.pc = "submitting" /\ ~Known(sub.id) /\ ctl'.pc = "over" /\ ctl'.flight = ctl.flight
               /\ ExternalJobids' \in {{}, ExternalJobids}
            \/ /\ ctl.pc = "submitting" /\ ctl'.pc = "submitted" /\ ctl'.flight = sub.id
               /\ UNCHANGED marker
         /\ \A id \in Ids : sub'.id = id => sub.id = id \/ ~Known(id)
<1>1. ctl \in CtlRecord /\ sub \in SubRecord
  BY DEF ClientInv, ClientType
<1>2. sub.pc # "idle" => (ctl.pc = "submitting" <=> sub.by = "controller")
  BY DEF ClientInv, SubmitSound
<1>4. NoSubmit.id = None
  BY DEF NoSubmit
<1>5. CASE SubmitJob \/ RunJob
  <2>1. PICK by \in {"controller", "person"}, v \in Versions : Prepare(by, v)
    BY <1>1, <1>5, BoundsAssumption DEF SubmitJob, RunJob, CtlRecord, Versions
  <2>2. sub.pc = "idle" /\ sub'.id \in Ids /\ ~Known(sub'.id)
    BY <2>1, PrepareIs
  <2>3. ctl.pc # "submitting"
    BY <2>2 DEF ClientInv, SubmitSound
  <2>4. ~EnqueueSpec
    BY <2>2 DEF EnqueueSpec
  <2>5. CASE SubmitJob
    BY <2>2, <2>3, <2>4, <2>5 DEF SubmitJob, ctlVars
  <2>6. CASE RunJob
    <3>1. ctl.pc = "prepare" /\ ctl'.pc = "submitting" /\ ctl'.flight = ctl.flight /\ UNCHANGED marker
      BY <1>1, <2>6 DEF RunJob, CtlRecord
    <3> QED  BY <2>2, <2>4, <3>1
  <2> QED  BY <1>5, <2>5, <2>6
<1>6. CASE StageJob \/ MirrorSpec \/ ((RecordIndex \/ EnqueueSpec) /\ ~SubmitRaises)
  <2>1. ctl' = ctl /\ UNCHANGED marker /\ sub'.id = sub.id /\ (EnqueueSpec => sub.pc = "staged")
    BY <1>1, <1>6 DEF StageJob, MirrorSpec, RecordIndex, EnqueueSpec, ctlVars, SubRecord
  <2> QED  BY <2>1
<1>7. CASE SubmitFails
  <2>1. sub.pc \in {"prepared", "staged"} /\ SubmitRaises /\ sub'.id = None
    BY <1>4, <1>7 DEF SubmitFails, SubmitRaises
  <2>2. sub.pc # "idle" /\ ~Known(sub.id)
    BY <2>1 DEF ClientInv, SubmitSound
  <2>3. /\ sub'.pc = "idle" /\ ctl'.flight = ctl.flight
        /\ \/ sub.by = "person" /\ UNCHANGED <<ctl, marker>>
           \/ sub.by = "controller" /\ ctl'.pc = "over" /\ ctl'.said = "error"
        /\ ExternalJobids' \in {{}, ExternalJobids}
    BY <2>1, <2>2, RaisesIs
  <2>4. ~EnqueueSpec
    <3>1. ASSUME EnqueueSpec PROVE FALSE
      <4>1. job' = [job EXCEPT ![sub.id] = [NoJob EXCEPT !.host = sub.host, !.status = "queued"]]
            /\ job' = job
        BY <1>7, <3>1 DEF EnqueueSpec, SubmitFails, lookupVars
      <4>2. job'[sub.id].status = "queued" /\ ~Known(sub.id)
        BY <3>1, EnqueueIs
      <4> QED  BY <4>1, <4>2 DEF Known
    <3> QED  BY <3>1
  <2> QED  BY <1>2, <2>1, <2>2, <2>3, <2>4, NoneIsNobody
<1>8. CASE (RecordIndex \/ EnqueueSpec) /\ SubmitRaises
  <2>1. sub'.id = None /\ sub.pc \in {"staged", "mirrored"} /\ (EnqueueSpec => sub.pc = "staged")
    BY <1>4, <1>8 DEF RecordIndex, EnqueueSpec, SubmitRaises
  <2>2. sub.by = "person"
    <3>1. CASE MayBeLost
      BY <3>1 DEF MayBeLost
    <3>2. CASE ~MayBeLost
      <4>1. sub' = [sub EXCEPT !.pc = "accepted"] \/ sub' = [sub EXCEPT !.pc = "recorded"]
        BY <1>8, <3>2 DEF RecordIndex, EnqueueSpec
      <4>2. sub'.pc # "idle"
        BY <1>1, <4>1 DEF SubRecord
      <4> QED  BY <1>8, <4>2, NoSubmitType DEF SubmitRaises
    <3> QED  BY <3>1, <3>2
  <2>3. UNCHANGED <<ctl, marker>>
    BY <1>8, <2>2 DEF SubmitRaises
  <2> QED  BY <1>2, <2>1, <2>2, <2>3, NoneIsNobody
<1>9. CASE PutIndex
  <2>1. sub.pc = "recorded" /\ sub'.id = None /\ ~EnqueueSpec /\ UNCHANGED marker
    BY <1>4, <1>9 DEF PutIndex, EnqueueSpec
  <2>2. CASE sub.by = "controller"
    <3>1. ctl.pc = "submitting" /\ ctl'.pc = "submitted" /\ ctl'.flight = sub.id
      BY <1>1, <1>9, <2>1, <2>2 DEF PutIndex, CtlRecord, ClientInv, SubmitSound
    <3> QED  BY <2>1, <3>1, NoneIsNobody
  <2>3. CASE sub.by # "controller"
    <3>1. ctl' = ctl /\ ctl.pc # "submitting"
      BY <1>9, <2>1, <2>3 DEF PutIndex, ClientInv, SubmitSound
    <3> QED  BY <2>1, <3>1, NoneIsNobody
  <2> QED  BY <2>2, <2>3
<1> QED  BY <1>5, <1>6, <1>7, <1>8, <1>9 DEF SubmitAct

LEMMA SubmitOnce ==
  ASSUME OnceAssumed \subseteq Assumed, OnceInv, SubmitAct, [Next]_vars
  PROVE  OneMarked' /\ NotPurged' /\ Judged' /\ CountedIsHeld' /\ OneCounts'
<1> USE DEF OnceInv
<1>1. "answers" \in Assumed /\ "purges" \in Assumed
  BY DEF OnceAssumed
<1>2. /\ EnqueueSpec => sub.pc = "staged" /\ (sub.by = "controller" => sub'.id = sub.id)
      /\ \/ /\ ctl' = ctl /\ UNCHANGED marker
            /\ ctl.pc = "submitting" => sub'.id = sub.id
         \/ /\ ctl.pc = "prepare" /\ ctl'.pc = "submitting" /\ ctl'.flight = ctl.flight
            /\ UNCHANGED marker
         \/ /\ ctl.pc = "submitting" /\ ~Known(sub.id) /\ ctl'.pc = "over" /\ ctl'.flight = ctl.flight
            /\ ExternalJobids' \in {{}, ExternalJobids}
         \/ /\ ctl.pc = "submitting" /\ ctl'.pc = "submitted" /\ ctl'.flight = sub.id
            /\ UNCHANGED marker
      /\ \A id \in Ids : sub'.id = id => sub.id = id \/ ~Known(id)
  BY <1>1, SubmitDoes
<1>3. /\ ctl.flight # None <=> ctl.pc \in {"submitted", "marking", "active"}
      /\ ctl.said # "none" => ctl.pc \in {"over", "off"}
      /\ ctl.said \in {"none", "success", "error"}
  BY DEF ClientInv, NamesSound, ClientType, CtlRecord
<1>4. \A id \in Ids : Held(id) => Known(id)
  BY DEF ClientInv, NamesSound, Held
<1>10. UNCHANGED marker => ExternalJobids' = ExternalJobids
  BY DEF ExternalJobids
<1>11. ExternalJobids' \in {{}, ExternalJobids}
  BY <1>2, <1>10
<1>5. OneMarked'
  BY <1>2, <1>11 DEF OneMarked
<1>6. NotPurged'
  <2>1. ASSUME NEW id \in Ids, Held(id)' \/ sub'.id = id PROVE job'[id].status # "purged"
    <3>1. CASE Known(id)
      <4>1. Held(id) \/ sub.id = id
        BY <1>2, <1>11, <2>1, <3>1 DEF Held
      <4> QED  BY <1>1, <3>1, <4>1, StepTells DEF NotPurged
    <3>2. CASE ~Known(id)
      <4>1. job[id].status = "none"
        BY <3>2 DEF Known
      <4>2. EnqueueSpec /\ id = sub.id => job'[id].status = "queued"
        BY EnqueueIs
      <4> QED  BY <3>2, <4>1, <4>2, UnknownStays
    <3> QED  BY <3>1, <3>2
  <2> QED  BY <2>1 DEF NotPurged
<1>7. Judged'
  <2>1. ASSUME ctl'.pc = "adopt", ~ctl'.failure, NEW id \in ExternalJobids
        PROVE  ctl'.earlier[id] \in Outcomes /\ (ctl'.earlier[id] \in {"failed", "gone"} => ~Counts(id)')
    <3>1. ctl' = ctl
      BY <1>2, <2>1
    <3>2. id \in Ids
      BY MarkedAreIds DEF ClientInv, ClientType
    <3>3. Known(id)
      BY <1>4, <3>2 DEF Held
    <3> QED  BY <2>1, <3>1, <3>2, <3>3, CountsBack DEF Judged
  <2> QED  BY <1>11, <2>1 DEF Judged
<1>8. CountedIsHeld'
  <2>1. ASSUME NEW id \in Ids, Counts(id)'
        PROVE  \/ ctl'.said = "success"
               \/ ctl'.pc \in {"off", "over", "earlier", "adopt"} /\ id \in ExternalJobids'
               \/ ctl'.pc = "submitting" /\ id = sub'.id
               \/ ctl'.flight = id
    <3>1. CASE Counts(id)
      <4>1. Known(id)
        BY <3>1, CountsIsKnown
      <4>2. \/ ctl.said = "success"
            \/ ctl.pc \in {"off", "over", "earlier", "adopt"} /\ id \in ExternalJobids
            \/ ctl.pc = "submitting" /\ id = sub.id
            \/ ctl.flight = id
        BY <3>1 DEF CountedIsHeld
      <4> QED  BY <1>2, <1>3, <1>10, <4>1, <4>2, NoneIsNobody
    <3>2. CASE EnqueueSpec /\ id = sub.id /\ sub.by = "controller"
      <4>1. sub.pc = "staged" /\ sub'.id = sub.id /\ ctl.pc = "submitting"
        BY <1>2, <3>2 DEF ClientInv, SubmitSound
      <4>2. ctl' = ctl
        BY <1>1, <3>2 DEF EnqueueSpec, MayBeLost, ctlVars
      <4> QED  BY <3>2, <4>1, <4>2
    <3> QED  BY <2>1, <3>1, <3>2, CountsBack
  <2> QED  BY <2>1 DEF CountedIsHeld
<1>9. OneCounts'
  <2>1. ASSUME EnqueueSpec, sub.by = "controller", NEW a \in Ids PROVE ~Counts(a)
    <3>1. sub.pc = "staged" /\ ~Known(sub.id)
      BY <2>1, EnqueueIs
    <3>2. ctl.pc = "submitting"
      BY <2>1, <3>1 DEF ClientInv, SubmitSound
    <3>3. Counts(a) => a # sub.id
      BY <3>1, CountsIsKnown
    <3> QED  BY <1>3, <3>2, <3>3, NoneIsNobody DEF CountedIsHeld
  <2>2. ASSUME NEW a \in Ids, NEW b \in Ids, Counts(a)', Counts(b)' PROVE a = b
    <3>1. Counts(a) \/ (EnqueueSpec /\ a = sub.id /\ sub.by = "controller")
      BY <2>2, CountsBack
    <3>2. Counts(b) \/ (EnqueueSpec /\ b = sub.id /\ sub.by = "controller")
      BY <2>2, CountsBack
    <3> QED  BY <2>1, <3>1, <3>2 DEF OneCounts
  <2> QED  BY <2>2 DEF OneCounts
<1> QED  BY <1>5, <1>6, <1>7, <1>8, <1>9

\* What the steps of the controller are to the markers and to what it holds.
ControllerDoes ==
  \/ /\ ctl.pc \in {"off", "over"} /\ ctl.said # "success" /\ ctl'.pc = "earlier"
     /\ ctl'.flight = None /\ UNCHANGED <<marker, given>>
  \/ /\ ctl.pc = "earlier" /\ ctl'.pc = "adopt" /\ UNCHANGED <<marker, given>>
     /\ ~ctl'.failure => \A id \in ExternalJobids :
          /\ ctl'.earlier[id] \in Outcomes
          /\ \E w \in Look(id, TRUE) : ctl'.earlier[id] = Outcome(w)
  \/ ctl.pc = "adopt" /\ ctl'.pc = "over" /\ UNCHANGED <<marker, given>>
  \/ ctl'.pc = "over" /\ ctl'.said = "success" /\ ExternalJobids' = {}
  \/ /\ ctl.pc = "adopt" /\ ctl'.pc = "marking" /\ ctl'.flight \in ExternalJobids
     /\ UNCHANGED <<marker, given>>
  \/ /\ ctl.pc = "adopt" /\ ctl'.pc = "prepare" /\ UNCHANGED marker
     /\ \/ given' = given \cup ExternalJobids
        \/ ~ctl.failure /\ \A id \in ExternalJobids : ctl.earlier[id] \notin {"succeeded", "live", "unaskable"}
  \/ ctl.pc \in {"submitted", "marking"} /\ ctl'.pc = "marking" /\ ctl'.flight = ctl.flight
  \/ ctl.pc = "marking" /\ ctl'.pc = "active" /\ ctl'.flight = ctl.flight /\ ExternalJobids' \subseteq {ctl.flight}
  \/ /\ ctl.pc = "active" /\ ctl'.pc = "over" /\ ExternalJobids' \subseteq ExternalJobids
     /\ \E w \in Look(ctl.flight, TRUE) : Outcome(w) \in {"failed", "gone"}
  \/ ctl.pc = "active" /\ UNCHANGED <<ctl, marker>>
  \/ ctl.pc \notin {"off", "over"} /\ MayEnd /\ ctl'.pc = "off" /\ UNCHANGED <<marker, given>>

LEMMA ControllerIs ==
  ASSUME ClientInv, ControllerAct, "keeps" \in Assumed
  PROVE  ControllerDoes
<1>1. /\ ctl \in CtlRecord /\ marker \in [Outputs -> Ids \cup {None}] /\ ExternalJobids \subseteq Ids
  BY MarkedAreIds DEF ClientInv, ClientType
<1>2. Decided \in CtlRecord
  BY <1>1, DecidedIs
<1>3. CASE StartController
  <2>1. ctl'.pc = "earlier" /\ ctl'.flight = None
    BY <1>1, <1>3 DEF StartController, CtlRecord
  <2> QED  BY <1>3, <2>1 DEF StartController, ControllerDoes
<1>4. CASE EarlierJobs
  <2>1. ctl.pc = "earlier" /\ UNCHANGED <<marker, given>> /\ ctl'.pc = "adopt"
    BY <1>1, <1>4 DEF EarlierJobs, CtlRecord
  <2>2. CASE ctl' = [ctl EXCEPT !.pc = "adopt", !.failure = TRUE]
    <3>1. ctl'.failure
      BY <1>1, <2>2 DEF CtlRecord
    <3> QED  BY <2>1, <3>1 DEF ControllerDoes
  <2>3. ASSUME NEW said \in [ExternalJobids -> Outcomes],
               \A id \in ExternalJobids : \E w \in Look(id, TRUE) : said[id] = Outcome(w),
               ctl' = [ctl EXCEPT !.pc = "adopt",
                         !.earlier = [id \in Ids |-> IF id \in ExternalJobids THEN said[id]
                                                     ELSE "unmentioned"]]
        PROVE  \A id \in ExternalJobids : /\ ctl'.earlier[id] \in Outcomes
                                          /\ \E w \in Look(id, TRUE) : ctl'.earlier[id] = Outcome(w)
    <3> DEFINE e == [id \in Ids |-> IF id \in ExternalJobids THEN said[id] ELSE "unmentioned"]
    <3>1. \A id \in ExternalJobids : e[id] = said[id]
      BY <1>1
    <3> HIDE DEF e
    <3>2. ctl' = [ctl EXCEPT !.pc = "adopt", !.earlier = e]
      BY <2>3 DEF e
    <3>3. ctl'.earlier = e
      BY <1>1, <3>2 DEF CtlRecord
    <3> QED  BY <2>3, <3>1, <3>3
  <2> QED  BY <1>4, <2>1, <2>2, <2>3 DEF EarlierJobs, ControllerDoes
<1>5. CASE AdoptFails
  <2>1. ctl'.pc = "over"
    BY <1>2, <1>5 DEF AdoptFails, CtlRecord
  <2> QED  BY <1>5, <2>1 DEF AdoptFails, ControllerDoes
<1>6. CASE Replace
  <2>1. ctl'.pc = "prepare"
    BY <1>2, <1>6 DEF Replace, CtlRecord
  <2> QED  BY <1>6, <2>1 DEF Replace, ControllerDoes
<1>7. CASE NothingToAdopt
  <2>1. ctl'.pc = "prepare"
    BY <1>2, <1>7 DEF NothingToAdopt, CtlRecord
  <2>2. \A id \in ExternalJobids : ctl.earlier[id] \notin {"succeeded", "live", "unaskable"}
    BY <1>1, <1>7, ChosenIs DEF NothingToAdopt
  <2> QED  BY <1>7, <2>1, <2>2 DEF NothingToAdopt, ControllerDoes
<1>8. CASE Adopt
  <2>1. Chosen \in ExternalJobids /\ Chosen \in Ids
    BY <1>1, <1>8, ChosenIs DEF Adopt
  <2>2. CASE ctl.earlier[Chosen] = "succeeded"
    <3>1. ReportSuccess(Chosen)
      BY <1>8, <2>2 DEF Adopt
    <3>2. ctl'.pc = "over" /\ ctl'.said = "success" /\ ExternalJobids' = {}
      BY <2>1, <3>1, ReportsIs
    <3> QED  BY <3>2 DEF ControllerDoes
  <2>3. CASE ctl.earlier[Chosen] # "succeeded"
    <3>1. ctl' = [Decided EXCEPT !.pc = "marking", !.flight = Chosen] /\ UNCHANGED <<marker, given>>
          /\ ctl.pc = "adopt"
      BY <1>8, <2>3 DEF Adopt
    <3>2. ctl'.pc = "marking" /\ ctl'.flight = Chosen
      BY <1>2, <3>1 DEF CtlRecord
    <3> QED  BY <2>1, <3>1, <3>2 DEF ControllerDoes
  <2> QED  BY <2>2, <2>3
<1>9. CASE WriteRecord
  <2>1. ctl'.pc = "marking" /\ ctl'.flight = ctl.flight
    BY <1>1, <1>9 DEF WriteRecord, CtlRecord
  <2> QED  BY <1>9, <2>1 DEF WriteRecord, ControllerDoes
<1>10. CASE ReportSubmission
  <2>1. CASE UNCHANGED ctl
    BY <1>10, <2>1 DEF ReportSubmission, ControllerDoes
  <2>2. CASE /\ \A o \in Outputs : marker[o] = ctl.flight
             /\ ctl' = [ctl EXCEPT !.pc = "active"]
             /\ UNCHANGED marker
    <3>1. ctl'.pc = "active" /\ ctl'.flight = ctl.flight
      BY <1>1, <2>2 DEF CtlRecord
    <3>2. ExternalJobids' \subseteq {ctl.flight}
      BY <2>2 DEF ExternalJobids
    <3> QED  BY <1>10, <3>1, <3>2 DEF ReportSubmission, ControllerDoes
  <2> QED  BY <1>10, <2>1, <2>2 DEF ReportSubmission
<1>11. CASE CheckActiveJobs
  <2>1. PICK w \in Look(ctl.flight, TRUE) :
          CASE Outcome(w) = "succeeded" -> ReportSuccess(ctl.flight)
            [] Outcome(w) \in {"failed", "gone"} -> ReportError(ctl.flight)
            [] OTHER -> UNCHANGED <<ctl, marker, record>>
    BY <1>11 DEF CheckActiveJobs
  <2>2. ctl.pc = "active" /\ ctl.flight \in Ids
    BY <1>1, <1>11 DEF CheckActiveJobs, CtlRecord, ClientInv, NamesSound
  <2>3. CASE Outcome(w) = "succeeded"
    <3>1. ReportSuccess(ctl.flight)
      BY <2>1, <2>3
    <3>2. ctl'.pc = "over" /\ ctl'.said = "success" /\ ExternalJobids' = {}
      BY <2>2, <3>1, ReportsIs
    <3> QED  BY <3>2 DEF ControllerDoes
  <2>4. CASE Outcome(w) \in {"failed", "gone"}
    <3>1. ReportError(ctl.flight)
      BY <2>1, <2>4
    <3>2. ctl'.pc = "over" /\ ExternalJobids' \subseteq ExternalJobids
      BY <2>2, <3>1, ReportsIs
    <3> QED  BY <2>2, <2>4, <3>2 DEF ControllerDoes
  <2>5. CASE Outcome(w) \notin {"succeeded", "failed", "gone"}
    <3>1. UNCHANGED <<ctl, marker>>
      BY <2>1, <2>5
    <3> QED  BY <2>2, <3>1 DEF ControllerDoes
  <2> QED  BY <2>3, <2>4, <2>5
<1>12. CASE CancelFlight \/ ControllerKilled
  <2>1. ctl'.pc = "off"
    BY <1>1, <1>12 DEF CancelFlight, ControllerKilled, CtlRecord
  <2> QED  BY <1>12, <2>1 DEF CancelFlight, ControllerKilled, ControllerDoes
<1> QED
  BY <1>3, <1>4, <1>5, <1>6, <1>7, <1>8, <1>9, <1>10, <1>11, <1>12 DEF ControllerAct

LEMMA ControllerOnce ==
  ASSUME OnceAssumed \subseteq Assumed, OnceInv, ControllerAct, [Next]_vars
  PROVE  OneMarked' /\ NotPurged' /\ Judged' /\ CountedIsHeld' /\ OneCounts'
<1> USE DEF OnceInv
<1>1. /\ "purges" \in Assumed /\ "mirror" \in Assumed /\ "marks" \in Assumed /\ "outputs" \in Assumed
      /\ "keeps" \in Assumed
  BY DEF OnceAssumed
<1>2. ControllerMoves /\ ControllerDoes
  BY <1>1, ControllerStep, ControllerIs
<1>3. /\ ctl.flight # None <=> ctl.pc \in {"submitted", "marking", "active"}
      /\ ctl'.flight # None <=> ctl'.pc \in {"submitted", "marking", "active"}
      /\ ctl.said = "success" => ctl.pc = "over"
      /\ \A id \in Ids : Held(id) => Known(id)
      /\ ExternalJobids \subseteq Ids
  BY <1>2, MarkedAreIds DEF ClientInv, NamesSound, ControllerMoves, Held, ClientType
<1>4. \A id \in Ids : Counts(id)' => Counts(id)
  <2>1. ~EnqueueSpec \/ sub.by = "person" \/ ctl.pc = "submitting"
    BY OthersSubmit DEF EnqueueSpec
  <2>2. ASSUME NEW id \in Ids, ~Known(id), Counts(id)' PROVE FALSE
    <3>1. job'[id].host = None
      BY <1>2, <2>2, ControllerStep, JobsMoveIs, UnknownIs DEF ClientInv
    <3> QED  BY <2>2, <3>1 DEF Counts
  <2> QED  BY <2>2, CountsBack
<1>5. UNCHANGED marker => ExternalJobids' = ExternalJobids
  BY DEF ExternalJobids
<1>6. \A id \in Ids : Counts(id) =>
        \/ ctl.said = "success" /\ ctl.pc = "over"
        \/ ctl.pc \in {"off", "over", "earlier", "adopt"} /\ id \in ExternalJobids
        \/ ctl.pc = "submitting" /\ id = sub.id
        \/ ctl.flight = id
  BY <1>3 DEF CountedIsHeld
<1>7. OneMarked'
  <2>1. ctl'.pc # "marking" => \A a, b \in ExternalJobids' : a = b
    BY <1>1, <1>2, <1>5 DEF ControllerDoes, OneMarked, MayEnd
  <2> QED  BY <2>1 DEF OneMarked
<1>8. NotPurged'
  <2>1. ASSUME NEW id \in Ids, Held(id)' \/ sub'.id = id PROVE job'[id].status # "purged"
    <3>1. Held(id) \/ sub.id = id
      BY <1>2, <2>1, NoneIsNobody DEF ControllerMoves, Held, NoSubmit
    <3>2. CASE Known(id)
      BY <1>1, <3>1, <3>2, StepTells DEF NotPurged
    <3>3. CASE ~Known(id)
      <4>1. job'[id] = job[id]
        BY <3>3, ControllerStep, JobsMoveIs DEF ClientInv
      <4> QED  BY <3>3, <4>1 DEF Known
    <3> QED  BY <3>2, <3>3
  <2> QED  BY <2>1 DEF NotPurged
<1>9. Judged'
  <2>1. ASSUME ctl'.pc = "adopt", ~ctl'.failure
        PROVE  /\ UNCHANGED marker
               /\ \A id \in ExternalJobids :
                    /\ ctl'.earlier[id] \in Outcomes
                    /\ \E w \in Look(id, TRUE) : ctl'.earlier[id] = Outcome(w)
    BY <1>2, <2>1 DEF ControllerDoes
  <2>2. ASSUME ctl'.pc = "adopt", ~ctl'.failure, NEW id \in ExternalJobids
        PROVE  ctl'.earlier[id] \in Outcomes /\ (ctl'.earlier[id] \in {"failed", "gone"} => ~Counts(id)')
    <3>1. PICK w \in Look(id, TRUE) : ctl'.earlier[id] = Outcome(w)
      BY <2>1, <2>2
    <3>2. Outcome(w) \in {"failed", "gone"} => ~Counts(id)
      BY <1>1, <1>3, BadlyEnded DEF Held
    <3> QED  BY <1>3, <1>4, <2>1, <2>2, <3>1, <3>2
  <2> QED  BY <1>5, <2>1, <2>2 DEF Judged
<1>10. CountedIsHeld'
  <2>1. ASSUME NEW id \in Ids, Counts(id)', Counts(id)
        PROVE  \/ ctl'.said = "success"
               \/ ctl'.pc \in {"off", "over", "earlier", "adopt"} /\ id \in ExternalJobids'
               \/ ctl'.flight = id
    <3>1. \/ ctl.said = "success" /\ ctl.pc = "over"
          \/ ctl.pc \in {"off", "over", "earlier", "adopt"} /\ id \in ExternalJobids
          \/ ctl.pc = "submitting" /\ id = sub.id
          \/ ctl.flight = id
      BY <1>6, <2>1
    <3>2. CASE /\ ctl.pc \in {"off", "over"} /\ ctl.said # "success" /\ ctl'.pc = "earlier"
               /\ ctl'.flight = None /\ UNCHANGED <<marker, given>>
      BY <1>3, <1>5, <3>1, <3>2, NoneIsNobody
    <3>3. CASE ctl.pc = "earlier" /\ ctl'.pc = "adopt" /\ UNCHANGED <<marker, given>>
      BY <1>3, <1>5, <3>1, <3>3, NoneIsNobody
    <3>4. CASE ctl.pc = "adopt" /\ ctl'.pc = "over" /\ UNCHANGED <<marker, given>>
      BY <1>3, <1>5, <3>1, <3>4, NoneIsNobody
    <3>5. CASE ctl'.said = "success"
      BY <3>5
    <3>6. CASE ctl.pc = "adopt" /\ ctl'.pc = "marking" /\ ctl'.flight \in ExternalJobids
      <4>1. id \in ExternalJobids
        BY <1>3, <3>1, <3>6, NoneIsNobody
      <4> QED  BY <3>6, <4>1 DEF OneMarked
    <3>7. CASE /\ ctl.pc = "adopt"
               /\ \/ given' = given \cup ExternalJobids
                  \/ /\ ~ctl.failure
                     /\ \A i \in ExternalJobids : ctl.earlier[i] \notin {"succeeded", "live", "unaskable"}
      <4>1. id \in ExternalJobids
        BY <1>3, <3>1, <3>7, NoneIsNobody
      <4>2. given' # given \cup ExternalJobids
        BY <2>1, <4>1 DEF Counts
      <4> QED  BY <2>1, <3>7, <4>1, <4>2 DEF Judged, Outcomes
    <3>8. CASE /\ ctl.pc \in {"submitted", "marking"} /\ ctl'.pc \in {"marking", "active"}
               /\ ctl'.flight = ctl.flight
      BY <3>1, <3>8
    <3>9. CASE ctl.pc = "active" /\ \E w \in Look(ctl.flight, TRUE) : Outcome(w) \in {"failed", "gone"}
      <4>1. ctl.flight = id
        BY <3>1, <3>9
      <4> QED  BY <1>1, <2>1, <3>9, <4>1, BadlyEnded DEF Held
    <3>10. CASE ctl.pc = "active" /\ UNCHANGED <<ctl, marker>>
      BY <3>1, <3>10
    <3>11. CASE ctl.pc \notin {"off", "over"} /\ MayEnd /\ ctl'.pc = "off" /\ UNCHANGED <<marker, given>>
      <4>1. CASE ctl.pc = "submitting" /\ id = sub.id
        <5>1. sub.pc \in {"prepared", "staged"}
          BY <1>1, <3>11, <4>1 DEF MayEnd, Unmarkable, ClientInv, ClientType, SubRecord, SubPc, SubmitSound
        <5>2. ~Known(id)
          BY <4>1, <5>1 DEF ClientInv, SubmitSound
        <5> QED  BY <2>1, <5>2, CountsIsKnown
      <4>2. CASE ctl.flight = id
        <5>1. id \in ExternalJobids
          BY <1>1, <3>11, <4>2, NoneIsNobody DEF MayEnd, Unmarkable
        <5> QED  BY <1>5, <3>11, <5>1
      <4> QED  BY <1>5, <3>1, <3>11, <4>1, <4>2
    <3> QED
      BY <1>2, <3>2, <3>3, <3>4, <3>5, <3>6, <3>7, <3>8, <3>9, <3>10, <3>11 DEF ControllerDoes
  <2> QED  BY <1>4, <2>1 DEF CountedIsHeld
<1>11. OneCounts'
  BY <1>4 DEF OneCounts
<1> QED  BY <1>7, <1>8, <1>9, <1>10, <1>11

\* What happens elsewhere leaves it so.
LEMMA OthersOnce ==
  ASSUME OnceAssumed \subseteq Assumed, OnceInv, [Next]_vars,
         UNCHANGED <<sub, ctl, marker>>, ~EnqueueSpec
  PROVE  OneMarked' /\ NotPurged' /\ Judged' /\ CountedIsHeld' /\ OneCounts'
<1> USE DEF OnceInv
<1>1. "purges" \in Assumed
  BY DEF OnceAssumed
<1>2. \A id \in Ids : Counts(id)' => Counts(id)
  BY CountsBack
<1>3. ExternalJobids' = ExternalJobids /\ ExternalJobids \subseteq Ids
  BY MarkedAreIds DEF ExternalJobids, ClientInv, ClientType
<1>4. OneMarked'
  BY <1>3 DEF OneMarked
<1>5. NotPurged'
  <2>1. ASSUME NEW id \in Ids, Held(id) \/ sub.id = id PROVE job'[id].status # "purged"
    <3>1. CASE Known(id)
      BY <1>1, <2>1, <3>1, StepTells DEF NotPurged
    <3>2. CASE ~Known(id)
      BY <3>2, UnknownStays DEF Known
    <3> QED  BY <3>1, <3>2
  <2> QED  BY <1>3, <2>1 DEF NotPurged, Held
<1>6. Judged' /\ CountedIsHeld' /\ OneCounts'
  BY <1>2, <1>3 DEF Judged, CountedIsHeld, OneCounts
<1> QED  BY <1>4, <1>5, <1>6

LEMMA OnceStep ==
  ASSUME OnceAssumed \subseteq Assumed, OnceInv, [Next]_vars
  PROVE  OnceInv'
<1>1. ClientInv'
  BY ClientStep DEF OnceInv
<1>2. CASE SubmitAct
  BY <1>1, <1>2, SubmitOnce DEF OnceInv
<1>3. CASE ControllerAct
  BY <1>1, <1>3, ControllerOnce DEF OnceInv
<1>4. CASE ~SubmitAct /\ ~ControllerAct
  <2>1. UNCHANGED <<sub, ctl, marker>>
    BY <1>4, NextIs, HostsMove, WaitStep DEF OnceInv, ClientInv, ctlVars, vars
  <2>2. ~EnqueueSpec
    BY <1>4 DEF SubmitAct
  <2> QED  BY <1>1, <2>1, <2>2, OthersOnce DEF OnceInv
<1> QED  BY <1>2, <1>3, <1>4

\* A controller has one gpuc job at most for what the rule says that is live or
\* succeeded, whatever is killed, unreachable or gone (Executor.adopt,
\* earlier_jobs, check_active_jobs).
THEOREM RunsAreNeverTwice ==
  ASSUME {"answers", "marks", "keeps", "outputs", "purges", "mirror"} \subseteq Assumed
  PROVE  Spec => []NeverTwice
<1>1. Init => OnceInv
  <2> SUFFICES ASSUME Init PROVE OnceInv
    OBVIOUS
  <2>1. ClientInv /\ ctl.flight = None /\ ctl.pc = "off"
    <3>1. \E starts : ctl = [pc |-> "off", version |-> 1, starts |-> starts, forced |-> FALSE,
                            failure |-> FALSE, earlier |-> NoEarlier, flight |-> None, said |-> "none"]
      BY DEF Init
    <3> QED  BY <3>1, ClientInit
  <2>0. ExternalJobids = {}
    <3>1. \A o \in Outputs : marker[o] = None
      BY DEF Init
    <3> QED  BY <3>1 DEF ExternalJobids
  <2>2. \A id \in Ids : job[id].status = "none" /\ ~Counts(id)
    BY DEF Init, NoJob, Counts
  <2> QED  BY <2>0, <2>1, <2>2 DEF OnceInv, Held, OneMarked, NotPurged, Judged, CountedIsHeld, OneCounts
<1>2. OnceInv /\ [Next]_vars => OnceInv'
  BY OnceStep DEF OnceAssumed
<1>3. OnceInv => NeverTwice
  BY DEF OnceInv, OneCounts, NeverTwice
<1> QED  BY <1>1, <1>2, <1>3, PTL DEF Spec
=============================================================================

------------------------------- MODULE Client -------------------------------
(***************************************************************************)
(* What runs on the client: `gpuc submit` and `gpuc requeue` step by step, *)
(* `gpuc cancel`, a patient `gpuc wait`, and Snakemake's gpuc executor,    *)
(* which submits one Snakemake job, polls it, may be killed, and adopts    *)
(* the gpuc jobs an earlier controller submitted.  Hosts are what Lookup   *)
(* sees of them: they run jobs, mirror their states, purge, and go away.   *)
(***************************************************************************)
EXTENDS Lookup

CONSTANTS
  Outputs,      \* the Snakemake job's outputs: one incomplete marker each
  MaxVersion,   \* what the rule says may change this often (bound)
  MaxStarts,    \* how often the controller is started (bound)
  MaxPersonal   \* how many jobs a person submits or requeues (bound)

ASSUME NumberedAssumption == Ids \subseteq Nat \ {0} /\ Outputs \subseteq Nat
ASSUME BoundsAssumption == MaxVersion \in Nat \ {0} /\ MaxStarts \in Nat /\ MaxPersonal \in Nat
ASSUME AssumedAssumption ==
  Assumed \subseteq {"answers", "marks", "keeps", "edits", "outputs", "purges", "mirror", "entries"}

VARIABLES
  sub,      \* the one `gpuc submit` or `gpuc requeue` in progress
  ran,      \* ran[id]: the version of the rule the job was submitted with
  person,   \* ids a person asked for, by requeue
  ctl,      \* the Snakemake controller
  marker,   \* marker[o]: the job Snakemake's incomplete marker on o names
  record,   \* record[id]: the version write_record wrote for it, 0 for none
  given,    \* ids the controller has given up for a run of its own
  wait      \* a patient `gpuc wait` on one id

vars == <<net, registry, job, mirror, localIndex, s3Index,
          sub, ran, person, ctl, marker, record, given, wait>>
lookupVars == <<net, registry, job, mirror, localIndex, s3Index>>
hostVars == <<net, registry, job, mirror>>
indexVars == <<localIndex, s3Index>>
ctlVars == <<ctl, marker, record, given>>

Versions == 1..MaxVersion
Outcomes == {"unaskable", "gone", "succeeded", "failed", "live"}

JobStatus == {"none", "purged"} \cup Live \cup FINISHED_STATUSES

SubPc == {"idle", "prepared", "staged", "accepted", "mirrored", "recorded"}
CtlPc == {"off", "earlier", "adopt", "prepare", "submitting", "submitted",
          "marking", "active", "over"}

TypeOK ==
  /\ net \in [Hosts -> {"up", "dead", "gone"}]
  /\ registry \in [Hosts -> {"read", "unreadable", "none"}]
  /\ job \in [Ids -> [host : Hosts \cup {None}, status : JobStatus,
                      stop : BOOLEAN, end : {"none"} \cup FINISHED_STATUSES]]
  /\ mirror \in [Ids -> {"none"} \cup Live \cup FINISHED_STATUSES]
  /\ localIndex \in [Ids -> Hosts \cup {None}]
  /\ s3Index \in [Ids -> Hosts \cup {None}]
  /\ sub \in [pc : SubPc, id : Ids \cup {None}, host : Hosts \cup {None},
              by : {"controller", "person"}]
  /\ ran \in [Ids -> 0..MaxVersion]
  /\ person \subseteq Ids
  /\ ctl \in [pc : CtlPc, version : Versions, starts : 0..MaxStarts,
              forced : BOOLEAN, failure : BOOLEAN,
              earlier : [Ids -> Outcomes \cup {"unmentioned"}],
              flight : Ids \cup {None}, said : {"none", "success", "error"}]
  /\ marker \in [Outputs -> Ids \cup {None}]
  /\ record \in [Ids -> 0..MaxVersion]
  /\ given \subseteq Ids
  /\ wait \in [pc : {"off", "poll", "over"}, id : Ids \cup {None},
              named : Hosts \cup {None}, round : {0, 1}, job : Watched]

NoJob == [host |-> None, status |-> "none", stop |-> FALSE, end |-> "none"]
NoSubmit == [pc |-> "idle", id |-> None, host |-> None, by |-> "controller"]
NoEarlier == [id \in Ids |-> "unmentioned"]
NoWatch == [host |-> None, gone |-> FALSE, prefix |-> FALSE, status |-> "unknown", source |-> "host",
            seen |-> FALSE, missing |-> FALSE, error |-> FALSE, trouble |-> "none",
            hostState |-> "answered"]

Init ==
  /\ net = [h \in Hosts |-> "up"]
  /\ registry = [h \in Hosts |-> "read"]
  /\ job = [id \in Ids |-> NoJob]
  /\ mirror = [id \in Ids |-> "none"]
  /\ localIndex = [id \in Ids |-> None]
  /\ s3Index = [id \in Ids |-> None]
  /\ sub = NoSubmit
  /\ ran = [id \in Ids |-> 0]
  /\ person = {}
  \* Bound: either a controller or a wait, the other has had its turns.
  /\ \E turn \in {"controller", "wait"} :
     /\ ctl = [pc |-> "off", version |-> 1,
               starts |-> IF turn = "wait" THEN MaxStarts ELSE 0, forced |-> FALSE,
               failure |-> FALSE, earlier |-> NoEarlier, flight |-> None, said |-> "none"]
     /\ wait = [pc |-> IF turn = "wait" THEN "off" ELSE "over", id |-> None, named |-> None,
                round |-> 0, job |-> NoWatch]
  /\ marker = [o \in Outputs |-> None]
  /\ record = [id \in Ids |-> 0]
  /\ given = {}

(***************************************************************************)
(* The hosts, as a client sees them.                                       *)
(***************************************************************************)
Reports(id) == job[id].status \in Live \cup FINISHED_STATUSES /\ net[job[id].host] = "up"

Run(id) ==
  /\ Reports(id) /\ job[id].status = "queued"
  /\ job' = [job EXCEPT ![id].status = "running"]
  /\ UNCHANGED <<net, registry, mirror, indexVars, sub, ran, person, ctlVars, wait>>

\* The runner's last write.
End(id, s) ==
  /\ Reports(id) /\ job[id].status = "running"
  /\ s = "cancelled" => job[id].stop
  /\ job' = [job EXCEPT ![id].status = s, ![id].end = s, ![id].stop = FALSE]
  /\ UNCHANGED <<net, registry, mirror, indexVars, sub, ran, person, ctlVars, wait>>

\* A tick of the sync loop, or the mirror after the end.
Mirror(id) ==
  /\ Reports(id) /\ job[id].status # "queued"
  /\ mirror[id] # job[id].status
  /\ mirror' = [mirror EXCEPT ![id] = job[id].status]
  /\ UNCHANGED <<net, registry, job, indexVars, sub, ran, person, ctlVars, wait>>

\* Nobody who has not heard of a job's end still asks about it: purge keeps
\* jobs for days, and polls are seconds apart.
HeardOf(id) ==
  /\ \A o \in Outputs : marker[o] # id
  /\ ctl.flight # id /\ sub.id # id
  /\ wait.pc = "poll" => wait.id # id

\* cleanup.purge_job_dirs: finished, and confirmed in the mirror.
Purge(id) ==
  /\ Reports(id)
  /\ job[id].status \in FINISHED_STATUSES /\ mirror[id] = job[id].status
  /\ "purges" \in Assumed => HeardOf(id)
  /\ job' = [job EXCEPT ![id].status = "purged"]
  /\ UNCHANGED <<net, registry, mirror, indexVars, sub, ran, person, ctlVars, wait>>

\* A pod exits, or is terminated, whatever it was doing.
PodEnds(h, how) ==
  /\ h \in Rentals /\ net[h] # "gone" /\ net[h] # how
  /\ net' = [net EXCEPT ![h] = how]
  /\ UNCHANGED <<registry, job, mirror, indexVars, sub, ran, person, ctlVars, wait>>

\* `gpuc status`, typed, finds a rental's pod gone.
ForgetGoneRentals ==
  /\ \E h \in Rentals : net[h] = "gone" /\ registry[h] = "read"
  /\ registry' = [h \in Hosts |-> IF h \in Rentals /\ net[h] = "gone" /\ registry[h] = "read"
                                  THEN "none" ELSE registry[h]]
  /\ UNCHANGED <<net, job, mirror, indexVars, sub, ran, person, ctlVars, wait>>

\* A client of another build writes an entry this one does not validate, and
\* somebody puts it right.  Every job on the host is in the index by then.
\* Bound: while somebody may wait; to a controller it is a host not to be asked.
EntryTurns(h, how) ==
  /\ h \in Rentals /\ registry[h] \notin {"none", how} /\ wait.pc # "over"
  /\ "entries" \in Assumed =>
       sub.host # h /\ \A id \in Ids : job[id].host = h => s3Index[id] # None
  /\ registry' = [registry EXCEPT ![h] = how]
  /\ UNCHANGED <<net, job, mirror, indexVars, sub, ran, person, ctlVars, wait>>

(***************************************************************************)
(* `gpuc submit` and `gpuc requeue`.                                       *)
(***************************************************************************)
\* new_job_id: later ids are greater.  The id of a submit that failed before
\* the host had it is used again: nothing remembers it.
Unused == {id \in Ids : job[id].status = "none" /\ ran[id] = 0}
NewJobId == CHOOSE id \in Unused : \A other \in Unused : id <= other

\* Snakemake's own: a job that ended has no marker any more, one that failed
\* may keep it.
Unmarked == marker' = [o \in Outputs |-> None]

\* What a submit that fails leaves its caller with.
SubmitRaises ==
  /\ sub' = NoSubmit
  /\ \/ /\ sub.by = "controller"
        /\ ctl' = [ctl EXCEPT !.pc = "over", !.said = "error"]
        /\ Unmarked \/ UNCHANGED marker
     \/ sub.by = "person" /\ UNCHANGED <<ctl, marker>>
  /\ UNCHANGED <<record, given>>

\* Whether a submit may fail after its host has the job.
MayBeLost == "answers" \in Assumed => sub.by = "person"

Prepare(by, v) ==
  /\ sub.pc = "idle" /\ Unused # {}
  /\ \E h \in Registered : sub' = [pc |-> "prepared", id |-> NewJobId, host |-> h, by |-> by]
  /\ ran' = [ran EXCEPT ![NewJobId] = v]
  /\ UNCHANGED <<lookupVars, wait>>

\* A person's submit, or requeue of a mirrored spec, on a host with an entry.
\* Bound: while somebody may still wait for the job.
SubmitJob ==
  /\ Cardinality(person) < MaxPersonal /\ wait.pc # "over"
  /\ Prepare("person", MaxVersion)
  /\ person' = person \cup {NewJobId}
  /\ UNCHANGED ctlVars

\* The session, the build check, the host's config, the fit, the checkout and
\* the secrets: nothing the host would dispatch yet.
StageJob ==
  /\ sub.pc = "prepared" /\ net[sub.host] = "up"
  /\ sub' = [sub EXCEPT !.pc = "staged"]
  /\ UNCHANGED <<lookupVars, ran, person, ctlVars, wait>>

SubmitFails ==
  /\ sub.pc \in {"prepared", "staged"}
  /\ SubmitRaises
  /\ ran' = [ran EXCEPT ![sub.id] = 0]
  /\ person' = person \ {sub.id}
  /\ UNCHANGED <<lookupVars, wait>>

\* `enqueue` renames the staged dir into jobs/, and says so.
EnqueueSpec ==
  /\ sub.pc = "staged" /\ net[sub.host] = "up"
  /\ job' = [job EXCEPT ![sub.id] = [NoJob EXCEPT !.host = sub.host, !.status = "queued"]]
  /\ \/ sub' = [sub EXCEPT !.pc = "accepted"] /\ UNCHANGED ctlVars
     \/ MayBeLost /\ SubmitRaises
  /\ UNCHANGED <<net, registry, mirror, indexVars, ran, person, wait>>

\* The spec goes to the mirror, or a note says that it did not.
MirrorSpec ==
  /\ sub.pc = "accepted"
  /\ sub' = [sub EXCEPT !.pc = "mirrored"]
  /\ UNCHANGED <<lookupVars, ran, person, ctlVars, wait>>

\* The file of this machine's index; one that cannot be written fails the submit.
RecordIndex ==
  /\ sub.pc = "mirrored"
  /\ \/ /\ localIndex' = [localIndex EXCEPT ![sub.id] = sub.host]
        /\ sub' = [sub EXCEPT !.pc = "recorded"]
        /\ UNCHANGED ctlVars
     \/ MayBeLost /\ SubmitRaises /\ UNCHANGED localIndex
  /\ UNCHANGED <<hostVars, s3Index, ran, person, wait>>

\* A mirror that cannot be written is a note.  Bound: it can be for the
\* controller, which has its own index.
PutIndex ==
  /\ sub.pc = "recorded"
  /\ s3Index' \in {[s3Index EXCEPT ![sub.id] = sub.host]}
                    \cup {s3Index : x \in {sub.by} \ {"controller"}}
  /\ sub' = NoSubmit
  /\ ctl' = IF sub.by = "controller"
            THEN [ctl EXCEPT !.pc = "submitted", !.flight = sub.id] ELSE ctl
  /\ UNCHANGED <<hostVars, localIndex, ran, person, marker, record, given, wait>>

(***************************************************************************)
(* `gpuc cancel`: the host's word for each id it could be asked about.     *)
(***************************************************************************)
Cancelled(j) == IF j.status = "queued" THEN [j EXCEPT !.status = "cancelled", !.end = "cancelled"]
                ELSE IF j.status = "running" THEN [j EXCEPT !.stop = TRUE] ELSE j

\* _verdicts: the ids whose host may be found and answers.
Askable(id) ==
  \E place \in LocateMany(id, TRUE, None) :
     /\ place.asked \in {"unasked", "answered"}
     /\ "answered" \in Ask(place.host) /\ HostHas(place.host, id)

\* Any of the hosts may fail to answer: a cancel may do part of what was asked.
CancelJobs(ids) ==
  \E done \in SUBSET {id \in ids : Askable(id)} :
     job' = [id \in Ids |-> IF id \in done THEN Cancelled(job[id]) ELSE job[id]]

(***************************************************************************)
(* The Snakemake executor, for one Snakemake job.                          *)
(***************************************************************************)
ExternalJobids == {marker[o] : o \in Outputs} \ {None}

\* Mutant: not knowing is taken for there being no such job.
OutcomeOfError(w) ==
  IF w.error THEN "gone"
  ELSE IF w.status = "succeeded" THEN "succeeded"
  ELSE IF w.status \in {"failed", "cancelled"} THEN "failed" ELSE "live"

Outcome(w) ==
  IF w.error THEN IF w.hostState = "unaskable" THEN "unaskable" ELSE "gone"
  ELSE IF w.status = "succeeded" THEN "succeeded"
  ELSE IF w.status \in {"failed", "cancelled"} THEN "failed" ELSE "live"

\* A workflow that is done is not started again; the rule, its params, inputs
\* or the config may have changed since, and the job may be forced.
StartController ==
  /\ ctl.pc \in {"off", "over"} /\ ctl.said # "success"
  /\ ctl.starts < MaxStarts
  /\ \E v \in Versions, forced \in BOOLEAN :
       /\ v >= ctl.version
       /\ ctl' = [ctl EXCEPT !.pc = "earlier", !.starts = @ + 1, !.version = v,
                             !.forced = forced, !.failure = FALSE,
                             !.earlier = NoEarlier, !.flight = None, !.said = "none"]
  /\ UNCHANGED <<lookupVars, sub, ran, person, marker, record, given, wait>>

\* One `gpuc status` naming every id the markers hold.
EarlierJobs ==
  /\ ctl.pc = "earlier"
  /\ \/ /\ ExternalJobids # {}
        /\ ctl' = [ctl EXCEPT !.pc = "adopt", !.failure = TRUE]
     \/ \E said \in [ExternalJobids -> Outcomes] :
          /\ \A id \in ExternalJobids : \E w \in Look(id, TRUE) : said[id] = Outcome(w)
          /\ ctl' = [ctl EXCEPT !.pc = "adopt",
                       !.earlier = [id \in Ids |-> IF id \in ExternalJobids THEN said[id]
                                                   ELSE "unmentioned"]]
  /\ UNCHANGED <<lookupVars, sub, ran, person, marker, record, given, wait>>

\* Mutant: what the marker names is taken for a run of what the rule says.
UnlikeIfForced(id) == ctl.forced

\* Why the gpuc job is not a run of what the rule now says.
Unlike(id) == ctl.forced \/ record[id] # ctl.version

\* The earlier job to settle this one by: succeeded, else live, else one
\* that could not be asked about; None when every one of them ended badly.
Chosen ==
  LET at(s) == {id \in ExternalJobids : ctl.earlier[id] = s}
      first(ids) == CHOOSE id \in ids : \A other \in ids : id <= other
  IN  IF at("succeeded") # {} THEN first(at("succeeded"))
      ELSE IF at("live") # {} THEN first(at("live"))
      ELSE IF at("unaskable") # {} THEN first(at("unaskable")) ELSE None

\* What adopt knew is not used again.
Decided == [ctl EXCEPT !.earlier = NoEarlier, !.forced = FALSE, !.failure = FALSE]

\* settled: out of flight, and its record gone.
ReportSuccess(id) ==
  /\ ctl' = [Decided EXCEPT !.pc = "over", !.said = "success", !.flight = None]
  /\ record' = [record EXCEPT ![id] = 0]
  /\ Unmarked

ReportError(id) ==
  /\ ctl' = [ctl EXCEPT !.pc = "over", !.said = "error", !.flight = None]
  /\ record' = [record EXCEPT ![id] = 0]
  /\ Unmarked \/ UNCHANGED marker

\* gpuc itself could not be asked: the job fails, for a restart to settle by
\* the markers, if Snakemake keeps them.
AdoptFails ==
  /\ ctl.pc = "adopt" /\ ctl.failure
  /\ ctl' = [Decided EXCEPT !.pc = "over", !.said = "error"]
  /\ UNCHANGED marker \/ ("keeps" \notin Assumed /\ Unmarked)
  /\ UNCHANGED <<lookupVars, sub, ran, person, record, given, wait>>

Adopt ==
  /\ ctl.pc = "adopt" /\ ~ctl.failure
  /\ Chosen # None /\ ~Unlike(Chosen)
  /\ IF ctl.earlier[Chosen] = "succeeded"
     THEN ReportSuccess(Chosen)
     ELSE /\ ctl' = [Decided EXCEPT !.pc = "marking", !.flight = Chosen]
          /\ UNCHANGED <<marker, record>>
  /\ UNCHANGED <<lookupVars, sub, ran, person, given, wait>>

\* Not this job's run: whatever is live of it, or may be, is cancelled.
Replace ==
  /\ ctl.pc = "adopt" /\ ~ctl.failure
  /\ Chosen # None /\ Unlike(Chosen)
  /\ CancelJobs({id \in ExternalJobids : ctl.earlier[id] \in {"live", "unaskable"}})
  /\ given' = given \cup ExternalJobids
  /\ ctl' = [Decided EXCEPT !.pc = "prepare"]
  /\ UNCHANGED <<net, registry, mirror, indexVars, sub, ran, person, marker, record, wait>>

NothingToAdopt ==
  /\ ctl.pc = "adopt" /\ ~ctl.failure /\ Chosen = None
  /\ ctl' = [Decided EXCEPT !.pc = "prepare"]
  /\ UNCHANGED <<lookupVars, sub, ran, person, marker, record, given, wait>>

RunJob ==
  /\ ctl.pc = "prepare"
  /\ Prepare("controller", ctl.version)
  /\ ctl' = [ctl EXCEPT !.pc = "submitting"]
  /\ UNCHANGED <<person, marker, record, given>>

\* Before any marker names it, and of what the rule and its inputs are by now;
\* a record that cannot be written is not fatal.
WriteRecord ==
  /\ ctl.pc = "submitted"
  /\ \/ UNCHANGED record
     \/ \E v \in Versions :
          /\ IF "edits" \in Assumed THEN v = ctl.version ELSE v >= ctl.version
          /\ record' = [record EXCEPT ![ctl.flight] = v]
  /\ ctl' = [ctl EXCEPT !.pc = "marking"]
  /\ UNCHANGED <<lookupVars, sub, ran, person, marker, given, wait>>

\* report_job_submission: Snakemake marks the outputs, one after the other.
ReportSubmission ==
  /\ ctl.pc = "marking"
  /\ \/ \E o \in Outputs :
          /\ marker[o] # ctl.flight
          /\ \A p \in Outputs : p < o => marker[p] = ctl.flight
          /\ marker' = [marker EXCEPT ![o] = ctl.flight]
          /\ UNCHANGED ctl
     \/ /\ \A o \in Outputs : marker[o] = ctl.flight
        /\ ctl' = [ctl EXCEPT !.pc = "active"]
        /\ UNCHANGED marker
  /\ UNCHANGED <<lookupVars, sub, ran, person, record, given, wait>>

\* One `gpuc status` for the active job; one that fails changes nothing.
CheckActiveJobs ==
  /\ ctl.pc = "active"
  /\ \E w \in Look(ctl.flight, TRUE) :
       CASE Outcome(w) = "succeeded" -> ReportSuccess(ctl.flight)
         [] Outcome(w) \in {"failed", "gone"} -> ReportError(ctl.flight)
         [] OTHER -> UNCHANGED <<ctl, marker, record>>
  /\ UNCHANGED <<lookupVars, sub, ran, person, given, wait>>

\* A job the host has and no marker names yet.
Unmarkable ==
  \/ ctl.pc = "submitting" /\ sub.pc \in {"accepted", "mirrored", "recorded"}
  \/ ctl.flight # None /\ ctl.flight \notin ExternalJobids

\* When the controller may end: where the markers are what the next one needs.
MayEnd ==
  /\ "marks" \in Assumed => ~Unmarkable
  /\ "outputs" \in Assumed => \A a, b \in ExternalJobids : a = b

\* Ctrl-C, once its job is in flight.
CancelFlight ==
  /\ ctl.pc \in {"marking", "active"} /\ MayEnd
  /\ CancelJobs({ctl.flight})
  /\ ctl' = [ctl EXCEPT !.pc = "off", !.flight = None]
  /\ UNCHANGED <<net, registry, mirror, indexVars, sub, ran, person, marker, record, given, wait>>

\* SIGKILL, or the terminal going: with it goes the `gpuc submit` it runs.
ControllerKilled ==
  /\ ctl.pc \notin {"off", "over"} /\ MayEnd
  /\ ctl' = [ctl EXCEPT !.pc = "off", !.flight = None]
  /\ sub' = IF sub.by = "controller" THEN NoSubmit ELSE sub
  /\ UNCHANGED <<lookupVars, ran, person, marker, record, given, wait>>

(***************************************************************************)
(* `gpuc wait <id>`, on an id somebody has read off a host or a submit,    *)
(* with or without `--host`, which may name another than the job's.        *)
(***************************************************************************)
StartWait(id) ==
  /\ wait.pc = "off" /\ job[id].status # "none"
  /\ \E here \in BOOLEAN, named \in Hosts \cup {None} : \E w \in Start(id, here, named) :
       wait' = [pc |-> "poll", id |-> id, named |-> named, round |-> 0, job |-> w]
  /\ UNCHANGED <<lookupVars, sub, ran, person, ctlVars>>

\* block: one round of the poll; over says whether the grace has passed.
Round(over) ==
  /\ wait.pc = "poll"
  /\ \E w \in Poll(wait.job, wait.id, TRUE, over) :
       wait' = [wait EXCEPT !.job = w, !.round = 1 - @,
                            !.pc = IF Settled(w) THEN "over" ELSE "poll"]
  /\ UNCHANGED <<lookupVars, sub, ran, person, ctlVars>>

Next ==
  \/ \E id \in Ids : Run(id) \/ Mirror(id) \/ Purge(id)
                       \/ StartWait(id)
  \/ \E id \in Ids, s \in FINISHED_STATUSES : End(id, s)
  \/ \E h \in Hosts : \/ \E how \in {"dead", "gone"} : PodEnds(h, how)
                      \/ \E how \in {"read", "unreadable"} : EntryTurns(h, how)
  \/ ForgetGoneRentals
  \/ SubmitJob \/ StageJob \/ SubmitFails \/ EnqueueSpec \/ MirrorSpec \/ RecordIndex \/ PutIndex
  \/ StartController \/ EarlierJobs \/ AdoptFails \/ Adopt \/ Replace \/ NothingToAdopt
  \/ RunJob \/ WriteRecord \/ ReportSubmission \/ CheckActiveJobs
  \/ CancelFlight \/ ControllerKilled
  \/ \E over \in BOOLEAN : Round(over)

Spec == Init /\ [][Next]_vars

\* Jobs that were started end (max_runtime_min, or HostQueue's CancelEnds), a
\* client that waits polls, and its clock goes on.  That a host starts its
\* queued jobs is not assumed: it may have no dispatcher.
Fairness ==
  /\ \A id \in Ids : WF_vars(\E s \in FINISHED_STATUSES : End(id, s))
  /\ WF_vars(Round(TRUE))

FairSpec == Spec /\ Fairness

(***************************************************************************)
(* Properties.                                                             *)
(***************************************************************************)
\* A run of the rule that counts: live where it may still be going on, or
\* succeeded where that can still be read.
Counts(id) ==
  /\ job[id].host # None /\ id \notin given \cup person
  /\ \/ job[id].status \in Live /\ net[job[id].host] # "gone"
     \/ /\ job[id].end = "succeeded"
        /\ mirror[id] = "succeeded" \/ (HostHas(job[id].host, id) /\ net[job[id].host] # "gone")

\* NeverTwice: Executor.adopt says "not knowing is never taken for `there is
\* no such job`": whatever is killed, unreachable or gone, the controller has
\* one gpuc job at most for what the rule says now that is live or succeeded.
NeverTwice ==
  \A a, b \in Ids : Counts(a) /\ Counts(b) /\ ran[a] = ran[b] => a = b

\* ToldTheTruth: a success reported to Snakemake is one of a job submitted
\* for what the rule says now, and the end a wait reports, from the host or
\* the mirror, is the end the job came to.
ToldTheTruth ==
  /\ ctl.said = "success" =>
       \E id \in Ids : ran[id] = ctl.version /\ job[id].end = "succeeded"
  /\ wait.job.status \in FINISHED_STATUSES => job[wait.id].end = wait.job.status

\* MissingIsNowhere: exit 4, "no such job", is said only of a job that no host
\* there is has any more, or not the one that was named, and never of one whose host
\* merely did not answer (locate_many: "`no such job` would be a lie told over a
\* connection error").
Sought == IF wait.named = None THEN Hosts ELSE {wait.named}
MissingIsNowhere ==
  wait.job.missing => \A h \in Sought : net[h] = "gone" \/ ~HostHas(h, wait.id)

\* WaitEnds: a patient wait goes on for ever only for a job that stays queued on a
\* host that is up (Watch._check_dispatcher warns of it); whatever else the
\* host does, goes, dies or answers now and then, it comes to an end (wait.py's
\* TROUBLE_GRACE_S: "must not hang one for ever").
StillQueued == job[wait.id].status = "queued" /\ net[job[wait.id].host] = "up"
WaitEnds == <>[](wait.pc = "poll") => <>[](wait.pc = "poll" /\ StillQueued)
=============================================================================

-------------------------------- MODULE Owner --------------------------------
(***************************************************************************)
(* Which machine serves a queue on a volume that several can mount         *)
(* (owner.py).  owner.json names one machine in one boot; its dispatcher's *)
(* heartbeat renews it.  A newcomer watches the record until it has been   *)
(* quiet for STALE_S by its own clock and takes the queue over; whatever a *)
(* replaced machine still runs looks at the record before it writes.  It   *)
(* is detection, not prevention: each look and the write after it are two  *)
(* steps here, and what the code leaves to their being close is Assumed.   *)
(* One job stands for the queue.  A machine that restarts is another one.  *)
(***************************************************************************)
EXTENDS Naturals, FiniteSets

CONSTANTS
  Machines, None,
  Stale,        \* STALE_S, in heartbeats
  ClaimWait,    \* CLAIM_WAIT_S
  LongGone,     \* LONG_GONE_S
  MaxRestarts,  \* queue.MAX_RESTARTS
  Steady,       \* machines that renew their claim in every heartbeat
  Assumed       \* what is assumed of the timing: see OwnerAssumption

\* A machine outside Steady may hang, or lose the volume for a time, and be replaced
\* while all that it runs goes on.
\* "claims": no other claim falls between a newcomer's last look and its write.
\* "looks": no takeover falls between a runner's last look and the write that
\* ends its job, nor between a dispatcher's look and what it writes after it.
\* "window": a runner's claim follows its look before whoever takes over in
\* between stops looking for it.  "stays": a machine does not get a queue back
\* while a runner of its own from before is still at work.
ASSUME OwnerAssumption ==
  /\ Stale \in Nat \ {0} /\ ClaimWait \in Nat /\ Stale < ClaimWait /\ Stale < LongGone
  /\ LongGone \in Nat /\ MaxRestarts \in Nat
  /\ None \notin Machines /\ Steady \subseteq Machines
  /\ Assumed \subseteq {"claims", "looks", "window", "stays"}

VARIABLES
  record,   \* owner.json: the machine it names
  age,      \* heartbeats since it was written or renewed
  up,       \* machines that have not gone down
  disp,     \* disp[m]: the dispatcher on m; due is the write that it has looked for:
            \* to requeue the job, or to fail it where it is queued or running
  runners,  \* runners on any machine
  job       \* state.json of the job

vars == <<record, age, up, disp, runners, job>>

Attempts == 1..(MaxRestarts + 1)

DispState == [pc : {"off", "watch", "write", "adopt", "serve"},
              quiet : 0..Stale, waited : 0..ClaimWait, moved : BOOLEAN,
              took : BOOLEAN, entry : {0} \cup Attempts,
              due : {"none", "requeue", "queued", "running"}]
RunnerState == [on : Machines, attempt : Attempts,
                pc : {"started", "looked", "running", "ending"}]
JobState == [status : {"queued", "running", "done"}, attempt : Attempts,
             by : Machines \cup {None}]

TypeOK ==
  /\ record \in Machines \cup {None}
  /\ age \in 0..LongGone
  /\ up \subseteq Machines
  /\ disp \in [Machines -> DispState]
  /\ runners \subseteq RunnerState
  /\ job \in JobState

Off == [pc |-> "off", quiet |-> 0, waited |-> 0, moved |-> FALSE, took |-> FALSE, entry |-> 0,
        due |-> "none"]

Init ==
  /\ record = None /\ age = 0
  /\ up = Machines
  /\ disp = [m \in Machines |-> Off]
  /\ runners = {}
  /\ job = [status |-> "queued", attempt |-> 1, by |-> None]

-----------------------------------------------------------------------------
Replaced(m) == record \notin {m, None}
RunnersOf(m) == {x \in runners : x.on = m}
Serving(m) == disp[m].pc \in {"adopt", "serve"}

\* owner.json as every watcher will find it at its next look: another.
Written(m, pc) ==
  [n \in Machines |->
     IF n = m THEN [Off EXCEPT !.pc = pc, !.took = disp[m].took]
     ELSE [disp[n] EXCEPT !.moved = @ \/ disp[n].pc = "watch"]]

\* Nobody else is between its last look and its write.
Alone(m) ==
  "claims" \in Assumed => \A n \in Machines \ {m} : disp[n].pc # "write"

ToWrite(m, previous) ==
  /\ Alone(m)
  /\ disp' = [disp EXCEPT ![m] = [Off EXCEPT !.pc = "write", !.took = previous]]

\* Mutant: a renewal is not taken for a sign of life.
LookWithoutReset(m) ==
  /\ disp[m].pc = "watch" /\ disp[m].moved
  /\ IF Replaced(m) THEN disp' = [disp EXCEPT ![m].moved = FALSE] ELSE ToWrite(m, FALSE)
  /\ UNCHANGED <<record, age, up, runners, job>>

\* claim: a record of another that may be alive is watched.
Start(m) ==
  /\ m \in up /\ disp[m].pc = "off"
  /\ IF Replaced(m) /\ age < LongGone
     THEN disp' = [disp EXCEPT ![m].pc = "watch"]
     ELSE ToWrite(m, Replaced(m))
  /\ UNCHANGED <<record, age, up, runners, job>>

\* A look that finds the record changed.
Look(m) ==
  /\ disp[m].pc = "watch" /\ disp[m].moved
  /\ IF Replaced(m) THEN disp' = [disp EXCEPT ![m].moved = FALSE, ![m].quiet = 0]
     ELSE ToWrite(m, FALSE)
  /\ UNCHANGED <<record, age, up, runners, job>>

\* Quiet for long enough, or renewed for too long.
WatchOver(m) ==
  /\ disp[m].pc = "watch" /\ ~disp[m].moved
  /\ \/ disp[m].quiet >= Stale /\ ToWrite(m, TRUE)
     \/ /\ disp[m].quiet < Stale /\ disp[m].waited >= ClaimWait    \* Busy
        /\ disp' = [disp EXCEPT ![m] = Off]
  /\ UNCHANGED <<record, age, up, runners, job>>

WriteRecord(m) ==
  /\ disp[m].pc = "write"
  /\ "looks" \in Assumed => /\ \A x \in runners : x.pc = "ending" => x.on = m
                            /\ \A n \in Machines \ {m} : disp[n].due = "none"
  /\ "stays" \in Assumed /\ disp[m].took => RunnersOf(m) = {}
  /\ record' = m /\ age' = 0
  /\ disp' = Written(m, "adopt")
  /\ UNCHANGED <<up, runners, job>>

\* The heartbeat.
Renew(m) ==
  /\ Serving(m) /\ record = m /\ age > 0
  /\ age' = 0
  /\ disp' = [n \in Machines |-> [disp[n] EXCEPT !.moved = @ \/ disp[n].pc = "watch"]]
  /\ UNCHANGED <<record, up, runners, job>>

\* A heartbeat's time passes; every watcher has looked in it.
Tick ==
  /\ \A m \in Machines : ~disp[m].moved
  /\ \A m \in Steady : Serving(m) /\ record = m => age = 0
  /\ age < LongGone \/ \E m \in Machines : disp[m].pc = "watch"
  /\ \A m \in Machines : disp[m].pc = "watch" =>
                           disp[m].quiet < Stale /\ disp[m].waited < ClaimWait
  /\ age' = IF age < LongGone THEN age + 1 ELSE age
  /\ disp' = [m \in Machines |->
                IF disp[m].pc = "watch"
                THEN [disp[m] EXCEPT !.quiet = @ + 1, !.waited = @ + 1] ELSE disp[m]]
  /\ UNCHANGED <<record, up, runners, job>>

-----------------------------------------------------------------------------
(* The dispatcher of a machine that has claimed the queue.  Each of its    *)
(* passes, and each of its writes, looks at the record first.              *)

Free(m) == Serving(m) /\ disp[m].due = "none"

StandDown(m) ==
  /\ Free(m) /\ Replaced(m)
  /\ disp' = [disp EXCEPT ![m] = Off]
  /\ UNCHANGED <<record, age, up, runners, job>>

\* adopt_orphans: another boot's job is to be queued again, one of this machine's
\* is taken over with its runner or is to be failed without it.
AdoptOrphans(m) ==
  /\ disp[m].pc = "adopt" /\ ~Replaced(m)
  /\ LET mine == job.status = "running" /\ job.by = m
         alive == \E x \in RunnersOf(m) : x.attempt = job.attempt /\ x.pc \in {"running", "ending"}
     IN  disp' = [disp EXCEPT
           ![m].pc = "serve",
           ![m].entry = IF mine /\ alive THEN job.attempt ELSE 0,
           ![m].due = IF job.status # "running" \/ (mine /\ alive) THEN "none"
                      ELSE IF mine THEN "running" ELSE "requeue"]
  /\ UNCHANGED <<record, age, up, runners, job>>

\* Mutant: only the start looks for jobs of another boot.
NeverRequeue(m) == FALSE /\ UNCHANGED vars

\* _requeue_other_boots, after a takeover.
RequeueOtherBoots(m) ==
  /\ disp[m].pc = "serve" /\ Free(m) /\ ~Replaced(m) /\ disp[m].took
  /\ disp[m].entry = 0 /\ job.status = "running" /\ job.by # m
  /\ disp' = [disp EXCEPT ![m].due = "requeue"]
  /\ UNCHANGED <<record, age, up, runners, job>>

\* _settle: a runner that left the job queued or running died; a live runner on
\* another machine is no runner here.
Reap(m) ==
  /\ disp[m].pc = "serve" /\ Free(m) /\ ~Replaced(m) /\ disp[m].entry # 0
  /\ \A x \in RunnersOf(m) : x.attempt # disp[m].entry
  /\ disp' = [disp EXCEPT
        ![m].entry = 0,
        ![m].due = IF job.status = "done" \/ (job.status = "queued" /\ job.attempt > disp[m].entry)
                   THEN "none" ELSE job.status]
  /\ UNCHANGED <<record, age, up, runners, job>>

\* requeue_after_restart: queued again, or failed at the limit.
Requeued ==
  IF job.attempt <= MaxRestarts
  THEN [status |-> "queued", attempt |-> job.attempt + 1, by |-> None]
  ELSE [job EXCEPT !.status = "done"]

\* The write that was due; it reads the job's state again, and not the record.
WriteDue(m) ==
  /\ Serving(m) /\ disp[m].due # "none"
  /\ job' = IF disp[m].due = "requeue"
            THEN IF job.status = "running" /\ job.by # m THEN Requeued ELSE job
            ELSE IF job.status = disp[m].due THEN [job EXCEPT !.status = "done"] ELSE job
  /\ disp' = [disp EXCEPT ![m].due = "none"]
  /\ UNCHANGED <<record, age, up, runners>>

\* launch_ready, later in a pass that looked when it began.
Launch(m) ==
  /\ disp[m].pc = "serve" /\ Free(m) /\ disp[m].entry = 0
  /\ job.status = "queued"
  /\ runners' = runners \cup {[on |-> m, attempt |-> job.attempt, pc |-> "started"]}
  /\ disp' = [disp EXCEPT ![m].entry = job.attempt]
  /\ UNCHANGED <<record, age, up, job>>

\* idle_and_not_ephemeral.
LeaveIdle(m) ==
  /\ disp[m].pc = "serve" /\ Free(m) /\ disp[m].entry = 0 /\ job.status = "done"
  /\ disp' = [disp EXCEPT ![m] = Off]
  /\ UNCHANGED <<record, age, up, runners, job>>

-----------------------------------------------------------------------------
(* A runner.                                                               *)

Gone(x) == runners' = runners \ {x}
Becomes(x, pc) == runners' = (runners \ {x}) \cup {[x EXCEPT !.pc = pc]}

RunnerLooks(x) ==
  /\ x.pc = "started"
  /\ IF Replaced(x.on) THEN Gone(x) ELSE Becomes(x, "looked")
  /\ UNCHANGED <<record, age, up, disp, job>>

RunnerClaims(x) ==
  /\ x.pc = "looked"
  /\ IF job.status = "queued" /\ job.attempt = x.attempt
     THEN job' = [job EXCEPT !.status = "running", !.by = x.on] /\ Becomes(x, "running")
     ELSE UNCHANGED job /\ Gone(x)
  /\ UNCHANGED <<record, age, up, disp>>

\* Every CHECK_S while a phase runs.
RunnerStandsDown(x) ==
  /\ x.pc = "running" /\ Replaced(x.on)
  /\ Gone(x)
  /\ UNCHANGED <<record, age, up, disp, job>>

\* Mutant: the last look is the monitor's, made when that was due.
EndsUnlooked(x) ==
  /\ x.pc = "running"
  /\ Becomes(x, "ending")
  /\ UNCHANGED <<record, age, up, disp, job>>

\* The look that _end always takes.
RunnerIsEnding(x) ==
  /\ x.pc = "running" /\ ~Replaced(x.on)
  /\ Becomes(x, "ending")
  /\ UNCHANGED <<record, age, up, disp, job>>

\* jobs.finish: a compare-and-set on the status, whichever attempt has it.
RunnerEnds(x) ==
  /\ x.pc = "ending"
  /\ job' = IF job.status = "running" THEN [job EXCEPT !.status = "done"] ELSE job
  /\ Gone(x)
  /\ UNCHANGED <<record, age, up, disp>>

-----------------------------------------------------------------------------
(* What goes down.                                                         *)

MachineDies(m) ==
  /\ m \in up
  /\ up' = up \ {m}
  /\ disp' = [disp EXCEPT ![m] = Off]
  /\ runners' = runners \ RunnersOf(m)
  /\ UNCHANGED <<record, age, job>>

DispatcherDies(m) ==
  /\ disp[m].pc # "off"
  /\ "window" \in Assumed => \A x \in runners : x.pc = "looked" => x.on = m
  /\ disp' = [disp EXCEPT ![m] = Off]
  /\ UNCHANGED <<record, age, up, runners, job>>

-----------------------------------------------------------------------------
Claiming(m) == Start(m) \/ Look(m) \/ WatchOver(m) \/ WriteRecord(m)
Pass(m) ==
  \/ StandDown(m) \/ AdoptOrphans(m) \/ RequeueOtherBoots(m) \/ Reap(m) \/ WriteDue(m)
  \/ Launch(m) \/ LeaveIdle(m)
Runner(x) ==
  \/ RunnerLooks(x) \/ RunnerClaims(x) \/ RunnerStandsDown(x) \/ RunnerIsEnding(x)
  \/ RunnerEnds(x)

Next ==
  \/ \E m \in Machines : Claiming(m) \/ Renew(m) \/ Pass(m) \/ MachineDies(m) \/ DispatcherDies(m)
  \/ \E x \in runners : Runner(x)
  \/ Tick

\* A dispatcher that serves goes on with its passes, and a runner with its job.
Fairness ==
  /\ \A m \in Machines : WF_vars(Pass(m))
  /\ WF_vars(\E x \in runners : Runner(x))

Spec == Init /\ [][Next]_vars /\ Fairness

-----------------------------------------------------------------------------
\* LiveIsNotReplaced: a machine whose dispatcher serves the queue and renews its
\* claim in every heartbeat keeps it, whoever else starts beside it and however
\* often: a newcomer that sees one renewal starts to count again, and gives up
\* (owner.claim).
LiveIsNotReplaced ==
  [][\A m \in Steady : Serving(m) /\ record = m => record' = m]_vars

\* EndsItsOwn: the write that ends a job ends the attempt that its writer ran,
\* though it is a compare-and-set on the status alone and the job may have been
\* queued again, and be running, on another machine (JobRunner._end); and what a
\* dispatcher fails or queues again is no attempt that the machine which has the
\* queue is working on (_mark_runner_died, requeue_after_restart).
EndsItsOwn ==
  [][/\ \A x \in runners : RunnerEnds(x) /\ job.status = "running" =>
                            job.by = x.on /\ job.attempt = x.attempt
     /\ \A m \in Machines : WriteDue(m) /\ job' # job =>
          \A x \in RunnersOf(record) : x.pc \in {"running", "ending"} => x.attempt # job.attempt]_vars

\* A job said to be running that no runner is running.
Stranded ==
  job.status = "running" /\ ~ \E x \in RunnersOf(job.by) : x.attempt = job.attempt

\* NotStranded: while a machine goes on serving the queue, no job is left marked
\* as running on a machine that has stood down or gone, not even one that was
\* claimed there after the takeover (_requeue_other_boots, adopt_orphans).
NotStranded ==
  <>[](\E m \in Machines : disp[m].pc = "serve" /\ record = m) => []<>~Stranded
=============================================================================

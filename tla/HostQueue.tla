------------------------------ MODULE HostQueue ------------------------------
(***************************************************************************)
(* One host's job queue: the state.json of every job, the runner processes *)
(* that claim and end attempts, and the one dispatcher that spawns, adopts, *)
(* reaps and escalates (gpuc/host/queue.py, jobs.py, dispatcher.py,         *)
(* runner.py, procs.py).                                                    *)
(*                                                                         *)
(* Every read-modify-write of a state.json is made under that job's lock,  *)
(* so it is one step; anything a process reads outside the lock and acts   *)
(* on later is a step of its own.  Time is left out: a grace period that   *)
(* runs out, a poll that comes round, a limit that is hit are steps that    *)
(* may be taken whenever the code could take them.                         *)
(***************************************************************************)
EXTENDS Integers, Sequences, FiniteSets, PlanContract

CONSTANTS
  Jobs,          \* job ids, as numbers: ids sort by submission time
  Cards,         \* the cards this host owns
  Wants,         \* Wants[j]: spec.gpus
  Fills,         \* the jobs with spec.auto_preempt
  Phases,        \* the phases a job runs, in order; the last is "main"
  Priorities,    \* dispatch priorities, lower first
  Runners,       \* identities (pid, start time) a runner process can have
  None,          \* no runner, no entry
  MaxRestarts,   \* queue.MAX_RESTARTS
  MaxAttempt,    \* bound: no preempt is asked of an attempt numbered this
  MaxBoot,       \* bound: the host is booted at most this often
  MaxDeaths,     \* bound: a dispatcher is killed at most this often
  PromptClaim,   \* TRUE: a runner claims before a successor dispatcher starts
  PromptPublish  \* TRUE: no runner dies, or is signalled, between spawning and
                 \* publishing a phase

ASSUME JobsAssumption == Jobs \subseteq Nat
ASSUME CardsAssumption == IsFiniteSet(Cards)
ASSUME WantsAssumption == Wants \in [Jobs -> Nat]
ASSUME FillsAssumption == Fills \subseteq Jobs
ASSUME PhasesAssumption == Phases \in Seq({"setup", "preflight", "main"}) /\ Len(Phases) > 0
ASSUME PrioritiesAssumption == Priorities \subseteq Nat /\ Priorities # {}
ASSUME NoneAssumption == None \notin Runners
ASSUME BoundsAssumption ==
  /\ MaxRestarts \in Nat /\ MaxAttempt \in Nat /\ MaxBoot \in Nat /\ MaxDeaths \in Nat
  /\ PromptClaim \in BOOLEAN /\ PromptPublish \in BOOLEAN

VARIABLES
  st,       \* st[j]: the job's state.json
  rp,       \* rp[r]: the runner process r
  proc,     \* proc[r]: is any process of the phase r spawned still alive
  running,  \* the dispatcher's `running`: the entry it keeps for a job
  disp,     \* where the dispatcher is in its pass
  todo,     \* jobs adopt_orphans has yet to look at
  mark,     \* the job the dispatcher is ending for a dead runner
  rung,     \* how far escalate_stops has climbed for each job
  reqs,     \* this pass's listing of the queue
  plan,     \* this pass's decisions not yet acted on
  boot,     \* which boot of the host this is
  deaths    \* how many dispatchers have been killed

vars == <<st, rp, proc, running, disp, todo, mark, rung, reqs, plan, boot, deaths>>
dvars == <<running, disp, todo, mark, rung, reqs, plan, deaths>>

-----------------------------------------------------------------------------
\* Types.

Finished == {"succeeded", "failed", "cancelled"}
Intents == {"none", "cancel", "preempt"}
PhaseNames == {"none", "setup", "preflight", "main", "sync"}
RunnerId == Runners \cup {None}

\* The fields of a state.json that some other process acts on.
JobState ==
  [status: {"absent", "queued", "running"} \cup Finished, intent: Intents,
   attempt: Nat, priority: Priorities, gpus: SUBSET Cards, phase: PhaseNames,
   pgid: RunnerId, runner: RunnerId, boot: Nat, restarts: Nat]

\* Where a runner is: not there, started, between phases, phase spawned,
\* watching it, stopping it, out of phases, final sync, about to write, written.
RunnerPc == {"dead", "starting", "between", "spawned", "watching", "stopping",
             "done", "sync", "ending", "ended"}
Outcomes == {"none", "succeeded", "failed", "timeout", "cancelled", "preempted"}

\* How the phase's shell ended: of its own accord, well or badly, by its own
\* runner's kill ("stopped"), or by the dispatcher's ("killed").
Exits == {"none", "ok", "bad", "stopped", "killed"}

RunnerState ==
  [pc: RunnerPc, job: Jobs \cup {0}, attempt: Nat, gpus: SUBSET Cards, step: Nat,
   exit: Exits, out: Outcomes, back: BOOLEAN]

\* dispatcher._Running
Entry == [gpus: SUBSET Cards, attempt: Nat, runner: Runners]
Mark == [job: Jobs, expect: {"queued", "running"}, out: {"failed", "cancelled"},
         step: {"kill", "write"}]
QueueEntry == [job: Jobs, attempt: Nat, priority: Priorities]
Decision == [job: Jobs, attempt: Nat, gpus: SUBSET Cards, fails: BOOLEAN]
ASSUME NoEntryAssumption == None \notin Entry \cup Mark

TypeOK ==
  /\ st \in [Jobs -> JobState]
  /\ rp \in [Runners -> RunnerState]
  /\ proc \in [Runners -> BOOLEAN]
  /\ running \in [Jobs -> Entry \cup {None}]
  /\ disp \in {"down", "adopting", "reap", "escalate", "listed", "launch"}
  /\ todo \subseteq Jobs
  /\ mark \in Mark \cup {None}
  /\ rung \in [Jobs -> 0..3]
  /\ reqs \subseteq QueueEntry
  /\ plan \subseteq Decision
  /\ boot \in Nat
  /\ deaths \in Nat

-----------------------------------------------------------------------------
\* What the processes read off a state.

Alive(r) == rp[r].pc # "dead"

\* procs.from_another_boot
FromAnotherBoot(s) == s.boot # boot

\* procs.recorded_process_alive
RecordedAlive(s) == ~FromAnotherBoot(s) /\ s.runner \in Runners /\ Alive(s.runner)

\* queue.queued_ahead_of: a queued job wanting cards goes before j at p.
QueuedAhead(j, p) ==
  \E k \in Jobs \ {j} : /\ st[k].status = "queued" /\ Wants[k] > 0
                        /\ Before([job |-> k, priority |-> st[k].priority], [job |-> j, priority |-> p])

\* dispatcher._claimed_gpus, and with the dispatcher's own entries _busy_gpus.
ClaimedGpus == UNION {st[j].gpus : j \in {k \in Jobs : st[k].status = "running"}}
\* Mutant: the cards of a runner spawned and not yet on disk forgotten.
BusyOnDiskOnly == ClaimedGpus

BusyGpus == ClaimedGpus \cup UNION {running[j].gpus : j \in {k \in Jobs : running[k] # None}}

\* An identity no live process has and nothing on disk or in memory names.
Fresh(r) ==
  /\ ~Alive(r) /\ ~proc[r]
  /\ \A j \in Jobs : /\ st[j].runner # r /\ st[j].pgid # r
                     /\ (running[j] # None => running[j].runner # r)

-----------------------------------------------------------------------------
\* The states the writes leave.

\* JobState.initial and queue._write_queued_again: a fresh queued state.
QueuedState(n, p, k) ==
  [status |-> "queued", intent |-> "none", attempt |-> n, priority |-> p, gpus |-> {},
   phase |-> "none", pgid |-> None, runner |-> None, boot |-> 0, restarts |-> k]

AnyPriority == CHOOSE p \in Priorities : TRUE

\* jobs.finish's fields.  What nothing reads of a finished job (its cards, its
\* priority and its runner) is dropped, so that an identity can be used again.
FinishedState(s, out) ==
  [QueuedState(s.attempt, AnyPriority, s.restarts) EXCEPT !.status = out]

\* jobs.finish: compare-and-set on the status alone.
Finish(j, out, expect) ==
  st' = IF st[j].status = expect THEN [st EXCEPT ![j] = FinishedState(@, out)] ELSE st

-----------------------------------------------------------------------------
\* Requests: what `python -m gpuc.host` does to a state for an ssh session.

\* queue.enqueue: the rename accepts the job, queued, at attempt 1.
Enqueue(j, p) ==
  /\ st[j].status = "absent"
  /\ st' = [st EXCEPT ![j] = QueuedState(1, p, 0)]
  /\ UNCHANGED <<rp, proc, boot, dvars>>

\* Mutant: a running job is cancelled on the spot too.
CancelAtOnce(j) ==
  /\ st[j].status \in {"queued", "running"}
  /\ st' = [st EXCEPT ![j] = FinishedState(@, "cancelled")]
  /\ UNCHANGED <<rp, proc, boot, dvars>>

\* queue.cancel: a queued job is cancelled on the spot, a running one is asked.
Cancel(j) ==
  /\ \/ /\ st[j].status = "queued"
        /\ st' = [st EXCEPT ![j] = FinishedState(@, "cancelled")]
     \/ /\ st[j].status = "running"
        /\ st' = [st EXCEPT ![j].intent = "cancel"]
  /\ UNCHANGED <<rp, proc, boot, dvars>>

\* queue.preempt's refusals.
MayPreempt(j, p) ==
  /\ st[j].status = "running"
  /\ st[j].intent # "cancel"
  /\ Wants[j] > 0
  /\ QueuedAhead(j, p)

\* queue.preempt, from the command line or from preempt_for_waiting.
Preempt(j, p) ==
  /\ MayPreempt(j, p)
  /\ st[j].attempt < MaxAttempt
  /\ st' = [st EXCEPT ![j].intent = "preempt", ![j].priority = p]
  /\ UNCHANGED <<rp, proc, boot, dvars>>

\* settable.apply of a priority: queued jobs only.
SetPriority(j, p) ==
  /\ st[j].status = "queued" /\ st[j].priority # p
  /\ st' = [st EXCEPT ![j].priority = p]
  /\ UNCHANGED <<rp, proc, boot, dvars>>

-----------------------------------------------------------------------------
\* The runner (runner.JobRunner).

\* A process that is gone; g are the cards its orphaned phase still computes on.
DeadRunner(g) ==
  [pc |-> "dead", job |-> 0, attempt |-> 0, gpus |-> g, step |-> 0, exit |-> "none",
   out |-> "none", back |-> FALSE]

\* The runner as a SIGKILL of its phase's group leaves it.
AfterKill(r) ==
  IF Alive(r) THEN [rp[r] EXCEPT !.exit = IF proc[r] /\ @ = "none" THEN "killed" ELSE @]
              ELSE DeadRunner({})

Die(r) == DeadRunner(IF proc[r] THEN rp[r].gpus ELSE {})

\* _claim: compare-and-set on (queued, attempt), naming this process; a claim
\* that fails is a runner that exits.
MayClaim(r) ==
  /\ st[rp[r].job].status = "queued"
  /\ st[rp[r].job].attempt = rp[r].attempt

Claim(r) ==
  /\ rp[r].pc = "starting"
  /\ \/ /\ MayClaim(r)
        /\ st' = [st EXCEPT ![rp[r].job] =
                    [@ EXCEPT !.status = "running", !.gpus = rp[r].gpus, !.phase = "setup",
                              !.runner = r, !.boot = boot]]
        /\ rp' = [rp EXCEPT ![r].pc = "between", ![r].step = 1]
     \/ /\ ~MayClaim(r)
        /\ rp' = [rp EXCEPT ![r] = Die(r)]
        /\ UNCHANGED st
  /\ UNCHANGED <<proc, boot, dvars>>

\* Mutant: a stop intent with no reason of its own.
AsAskedCancelOnly(intent) == IF intent = "cancel" THEN "cancelled" ELSE "none"

\* STOP_REASONS: the outcome a stop intent asks for.
AsAsked(intent) == IF intent = "cancel" THEN "cancelled" ELSE "preempted"

\* _run_phases gives up before a phase: checkout lost, card not there, uploads
\* that do not work.
RefusePhase(r) ==
  /\ rp[r].pc = "between"
  /\ rp' = [rp EXCEPT ![r].pc = "done", ![r].out = "failed"]
  /\ UNCHANGED <<st, proc, boot, dvars>>

\* _stopped_before: a job asked to stop between phases never starts the next.
StoppedBefore(r) ==
  /\ rp[r].pc = "between"
  /\ st[rp[r].job].intent # "none"
  /\ rp' = [rp EXCEPT ![r].pc = "done", ![r].out = AsAsked(st[rp[r].job].intent)]
  /\ UNCHANGED <<st, proc, boot, dvars>>

\* _run_phase, _spawn: the phase runs; nothing on disk says so yet.
SpawnPhase(r) ==
  /\ rp[r].pc = "between"
  /\ st[rp[r].job].intent = "none"
  /\ rp' = [rp EXCEPT ![r].pc = "spawned"]
  /\ proc' = [proc EXCEPT ![r] = TRUE]
  /\ UNCHANGED <<st, boot, dvars>>

\* _monitor's first act: publish the phase and its process group.
Publish(r) ==
  /\ rp[r].pc = "spawned"
  /\ st' = [st EXCEPT ![rp[r].job].phase = Phases[rp[r].step], ![rp[r].job].pgid = r]
  /\ rp' = [rp EXCEPT ![r].pc = "watching"]
  /\ UNCHANGED <<proc, boot, dvars>>

\* The phase's shell exits of its own accord, perhaps leaving processes behind.
PhaseExits(r, code, leftovers) ==
  /\ rp[r].pc \in {"spawned", "watching", "stopping"}
  /\ proc[r] /\ rp[r].exit = "none"
  /\ rp' = [rp EXCEPT ![r].exit = code]
  /\ proc' = [proc EXCEPT ![r] = leftovers]
  /\ UNCHANGED <<st, boot, dvars>>

\* The poll that finds the shell gone: _stop_leftovers, then the group is
\* unpublished, then the next phase or _classify.
PhaseOver(r) ==
  /\ rp[r].pc = "watching"
  /\ rp[r].exit # "none"
  /\ proc' = [proc EXCEPT ![r] = FALSE]
  /\ st' = [st EXCEPT ![rp[r].job].pgid = None]
  /\ rp' = [rp EXCEPT ![r] =
       IF rp[r].exit = "ok" /\ rp[r].step < Len(Phases)
       THEN [rp[r] EXCEPT !.pc = "between", !.step = rp[r].step + 1, !.exit = "none"]
       ELSE [rp[r] EXCEPT !.pc = "done", !.out = IF rp[r].exit = "ok" THEN "succeeded" ELSE "failed"]]
  /\ UNCHANGED <<boot, dvars>>

\* The poll that finds a stop asked for, or the wall-clock limit reached:
\* kill_reason is set and the kill begins.
SeeStop(r) ==
  /\ rp[r].pc = "watching"
  /\ \/ /\ st[rp[r].job].intent # "none"
        /\ rp' = [rp EXCEPT ![r].pc = "stopping", ![r].out = AsAsked(st[rp[r].job].intent)]
     \/ /\ st[rp[r].job].intent = "none"
        /\ rp' = [rp EXCEPT ![r].pc = "stopping", ![r].out = "timeout"]
  /\ UNCHANGED <<st, proc, boot, dvars>>

\* The kill is done: nothing of the phase is left, and it is unpublished.
Stopped(r) ==
  /\ rp[r].pc = "stopping"
  /\ proc' = [proc EXCEPT ![r] = FALSE]
  /\ st' = [st EXCEPT ![rp[r].job].pgid = None]
  /\ rp' = [rp EXCEPT ![r].pc = "done", ![r].exit = IF @ = "none" THEN "stopped" ELSE @]
  /\ UNCHANGED <<boot, dvars>>

\* SIGTERM before _ending is set: _finalize_terminated kills the phase and
\* ends the attempt as whatever was asked of it.  What was published stays.  A
\* signal that lands before Popen has returned finds no phase to kill.
Terminated(r) ==
  /\ rp[r].pc \in {"between", "spawned", "watching", "stopping", "done"}
  /\ \/ proc' = [proc EXCEPT ![r] = FALSE]
     \/ rp[r].pc = "spawned" /\ ~PromptPublish /\ UNCHANGED proc
  /\ LET intent == st[rp[r].job].intent IN
     rp' = [rp EXCEPT ![r].pc = "sync", ![r].exit = IF @ = "none" THEN "stopped" ELSE @,
                      ![r].out = IF intent = "none" THEN "failed" ELSE AsAsked(intent)]
  /\ st' = [st EXCEPT ![rp[r].job].phase = "sync"]
  /\ UNCHANGED <<boot, dvars>>

\* _finalize begins: from here a SIGTERM is ignored.
BeginSync(r) ==
  /\ rp[r].pc = "done"
  /\ st' = [st EXCEPT ![rp[r].job].phase = "sync"]
  /\ rp' = [rp EXCEPT ![r].pc = "sync"]
  /\ UNCHANGED <<proc, boot, dvars>>

\* The final upload is over (_blame turns a success whose outputs were lost
\* into a failure), and _coming_back is read.
Synced(r, lost) ==
  /\ rp[r].pc = "sync"
  /\ rp' = [rp EXCEPT ![r].pc = "ending",
                      ![r].out = IF lost /\ @ = "succeeded" THEN "failed" ELSE @,
                      ![r].back = rp[r].out = "preempted" /\ st[rp[r].job].intent = "preempt"]
  /\ UNCHANGED <<st, proc, boot, dvars>>

\* queue.next_attempt's condition, under the job's lock.
ComesBack(r) ==
  LET s == st[rp[r].job] IN rp[r].back /\ s.status = "running" /\ s.intent = "preempt"

\* What the attempt ends as when it does not come back: a cancel that landed on
\* a preempted attempt wins.
FinalStatus(out, intent) ==
  CASE out = "preempted" -> IF intent = "cancel" THEN "cancelled" ELSE "failed"
    [] out = "timeout" -> "failed"
    [] OTHER -> out

\* _end: queued again at the next attempt, or finished.
End(r) ==
  /\ rp[r].pc = "ending"
  /\ LET j == rp[r].job
         s == st[j]
     IN IF ComesBack(r)
        THEN st' = [st EXCEPT ![j] = QueuedState(s.attempt + 1, s.priority, s.restarts)]
        ELSE Finish(j, FinalStatus(rp[r].out, s.intent), "running")
  /\ rp' = [rp EXCEPT ![r].pc = "ended"]
  /\ UNCHANGED <<proc, boot, dvars>>

\* The mirror is put and the secrets settled: the process exits.
Exit(r) ==
  /\ rp[r].pc = "ended"
  /\ rp' = [rp EXCEPT ![r] = Die(r)]
  /\ UNCHANGED <<st, proc, boot, dvars>>

\* SIGKILL, the OOM killer, a SIGTERM before the handlers: the runner dies
\* where it stands, and what its phase started lives on.
RunnerKilled(r) ==
  /\ Alive(r)
  /\ PromptPublish => rp[r].pc # "spawned"
  /\ rp' = [rp EXCEPT ![r] = Die(r)]
  /\ UNCHANGED <<st, proc, boot, dvars>>

\* What a dead runner left running ends of its own accord.
OrphanExits(r) ==
  /\ ~Alive(r) /\ proc[r]
  /\ proc' = [proc EXCEPT ![r] = FALSE]
  /\ rp' = [rp EXCEPT ![r] = DeadRunner({})]
  /\ UNCHANGED <<st, boot, dvars>>

-----------------------------------------------------------------------------
\* The dispatcher (dispatcher.Dispatcher).

\* Mutant: a dispatcher that adopts nothing.
StartsWithoutAdopting ==
  /\ disp = "down"
  /\ PromptClaim => \A r \in Runners : rp[r].pc # "starting"
  /\ disp' = "adopting" /\ todo' = {}
  /\ UNCHANGED <<st, rp, proc, running, mark, rung, reqs, plan, boot, deaths>>

\* It has the lock, and looks at every job for runners to adopt.
DispatcherStarts ==
  /\ disp = "down"
  /\ PromptClaim => \A r \in Runners : rp[r].pc # "starting"
  /\ disp' = "adopting" /\ todo' = Jobs
  /\ UNCHANGED <<st, rp, proc, running, mark, rung, reqs, plan, boot, deaths>>

\* _Running.adopted
Adopted(s) == [gpus |-> s.gpus, attempt |-> s.attempt, runner |-> s.runner]

\* Mutant: the compare-and-set always expects a job that never started.
RunnerDiedQueued(j, expect) == [job |-> j, expect |-> "queued", out |-> "failed", step |-> "kill"]

\* The job whose runner is gone is to be failed, leftovers first.
RunnerDied(j, expect) == [job |-> j, expect |-> expect, out |-> "failed", step |-> "kill"]

\* Mutants: one restart too many; a cancelled job brought back.
OneRestartTooMany(s) ==
  s.intent = "preempt" \/ (s.intent # "cancel" /\ s.restarts <= MaxRestarts)
ComesBackCancelled(s) == s.intent = "preempt" \/ s.restarts < MaxRestarts

\* queue.requeue_after_restart's condition: a preempt was to bring it back
\* anyway; otherwise it has MAX_RESTARTS to use up, unless it was cancelled.
ComesBackAfterRestart(s) ==
  s.intent = "preempt" \/ (s.intent # "cancel" /\ s.restarts < MaxRestarts)

\* queue.requeue_after_restart: queued again at once, or ended by a second
\* write decided from this reading.
RequeueAfterRestart(j) ==
  LET s == st[j] IN
  IF ComesBackAfterRestart(s)
  THEN /\ st' = [st EXCEPT ![j] = QueuedState(s.attempt + 1, s.priority,
                                     IF s.intent = "preempt" THEN s.restarts ELSE s.restarts + 1)]
       /\ UNCHANGED mark
  ELSE /\ mark' = [job |-> j, expect |-> "running", step |-> "write",
                   out |-> IF s.intent = "cancel" THEN "cancelled" ELSE "failed"]
       /\ UNCHANGED st

\* adopt_orphans, one job.
AdoptOrphan(j) ==
  /\ disp = "adopting" /\ mark = None /\ j \in todo
  /\ todo' = todo \ {j}
  /\ LET s == st[j] IN
     \/ /\ s.status # "running"
        /\ UNCHANGED <<st, running, mark>>
     \/ /\ s.status = "running" /\ FromAnotherBoot(s)
        /\ RequeueAfterRestart(j)
        /\ UNCHANGED running
     \/ /\ s.status = "running" /\ RecordedAlive(s)
        /\ running' = [running EXCEPT ![j] = Adopted(s)]
        /\ UNCHANGED <<st, mark>>
     \/ /\ s.status = "running" /\ ~FromAnotherBoot(s) /\ ~RecordedAlive(s)
        /\ mark' = RunnerDied(j, "running")
        /\ UNCHANGED <<st, running>>
  /\ UNCHANGED <<rp, proc, disp, rung, reqs, plan, boot, deaths>>

AdoptionOver ==
  /\ disp = "adopting" /\ mark = None /\ todo = {}
  /\ disp' = "reap"
  /\ UNCHANGED <<st, rp, proc, running, todo, mark, rung, reqs, plan, boot, deaths>>

\* Mutant: the job is ended and its processes are left alone.
KillNothing ==
  /\ mark # None /\ mark.step = "kill"
  /\ mark' = [mark EXCEPT !.step = "write"]
  /\ UNCHANGED <<st, rp, proc, running, disp, todo, rung, reqs, plan, boot, deaths>>

\* _mark_runner_died reads the state again and kills what it publishes.
KillLeftovers ==
  /\ mark # None /\ mark.step = "kill"
  /\ LET s == st[mark.job] IN
     IF s.pgid = None \/ FromAnotherBoot(s)
     THEN UNCHANGED <<rp, proc>>
     ELSE /\ rp' = [rp EXCEPT ![s.pgid] = AfterKill(s.pgid)]
          /\ proc' = [proc EXCEPT ![s.pgid] = FALSE]
  /\ mark' = [mark EXCEPT !.step = "write"]
  /\ UNCHANGED <<st, running, disp, todo, rung, reqs, plan, boot, deaths>>

\* The compare-and-set that ends the job without its runner.
WriteMark ==
  /\ mark # None /\ mark.step = "write"
  /\ Finish(mark.job, mark.out, mark.expect)
  /\ mark' = None
  /\ UNCHANGED <<rp, proc, running, disp, todo, rung, reqs, plan, boot, deaths>>

\* reap and _settle: what became of a job whose runner is gone.
Reap(j) ==
  /\ disp = "reap" /\ mark = None
  /\ running[j] # None /\ ~Alive(running[j].runner)
  /\ LET s == st[j]
         lostClaim == s.status = "running" /\ s.runner # running[j].runner /\ RecordedAlive(s)
     IN /\ running' = [running EXCEPT ![j] = IF lostClaim THEN Adopted(s) ELSE None]
        /\ mark' = IF s.status = "queued" /\ s.attempt <= running[j].attempt
                   THEN RunnerDied(j, "queued")
                   ELSE IF s.status = "running" /\ ~lostClaim
                   THEN RunnerDied(j, "running")
                   ELSE None
  /\ rung' = [rung EXCEPT ![j] = 0]
  /\ UNCHANGED <<st, rp, proc, disp, todo, reqs, plan, boot, deaths>>

ReapOver ==
  /\ disp = "reap" /\ mark = None
  /\ \A j \in Jobs : running[j] # None => Alive(running[j].runner)
  /\ disp' = "escalate"
  /\ UNCHANGED <<st, rp, proc, running, todo, mark, rung, reqs, plan, boot, deaths>>

\* Mutant: nothing is escalated while the phase is sync.
EscalateNoSync(j) == running[j] # None /\ st[j].intent # "none" /\ st[j].phase # "sync"

\* escalate_stops and JobProcesses.escalate: one rung per grace period (per
\* long patience first, in phase sync): the published group, then a SIGTERM to
\* the runner (see Terminated), then a SIGKILL.
MayEscalate(j) == running[j] # None /\ st[j].intent # "none"

Escalate(j) ==
  /\ disp = "escalate"
  /\ MayEscalate(j)
  /\ rung' = [rung EXCEPT ![j] = IF @ < 3 THEN @ + 1 ELSE 3]
  /\ LET s == st[j]
     IN /\ PromptPublish /\ rung'[j] = 3 => rp[s.runner].pc # "spawned"
        /\ proc' = [r \in Runners |-> proc[r] /\ r # s.pgid]
        /\ rp' = [r \in Runners |-> IF rung'[j] = 3 /\ r = s.runner
                                    THEN DeadRunner(IF proc'[r] THEN rp[r].gpus ELSE {})
                                    ELSE IF r = s.pgid THEN AfterKill(r) ELSE rp[r]]
  /\ UNCHANGED <<st, running, disp, todo, mark, reqs, plan, boot, deaths>>

\* launch_ready lists the queue ...
ListQueue ==
  /\ disp = "escalate"
  /\ reqs' = {[job |-> j, attempt |-> st[j].attempt, priority |-> st[j].priority] :
                j \in {k \in Jobs : st[k].status = "queued" /\ running[k] = None}}
  /\ disp' = "listed"
  /\ UNCHANGED <<st, rp, proc, running, todo, mark, rung, plan, boot, deaths>>

\* ... and then reads the cards and plans: any decisions that keep plan.plan's
\* promise (see PlanContract), and a failure for every job the host cannot hold.
PlansOf(rs, free) ==
  LET TooWide(q) == Wants[q.job] > Cardinality(Cards)
      Assignments == {ds \in SUBSET [job: {q.job : q \in rs}, gpus: SUBSET free] :
                        Keeps(rs, ds, free, Cardinality(Cards), Wants, Fills)}
      Decided(q, g, bad) == [job |-> q.job, attempt |-> q.attempt, gpus |-> g, fails |-> bad]
  IN {{Decided(q, {}, TRUE) : q \in {k \in rs : TooWide(k)}}
        \cup {Decided(CHOOSE q \in rs : q.job = d.job, d.gpus, FALSE) : d \in ds} :
          ds \in Assignments}

Plan ==
  /\ disp = "listed"
  /\ plan' \in PlansOf(reqs, Cards \ BusyGpus)
  /\ reqs' = {}
  /\ disp' = "launch"
  /\ UNCHANGED <<st, rp, proc, running, todo, mark, rung, boot, deaths>>

\* _launch re-reads the claims on disk, then spawns; the state is not touched.
Launch(j) ==
  /\ disp = "launch"
  /\ \E d \in plan :
       /\ d.job = j /\ ~d.fails
       /\ plan' = plan \ {d}
       /\ \/ /\ d.gpus \cap ClaimedGpus # {}
             /\ UNCHANGED <<rp, running>>
          \/ /\ d.gpus \cap ClaimedGpus = {}
             /\ \E r \in Runners :
                  /\ Fresh(r)
                  /\ rp' = [rp EXCEPT ![r] = [DeadRunner(d.gpus) EXCEPT
                                          !.pc = "starting", !.job = j, !.attempt = d.attempt]]
                  /\ running' = [running EXCEPT ![j] =
                                   [gpus |-> d.gpus, attempt |-> d.attempt, runner |-> r]]
  /\ UNCHANGED <<st, proc, disp, todo, mark, rung, reqs, boot, deaths>>

\* _fail_queued: wider than the host, or a runner that could not be spawned.
FailQueued(j) ==
  /\ disp = "launch"
  /\ \E d \in plan : d.job = j /\ plan' = plan \ {d}
  /\ Finish(j, "failed", "queued")
  /\ UNCHANGED <<rp, proc, running, disp, todo, mark, rung, reqs, boot, deaths>>

Idle == \A j \in Jobs : running[j] = None /\ st[j].status # "queued"

\* The pass is over: the next one, or the loop ends with nothing to do.
PassOver ==
  /\ disp = "launch" /\ plan = {}
  /\ disp' = IF Idle THEN "down" ELSE "reap"
  /\ UNCHANGED <<st, rp, proc, running, todo, mark, rung, reqs, plan, boot, deaths>>

ForgetDispatcher ==
  /\ disp' = "down" /\ running' = [j \in Jobs |-> None] /\ todo' = {} /\ mark' = None
  /\ rung' = [j \in Jobs |-> 0] /\ reqs' = {} /\ plan' = {}

\* A dispatcher dies where the handover's SIGTERM finds it.
DispatcherKilled ==
  /\ disp # "down" /\ deaths < MaxDeaths
  /\ deaths' = deaths + 1
  /\ ForgetDispatcher
  /\ UNCHANGED <<st, rp, proc, boot>>

\* The host restarts: every process is gone, the disk is not.
Reboot ==
  /\ boot < MaxBoot
  /\ boot' = boot + 1
  /\ rp' = [r \in Runners |-> DeadRunner({})]
  /\ proc' = [r \in Runners |-> FALSE]
  /\ ForgetDispatcher
  /\ UNCHANGED <<st, deaths>>

-----------------------------------------------------------------------------
Init ==
  /\ st = [j \in Jobs |-> [QueuedState(0, AnyPriority, 0) EXCEPT !.status = "absent"]]
  /\ rp = [r \in Runners |-> DeadRunner({})]
  /\ proc = [r \in Runners |-> FALSE]
  /\ running = [j \in Jobs |-> None]
  /\ disp = "down" /\ todo = {} /\ mark = None
  /\ rung = [j \in Jobs |-> 0]
  /\ reqs = {} /\ plan = {}
  /\ boot = 1 /\ deaths = 0

Request ==
  \E j \in Jobs : \/ Cancel(j)
                  \/ \E p \in Priorities : Enqueue(j, p) \/ Preempt(j, p) \/ SetPriority(j, p)

Runner(r) ==
  \/ Claim(r) \/ RefusePhase(r) \/ StoppedBefore(r) \/ SpawnPhase(r) \/ Publish(r)
  \/ PhaseOver(r) \/ SeeStop(r) \/ Stopped(r) \/ Terminated(r) \/ BeginSync(r)
  \/ \E lost \in BOOLEAN : Synced(r, lost)
  \/ End(r) \/ Exit(r)

Environment(r) ==
  \/ \E code \in {"ok", "bad"}, leftovers \in BOOLEAN : PhaseExits(r, code, leftovers)
  \/ RunnerKilled(r) \/ OrphanExits(r)

Dispatcher ==
  \/ DispatcherStarts \/ AdoptionOver \/ KillLeftovers \/ WriteMark
  \/ ReapOver \/ ListQueue \/ Plan \/ PassOver
  \/ \E j \in Jobs : AdoptOrphan(j) \/ Reap(j) \/ Escalate(j) \/ Launch(j) \/ FailQueued(j)

Next ==
  \/ Request
  \/ \E r \in Runners : Runner(r) \/ Environment(r)
  \/ Dispatcher
  \/ DispatcherKilled
  \/ Reboot

Spec == Init /\ [][Next]_vars

\* A dispatcher in its loop goes on with its pass; one is started by every
\* enqueue and bootstrap; a runner's first act is its claim; a stop request not
\* honoured is escalated once its grace period has passed.  Nothing is assumed
\* of a runner once it has claimed: it may hang anywhere.
Fairness ==
  /\ WF_vars(Dispatcher)
  /\ \A r \in Runners : WF_vars(Claim(r))
  /\ \A j \in Jobs : SF_vars(Escalate(j))

FairSpec == Spec /\ Fairness

-----------------------------------------------------------------------------
\* What must hold.

\* A runner that has claimed its job and not yet made its last write.
InCharge(r) == rp[r].pc \in RunnerPc \ {"dead", "starting", "ended"}

\* `queue.claim` and `jobs.finish`: while a runner is in charge of an attempt,
\* the job's state says `running`, at that attempt, with the runner's cards,
\* and names that runner; so no two processes ever act for one job, however
\* the dispatchers before and after a handover overlap.
OneRunnerPerJob ==
  \A r \in Runners : InCharge(r) =>
    LET s == st[rp[r].job] IN
    s.status = "running" /\ s.runner = r /\ s.attempt = rp[r].attempt /\ s.gpus = rp[r].gpus

\* dispatcher._busy_gpus: a card two runners hold is what the accounting exists
\* to prevent.  No card is computed on by the processes of two runners at once,
\* a runner that died and left its phase running included.
CardsExclusive ==
  \A r, q \in Runners : r # q /\ proc[r] /\ proc[q] => rp[r].gpus \cap rp[q].gpus = {}

\* dispatcher._mark_runner_died and runner._stop_leftovers: a card is free to
\* hand out only once nothing of the job that had it is still running.
FreeCardsIdle == \A r \in Runners : proc[r] => rp[r].gpus \subseteq BusyGpus

\* dispatcher.main: the successor of a dispatcher adopts what is running, so
\* that every running job is reaped, escalated and counted by somebody.
Supervised ==
  disp \in {"reap", "escalate", "listed", "launch"} =>
    \A j \in Jobs : st[j].status = "running" =>
      running[j] # None \/ (mark # None /\ mark.job = j)

\* runner._coming_back: only an attempt the preempt itself stopped is queued
\* again, never one whose last phase had already succeeded.
OnlyStoppedComesBack == \A r \in Runners : rp[r].back => rp[r].exit # "ok"

\* queue.requeue_after_restart: a job that takes its host down with it is not
\* queued again for ever.
RestartsBounded == \A j \in Jobs : st[j].restarts <= MaxRestarts

\* The life of each job as whoever submitted it sees it.
Lifecycle == INSTANCE JobLifecycle WITH
  status <- [j \in Jobs |-> IF st[j].status \in Finished THEN "over" ELSE st[j].status],
  attempt <- [j \in Jobs |-> st[j].attempt],
  doomed <- [j \in Jobs |-> st[j].intent = "cancel"]

\* queue.py and jobs.finish implement the lifecycle: no attempt begins twice,
\* a cancelled job never comes back, a finished one stays finished.
ImplementsLifecycle == Lifecycle!Spec

\* dispatcher.escalate_stops: a cancel asked of a running job ends it, even if
\* its runner hangs wherever it is, the final sync included.
CancelEnds ==
  \A j \in Jobs : (st[j].status = "running" /\ st[j].intent = "cancel") ~> st[j].status \in Finished

\* dispatcher.adopt_orphans and reap: a job whose runner is gone does not stay
\* `running`, whichever dispatcher is there to notice.
DeadRunnerNoticed ==
  \A j \in Jobs : (st[j].status = "running" /\ ~RecordedAlive(st[j])) ~> st[j].status # "running"
=============================================================================

--------------------------------- MODULE Drain ---------------------------------
(***************************************************************************)
(* The end of a rental: the dispatcher's idle clock, the `draining` marker, *)
(* the last tries at uploads, and the terminate call (maybe_terminate and   *)
(* drain_and_terminate), while jobs are still accepted, runners claim and   *)
(* end, the call fails, and the dispatcher is replaced half way.            *)
(*                                                                         *)
(* The queue is HostQueue's with everything left out that a drain does not  *)
(* look at: one card, and of a state only what list_queued and              *)
(* unconfirmed_output_jobs read.                                           *)
(***************************************************************************)
EXTENDS Integers

CONSTANTS
  Jobs,
  MaxDeaths,    \* bound: a dispatcher is killed at most this often
  PromptClaim,  \* TRUE: a runner claims before a successor dispatcher starts
  WholeDrains,  \* TRUE: no dispatcher is killed between the marker and the call
  WholeRetries  \* TRUE: the last tries raise nothing, and what they leave can be marked

ASSUME BoundsAssumption ==
  MaxDeaths \in Nat /\ {PromptClaim, WholeDrains, WholeRetries} \subseteq BOOLEAN

VARIABLES
  status,    \* "absent", "queued", "running" or "over", of state.json
  outputs,   \* "none" yet, or "pending", "uploaded" or "lost"
  spawned,   \* the jobs a runner was spawned for that has yet to claim
  running,   \* the jobs the dispatcher has an entry for
  draining,  \* does the marker exist
  goingAway, \* the pass's one reading of it
  disp,      \* where the dispatcher is
  host,      \* "up", "stopping" once the provider has been asked, "gone"
  deaths     \* how many dispatchers have been killed

vars == <<status, outputs, spawned, running, draining, goingAway, disp, host, deaths>>
jobvars == <<status, outputs, spawned>>

TypeOK ==
  /\ status \in [Jobs -> {"absent", "queued", "running", "over"}]
  /\ outputs \in [Jobs -> {"none", "pending", "uploaded", "lost"}]
  /\ spawned \subseteq Jobs /\ running \subseteq Jobs
  /\ draining \in BOOLEAN /\ goingAway \in BOOLEAN
  /\ disp \in {"down", "pass", "launch", "idle", "retry", "mark", "mirror", "terminate"}
  /\ host \in {"up", "stopping", "gone"} /\ deaths \in 0..MaxDeaths
  /\ disp \in {"retry", "mark", "mirror", "terminate"} => draining /\ running = {}

Queued == {j \in Jobs : status[j] = "queued"}

-----------------------------------------------------------------------------
\* queue.enqueue asks nothing of the marker.
Enqueue(j) ==
  /\ host # "gone" /\ status[j] = "absent"
  /\ status' = [status EXCEPT ![j] = "queued"]
  /\ UNCHANGED <<outputs, spawned, running, draining, goingAway, disp, host, deaths>>

\* queue.cancel of a queued job.
Cancel(j) ==
  /\ host # "gone" /\ status[j] = "queued"
  /\ status' = [status EXCEPT ![j] = "over"]
  /\ UNCHANGED <<outputs, spawned, running, draining, goingAway, disp, host, deaths>>

\* The runner claims the job, or finds it is not queued any more and exits.
Claim(j) ==
  /\ host # "gone" /\ j \in spawned
  /\ spawned' = spawned \ {j}
  /\ status' = IF status[j] = "queued" THEN [status EXCEPT ![j] = "running"] ELSE status
  /\ UNCHANGED <<outputs, running, draining, goingAway, disp, host, deaths>>

\* The attempt ends, its outputs uploaded or not.
RunnerEnds(j, confirmed) ==
  /\ host # "gone" /\ status[j] = "running"
  /\ status' = [status EXCEPT ![j] = "over"]
  /\ outputs' = [outputs EXCEPT ![j] = IF confirmed THEN "uploaded" ELSE "pending"]
  /\ UNCHANGED <<spawned, running, draining, goingAway, disp, host, deaths>>

\* A preempt, which a draining host refuses, queues the job again; what the
\* stopped attempt produced waits.  Bound: once for each job.
RunnerPreempted(j) ==
  /\ host # "gone" /\ status[j] = "running" /\ outputs[j] = "none"
  /\ ~draining /\ Queued # {}
  /\ status' = [status EXCEPT ![j] = "queued"]
  /\ outputs' = [outputs EXCEPT ![j] = "pending"]
  /\ UNCHANGED <<spawned, running, draining, goingAway, disp, host, deaths>>

-----------------------------------------------------------------------------
\* adopt_orphans; nothing of what an earlier dispatcher left is undone.
DispatcherStarts ==
  /\ host # "gone" /\ disp = "down"
  /\ PromptClaim => spawned = {}
  /\ running' = {j \in Jobs : status[j] = "running"}
  /\ disp' = "pass"
  /\ UNCHANGED <<jobvars, draining, goingAway, host, deaths>>

\* Mutant: entries outlive their runners.
BeginPassUnreaped ==
  /\ disp = "pass"
  /\ goingAway' = draining
  /\ disp' = "launch"
  /\ UNCHANGED <<jobvars, running, draining, host, deaths>>

\* run_once: the marker is read, and the runners that are gone are reaped.
BeginPass ==
  /\ disp = "pass"
  /\ goingAway' = draining
  /\ running' = {j \in running : j \in spawned \/ status[j] = "running"}
  /\ disp' = "launch"
  /\ UNCHANGED <<jobvars, draining, host, deaths>>

\* launch_ready, on a host with one card.
MayLaunch == ~goingAway /\ running = {}

LaunchReady ==
  /\ disp = "launch"
  /\ IF MayLaunch /\ Queued # {}
     THEN \E j \in Queued : spawned' = spawned \cup {j} /\ running' = {j}
     ELSE UNCHANGED <<spawned, running>>
  /\ disp' = "idle"
  /\ UNCHANGED <<status, outputs, draining, goingAway, host, deaths>>

\* Mutant: the queue alone says whether the host is idle.
QueueIsEmpty == Queued = {}

\* maybe_terminate's two early returns.
IsIdle == running = {} /\ Queued = {}

\* The host is busy, or has not been idle for idle_minutes, or is to wait
\* before it asks to be terminated again.
StayUp ==
  /\ disp = "idle"
  /\ disp' = "pass"
  /\ UNCHANGED <<jobvars, running, draining, goingAway, host, deaths>>

\* drain_and_terminate, step by step: the marker ...  A host the provider was
\* asked to stop is gone long before a new idle clock could run out on it.
StartDrain ==
  /\ disp = "idle" /\ IsIdle /\ host = "up"
  /\ draining' = TRUE
  /\ disp' = "retry"
  /\ UNCHANGED <<jobvars, running, goingAway, host, deaths>>

Pending == {j \in Jobs : status[j] # "running" /\ outputs[j] = "pending"}

\* ... retry_unconfirmed_outputs, job by job: three tries at what is pending ...
RetryOutput(j) ==
  /\ disp = "retry" /\ j \in Pending
  /\ outputs' = [outputs EXCEPT ![j] = "uploaded"]
  /\ UNCHANGED <<status, spawned, running, draining, goingAway, disp, host, deaths>>

TriesEnd ==
  /\ disp = "retry"
  /\ disp' = "mark"
  /\ UNCHANGED <<jobvars, running, draining, goingAway, host, deaths>>

\* ... and outputs_lost for what they could not upload.
MarkLost(j) ==
  /\ disp = "mark" /\ j \in Pending
  /\ outputs' = [outputs EXCEPT ![j] = "lost"]
  /\ UNCHANGED <<status, spawned, running, draining, goingAway, disp, host, deaths>>

\* Mutant: what could not be uploaded is not recorded.
RetryOverUnmarked ==
  /\ disp = "retry"
  /\ disp' = "mirror"
  /\ UNCHANGED <<jobvars, running, draining, goingAway, host, deaths>>

\* The drain goes on from it, from half way too (_guard) if it raised, and with what
\* is pending still if a mark could not be written.
RetryOver ==
  /\ disp \in {"retry", "mark"}
  /\ WholeRetries => disp = "mark" /\ Pending = {}
  /\ disp' = "mirror"
  /\ UNCHANGED <<jobvars, running, draining, goingAway, host, deaths>>

\* ... _final_sync_all, whose failure stops nothing ...
MirrorStates ==
  /\ disp = "mirror"
  /\ disp' = "terminate"
  /\ UNCHANGED <<jobvars, running, draining, goingAway, host, deaths>>

\* ... and the call: asked for, the dispatcher leaves ...
Terminate ==
  /\ disp = "terminate"
  /\ host' = "stopping"
  /\ disp' = "down" /\ running' = {}
  /\ UNCHANGED <<jobvars, draining, goingAway, deaths>>


\* ... refused, it goes on dispatching.
TerminateFails ==
  /\ disp = "terminate"
  /\ draining' = FALSE
  /\ disp' = "pass"
  /\ UNCHANGED <<jobvars, running, goingAway, host, deaths>>

\* A handover's SIGTERM, or any other death, wherever it finds the dispatcher.
DispatcherKilled ==
  /\ disp # "down" /\ deaths < MaxDeaths
  /\ WholeDrains => disp \notin {"retry", "mark", "mirror", "terminate"}
  /\ deaths' = deaths + 1
  /\ disp' = "down" /\ running' = {}
  /\ UNCHANGED <<jobvars, draining, goingAway, host>>

\* The provider does as it was asked.
HostStops ==
  /\ host = "stopping"
  /\ host' = "gone" /\ disp' = "down" /\ running' = {} /\ spawned' = {}
  /\ UNCHANGED <<status, outputs, draining, goingAway, deaths>>

-----------------------------------------------------------------------------
Init ==
  /\ status = [j \in Jobs |-> "absent"] /\ outputs = [j \in Jobs |-> "none"]
  /\ spawned = {} /\ running = {}
  /\ draining = FALSE /\ goingAway = FALSE
  /\ disp = "down" /\ host = "up" /\ deaths = 0

Retries == (\E j \in Jobs : RetryOutput(j) \/ MarkLost(j)) \/ TriesEnd \/ RetryOver
Drains == Retries \/ MirrorStates \/ Terminate \/ TerminateFails
Passes == DispatcherStarts \/ BeginPass \/ LaunchReady \/ StayUp \/ StartDrain \/ Drains

Job(j) ==
  \/ Enqueue(j) \/ Cancel(j) \/ Claim(j) \/ RunnerPreempted(j)
  \/ \E confirmed \in BOOLEAN : RunnerEnds(j, confirmed)

Next == (\E j \in Jobs : Job(j)) \/ Passes \/ DispatcherKilled \/ HostStops

Spec == Init /\ [][Next]_vars

\* A rental keeps its dispatcher, and it its passes; runners claim, and end
\* some day; the idle clock runs out on a host that is idle pass after pass; a
\* terminate that is tried again and again is granted some day, and carried out.
Fairness ==
  /\ WF_vars(Passes) /\ WF_vars(HostStops)
  /\ \A j \in Jobs : WF_vars(Claim(j)) /\ WF_vars(\E confirmed \in BOOLEAN : RunnerEnds(j, confirmed))
  /\ SF_vars(StartDrain) /\ SF_vars(Terminate)

FairSpec == Spec /\ Fairness

-----------------------------------------------------------------------------
\* runner._coming_back and maybe_terminate: a drain starts only when nothing is
\* running, and nothing runs from then on, so no attempt goes with the host.
NoAttemptLost == host # "up" => \A j \in Jobs : status[j] # "running"

\* retry_unconfirmed_outputs, if it is not cut short: of whatever a job left on
\* the host it is known by the time the host goes that it was uploaded, or that
\* it was lost.
OutputsAccountedFor == host # "up" => \A j \in Jobs : outputs[j] # "pending"


\* maybe_terminate: a rental nobody gives work to any more ends itself.
IdleRentalEnds == (<>[](Queued = {})) => <>(host = "gone")
=============================================================================

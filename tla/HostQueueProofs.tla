--------------------------- MODULE HostQueueProofs ---------------------------
(***************************************************************************)
(* What holds of HostQueue for every set of jobs, cards and runners, every *)
(* bound, and whether or not runners claim and publish promptly.           *)
(***************************************************************************)
EXTENDS HostQueue, FiniteSetTheorems, TLAPS

\* A runner acts for a job, and while it is not past its last phase it has one
\* to look up; one that is stopping a phase or is past the last knows how it ends.
SoundRunner ==
  {x \in RunnerState :
     /\ x.pc # "dead" => x.job \in Jobs
     /\ x.pc \in {"between", "spawned", "watching"} => x.step \in 1..Len(Phases)
     /\ x.pc \in {"stopping", "done", "sync", "ending"} => x.out # "none"}

\* TypeOK with what it takes to make it inductive.
TypeInv == TypeOK /\ rp \in [Runners -> SoundRunner]

-----------------------------------------------------------------------------
\* What the record constructors return.

LEMMA QueuedStateType ==
  ASSUME NEW n \in Nat, NEW p \in Priorities, NEW k \in Nat
  PROVE  QueuedState(n, p, k) \in JobState
  BY DEF QueuedState, JobState, Intents, PhaseNames, RunnerId

LEMMA FinishedStateType ==
  ASSUME NEW s \in JobState, NEW out \in Finished
  PROVE  FinishedState(s, out) \in JobState
<1>1. AnyPriority \in Priorities
  BY PrioritiesAssumption DEF AnyPriority
<1> QED
  BY <1>1 DEF FinishedState, QueuedState, JobState, Intents, PhaseNames, RunnerId, Finished

LEMMA DeadRunnerType ==
  ASSUME NEW g \in SUBSET Cards
  PROVE  DeadRunner(g) \in SoundRunner
  BY DEF DeadRunner, SoundRunner, RunnerState, RunnerPc, Exits, Outcomes

LEMMA DieType ==
  ASSUME rp \in [Runners -> SoundRunner], NEW r \in Runners
  PROVE  Die(r) \in SoundRunner /\ Die(r).pc = "dead"
  <1>1. rp[r].gpus \in SUBSET Cards
    BY DEF SoundRunner, RunnerState
  <1> QED
    BY <1>1, DeadRunnerType DEF Die, DeadRunner

\* A kill of its phase leaves a runner what and where it was.
LEMMA AfterKillType ==
  ASSUME rp \in [Runners -> SoundRunner], NEW r \in Runners
  PROVE  /\ AfterKill(r) \in SoundRunner
         /\ AfterKill(r).pc = rp[r].pc
         /\ rp[r].pc # "dead" =>
              /\ AfterKill(r).job = rp[r].job
              /\ AfterKill(r).attempt = rp[r].attempt
              /\ AfterKill(r).gpus = rp[r].gpus
  <1>1. CASE Alive(r)
    BY <1>1 DEF AfterKill, Alive, SoundRunner, RunnerState, Exits
  <1>2. CASE ~Alive(r)
    BY <1>2, DeadRunnerType DEF AfterKill, Alive, DeadRunner
  <1> QED
    BY <1>1, <1>2

\* jobs.finish of an outcome leaves states.
LEMMA FinishType ==
  ASSUME st \in [Jobs -> JobState], NEW j \in Jobs, NEW out \in Finished, NEW expect,
         Finish(j, out, expect)
  PROVE  st' \in [Jobs -> JobState]
  BY FinishedStateType DEF Finish

LEMMA FinalStatusType ==
  ASSUME NEW out \in Outcomes \ {"none"}, NEW intent
  PROVE  FinalStatus(out, intent) \in Finished
  BY DEF FinalStatus, Outcomes, Finished

\* What a pass decides for the jobs it listed are decisions.
LEMMA PlansType ==
  ASSUME NEW rs \in SUBSET QueueEntry, NEW free \in SUBSET Cards, NEW pl \in PlansOf(rs, free)
  PROVE  pl \subseteq Decision
  <1> DEFINE Decided(q, g, bad) == [job |-> q.job, attempt |-> q.attempt, gpus |-> g, fails |-> bad]
             TooWide(q) == Wants[q.job] > Cardinality(Cards)
  <1>1. PICK ds \in SUBSET [job: {q.job : q \in rs}, gpus: SUBSET free] :
          pl = {Decided(q, {}, TRUE) : q \in {k \in rs : TooWide(k)}}
                 \cup {Decided(CHOOSE q \in rs : q.job = d.job, d.gpus, FALSE) : d \in ds}
    BY DEF PlansOf
  <1>2. ASSUME NEW q \in rs, NEW g \in SUBSET Cards, NEW bad \in BOOLEAN
        PROVE  Decided(q, g, bad) \in Decision
    BY <1>2 DEF Decision, QueueEntry
  <1>3. ASSUME NEW d \in ds
        PROVE  (CHOOSE q \in rs : q.job = d.job) \in rs /\ d.gpus \in SUBSET Cards
    BY <1>3
  <1>4. ASSUME NEW e \in pl
        PROVE  e \in Decision
    <2> HIDE DEF Decided, TooWide
    <2>1. CASE \E q \in rs : e = Decided(q, {}, TRUE)
      BY <1>2, <2>1
    <2>2. CASE \E d \in ds : e = Decided(CHOOSE q \in rs : q.job = d.job, d.gpus, FALSE)
      <3>1. PICK d \in ds : e = Decided(CHOOSE q \in rs : q.job = d.job, d.gpus, FALSE)
        BY <2>2
      <3>2. (CHOOSE q \in rs : q.job = d.job) \in rs /\ d.gpus \in SUBSET Cards
        BY <1>3
      <3> QED
        BY <1>2, <3>1, <3>2
    <2> QED
      BY <1>1, <2>1, <2>2
  <1> QED
    BY <1>4

-----------------------------------------------------------------------------
\* Every action keeps the types.

\* A step of a request or a runner leaves the dispatcher and the boot alone.
LEMMA LeavesDispatcher ==
  ASSUME TypeInv, st' \in [Jobs -> JobState], rp' \in [Runners -> SoundRunner],
         proc' \in [Runners -> BOOLEAN], UNCHANGED <<boot, dvars>>
  PROVE  TypeInv'
  <1>1. SoundRunner \subseteq RunnerState
    BY DEF SoundRunner
  <1>2. rp' \in [Runners -> RunnerState]
    BY <1>1
  <1> QED
    BY <1>2 DEF TypeInv, TypeOK, dvars

\* queue.enqueue, cancel, preempt and settable.apply write states.
LEMMA RequestType ==
  ASSUME TypeInv, Request
  PROVE  TypeInv'
  <1>1. PICK j \in Jobs : Cancel(j) \/ \E p \in Priorities : Enqueue(j, p) \/ Preempt(j, p) \/ SetPriority(j, p)
    BY DEF Request
  <1>2. st \in [Jobs -> JobState] /\ st[j] \in JobState
    BY DEF TypeInv, TypeOK
  <1>3. rp' = rp /\ proc' = proc /\ UNCHANGED <<boot, dvars>>
    BY <1>1 DEF Cancel, Enqueue, Preempt, SetPriority
  <1> SUFFICES st' \in [Jobs -> JobState]
    BY <1>3, LeavesDispatcher DEF TypeInv, TypeOK
  <1>4. CASE Cancel(j)
    <2>1. FinishedState(st[j], "cancelled") \in JobState
      BY <1>2, FinishedStateType DEF Finished
    <2>2. [st[j] EXCEPT !.intent = "cancel"] \in JobState
      BY <1>2 DEF JobState, Intents
    <2> QED
      BY <1>2, <1>4, <2>1, <2>2 DEF Cancel
  <1>5. ASSUME NEW p \in Priorities, Enqueue(j, p)
        PROVE  st' \in [Jobs -> JobState]
    <2>1. QueuedState(1, p, 0) \in JobState
      BY QueuedStateType
    <2> QED
      BY <1>2, <1>5, <2>1 DEF Enqueue
  <1>6. ASSUME NEW p \in Priorities, Preempt(j, p)
        PROVE  st' \in [Jobs -> JobState]
    <2>1. [st[j] EXCEPT !.intent = "preempt", !.priority = p] \in JobState
      BY <1>2 DEF JobState, Intents
    <2> QED
      BY <1>2, <1>6, <2>1 DEF Preempt
  <1>7. ASSUME NEW p \in Priorities, SetPriority(j, p)
        PROVE  st' \in [Jobs -> JobState]
    BY <1>2, <1>7 DEF SetPriority, JobState
  <1> QED
    BY <1>1, <1>4, <1>5, <1>6, <1>7

\* A runner's steps keep the types, and its outcome is decided before it writes.
LEMMA RunnerType ==
  ASSUME TypeInv, NEW r \in Runners, Runner(r)
  PROVE  TypeInv'
  <1> DEFINE j == rp[r].job
             Goal == /\ st' \in [Jobs -> JobState]
                     /\ rp' \in [Runners -> SoundRunner]
                     /\ proc' \in [Runners -> BOOLEAN]
  <1> SUFFICES Goal
    <2>1. UNCHANGED <<boot, dvars>>
      BY DEF Runner, Claim, RefusePhase, StoppedBefore, SpawnPhase, Publish, PhaseOver, SeeStop,
             Stopped, Terminated, BeginSync, Synced, End, Exit
    <2> QED
      BY <2>1, LeavesDispatcher
  <1>1. /\ st \in [Jobs -> JobState]
        /\ rp \in [Runners -> SoundRunner]
        /\ proc \in [Runners -> BOOLEAN]
    BY DEF TypeInv, TypeOK
  <1>2. /\ rp[r] \in SoundRunner
        /\ rp[r].pc # "dead" => j \in Jobs /\ st[j] \in JobState
    BY <1>1 DEF SoundRunner
  <1>3. AsAsked(st[j].intent) \in Outcomes \ {"none"}
    BY DEF AsAsked, Outcomes
  <1>4. CASE Claim(r)
    <2>1. CASE MayClaim(r)
      <3>1. 1 \in 1..Len(Phases)
        BY PhasesAssumption
      <3>2. [rp[r] EXCEPT !.pc = "between", !.step = 1] \in SoundRunner
        BY <1>2, <1>4, <3>1 DEF Claim, SoundRunner, RunnerState, RunnerPc
      <3>3. boot \in Nat
        BY DEF TypeInv, TypeOK
      <3>4. [st[j] EXCEPT !.status = "running", !.gpus = rp[r].gpus, !.phase = "setup",
                          !.runner = r, !.boot = boot] \in JobState
        BY <1>2, <1>4, <3>3 DEF Claim, JobState, SoundRunner, RunnerState, PhaseNames, RunnerId
      <3> QED
        BY <1>1, <1>4, <2>1, <3>2, <3>4 DEF Claim
    <2>2. CASE ~MayClaim(r)
      BY <1>1, <1>4, <2>2, DieType DEF Claim
    <2> QED
      BY <2>1, <2>2
  <1>5. CASE RefusePhase(r)
    BY <1>1, <1>2, <1>5 DEF RefusePhase, SoundRunner, RunnerState, RunnerPc, Outcomes
  <1>6. CASE StoppedBefore(r)
    BY <1>1, <1>2, <1>3, <1>6 DEF StoppedBefore, SoundRunner, RunnerState, RunnerPc
  <1>7. CASE SpawnPhase(r)
    BY <1>1, <1>2, <1>7 DEF SpawnPhase, SoundRunner, RunnerState, RunnerPc
  <1>8. CASE Publish(r)
    <2>1. Phases[rp[r].step] \in PhaseNames
      BY <1>2, <1>8, PhasesAssumption DEF Publish, SoundRunner, PhaseNames
    <2>2. [st[j] EXCEPT !.phase = Phases[rp[r].step], !.pgid = r] \in JobState
      BY <1>2, <1>8, <2>1 DEF Publish, JobState, RunnerId
    <2>3. [rp[r] EXCEPT !.pc = "watching"] \in SoundRunner
      BY <1>2, <1>8 DEF Publish, SoundRunner, RunnerState, RunnerPc
    <2> QED
      BY <1>1, <1>8, <2>2, <2>3 DEF Publish
  <1>9. CASE PhaseOver(r)
    <2>1. [st[j] EXCEPT !.pgid = None] \in JobState
      BY <1>2, <1>9 DEF PhaseOver, JobState, RunnerId
    <2>2. CASE rp[r].exit = "ok" /\ rp[r].step < Len(Phases)
      <3>1. rp[r].step + 1 \in Nat /\ rp[r].step + 1 \in 1..Len(Phases)
        BY <1>2, <2>2, PhasesAssumption DEF SoundRunner, RunnerState
      <3>2. [rp[r] EXCEPT !.pc = "between", !.step = rp[r].step + 1, !.exit = "none"] \in SoundRunner
        BY <1>2, <1>9, <3>1 DEF PhaseOver, SoundRunner, RunnerState, RunnerPc, Exits
      <3>3. rp' = [rp EXCEPT ![r] = [rp[r] EXCEPT !.pc = "between", !.step = rp[r].step + 1, !.exit = "none"]]
        BY <1>1, <1>9, <2>2 DEF PhaseOver
      <3> QED
        BY <1>1, <1>9, <2>1, <3>2, <3>3 DEF PhaseOver
    <2>3. CASE ~(rp[r].exit = "ok" /\ rp[r].step < Len(Phases))
      <3>1. [rp[r] EXCEPT !.pc = "done", !.out = IF rp[r].exit = "ok" THEN "succeeded" ELSE "failed"]
              \in SoundRunner
        BY <1>2, <1>9 DEF PhaseOver, SoundRunner, RunnerState, RunnerPc, Outcomes
      <3> QED
        BY <1>1, <1>9, <2>1, <2>3, <3>1 DEF PhaseOver
    <2> QED
      BY <2>2, <2>3
  <1>10. CASE SeeStop(r)
    <2>1. \A out \in Outcomes \ {"none"} :
            [rp[r] EXCEPT !.pc = "stopping", !.out = out] \in SoundRunner
      BY <1>2, <1>10 DEF SeeStop, SoundRunner, RunnerState, RunnerPc
    <2>2. "timeout" \in Outcomes \ {"none"}
      BY DEF Outcomes
    <2> QED
      BY <1>1, <1>3, <1>10, <2>1, <2>2 DEF SeeStop
  <1>11. CASE Stopped(r)
    <2>1. [st[j] EXCEPT !.pgid = None] \in JobState
      BY <1>2, <1>11 DEF Stopped, JobState, RunnerId
    <2>2. [rp[r] EXCEPT !.pc = "done", !.exit = IF @ = "none" THEN "stopped" ELSE @] \in SoundRunner
      BY <1>2, <1>11 DEF Stopped, SoundRunner, RunnerState, RunnerPc, Exits
    <2> QED
      BY <1>1, <1>11, <2>1, <2>2 DEF Stopped
  <1>12. CASE Terminated(r)
    <2>1. [st[j] EXCEPT !.phase = "sync"] \in JobState
      BY <1>2, <1>12 DEF Terminated, JobState, PhaseNames
    <2>2. \A out \in Outcomes \ {"none"} :
            [rp[r] EXCEPT !.pc = "sync", !.exit = IF @ = "none" THEN "stopped" ELSE @, !.out = out]
              \in SoundRunner
      BY <1>2, <1>12 DEF Terminated, SoundRunner, RunnerState, RunnerPc, Exits
    <2>3. "failed" \in Outcomes \ {"none"}
      BY DEF Outcomes
    <2>4. proc' \in [Runners -> BOOLEAN]
      BY <1>1, <1>12 DEF Terminated
    <2> QED
      BY <1>1, <1>3, <1>12, <2>1, <2>2, <2>3, <2>4 DEF Terminated
  <1>13. CASE BeginSync(r)
    <2>1. [st[j] EXCEPT !.phase = "sync"] \in JobState
      BY <1>2, <1>13 DEF BeginSync, JobState, PhaseNames
    <2>2. [rp[r] EXCEPT !.pc = "sync"] \in SoundRunner
      BY <1>2, <1>13 DEF BeginSync, SoundRunner, RunnerState, RunnerPc
    <2> QED
      BY <1>1, <1>13, <2>1, <2>2 DEF BeginSync
  <1>14. ASSUME NEW lost \in BOOLEAN, Synced(r, lost)
         PROVE  Goal
    <2>1. \A out \in Outcomes \ {"none"}, back \in BOOLEAN :
            [rp[r] EXCEPT !.pc = "ending", !.out = out, !.back = back] \in SoundRunner
      BY <1>2, <1>14 DEF Synced, SoundRunner, RunnerState, RunnerPc
    <2>2. "failed" \in Outcomes \ {"none"} /\ rp[r].out \in Outcomes \ {"none"}
      BY <1>2, <1>14 DEF Synced, Outcomes, SoundRunner, RunnerState
    <2>3. (rp[r].out = "preempted" /\ st[j].intent = "preempt") \in BOOLEAN
      OBVIOUS
    <2> QED
      BY <1>1, <1>14, <2>1, <2>2, <2>3 DEF Synced
  <1>15. CASE End(r)
    <2>1. rp[r].pc = "ending" /\ j \in Jobs /\ st[j] \in JobState
      BY <1>2, <1>15 DEF End
    <2>2. [rp[r] EXCEPT !.pc = "ended"] \in SoundRunner
      BY <1>2, <2>1 DEF SoundRunner, RunnerState, RunnerPc
    <2>3. FinalStatus(rp[r].out, st[j].intent) \in Finished
      BY <1>2, <2>1, FinalStatusType DEF SoundRunner, RunnerState
    <2>4. CASE ComesBack(r)
      <3>1. st[j].attempt + 1 \in Nat /\ st[j].priority \in Priorities /\ st[j].restarts \in Nat
        BY <2>1 DEF JobState
      <3>2. QueuedState(st[j].attempt + 1, st[j].priority, st[j].restarts) \in JobState
        BY <3>1, QueuedStateType
      <3> QED
        BY <1>1, <1>15, <2>2, <2>4, <3>2 DEF End
    <2>5. CASE ~ComesBack(r)
      BY <1>1, <1>15, <2>1, <2>2, <2>3, <2>5, FinishType DEF End
    <2> QED
      BY <2>4, <2>5
  <1>16. CASE Exit(r)
    BY <1>1, <1>16, DieType DEF Exit
  <1> QED
    BY <1>4, <1>5, <1>6, <1>7, <1>8, <1>9, <1>10, <1>11, <1>12, <1>13, <1>14, <1>15, <1>16
       DEF Runner
\* What happens to a runner or its phase keeps the types.
LEMMA EnvironmentType ==
  ASSUME TypeInv, NEW r \in Runners, Environment(r)
  PROVE  TypeInv'
  <1>1. /\ rp \in [Runners -> SoundRunner]
        /\ proc \in [Runners -> BOOLEAN]
    BY DEF TypeInv, TypeOK
  <1>2. st' = st /\ st \in [Jobs -> JobState] /\ UNCHANGED <<boot, dvars>>
    BY DEF Environment, PhaseExits, RunnerKilled, OrphanExits, TypeInv, TypeOK
  <1> SUFFICES rp' \in [Runners -> SoundRunner] /\ proc' \in [Runners -> BOOLEAN]
    BY <1>2, LeavesDispatcher
  <1>3. ASSUME NEW code \in {"ok", "bad"}, NEW leftovers \in BOOLEAN, PhaseExits(r, code, leftovers)
        PROVE  rp' \in [Runners -> SoundRunner] /\ proc' \in [Runners -> BOOLEAN]
    <2>1. code \in Exits /\ rp[r] \in SoundRunner
      BY <1>1, <1>3 DEF Exits
    <2>2. [rp[r] EXCEPT !.exit = code] \in SoundRunner
      BY <2>1 DEF SoundRunner, RunnerState
    <2> QED
      BY <1>1, <1>3, <2>2 DEF PhaseExits
  <1>4. CASE RunnerKilled(r)
    BY <1>1, <1>4, DieType DEF RunnerKilled
  <1>5. CASE OrphanExits(r)
    BY <1>1, <1>5, DeadRunnerType DEF OrphanExits
  <1> QED
    BY <1>3, <1>4, <1>5 DEF Environment

\* The dispatcher's steps that touch neither a state nor a runner.
LEMMA InnerStepType ==
  ASSUME TypeInv, DispatcherStarts \/ AdoptionOver \/ ReapOver \/ ListQueue \/ Plan \/ PassOver
  PROVE  TypeInv'
  <1> USE DEF TypeInv, TypeOK
  <1>1. CASE DispatcherStarts
    BY <1>1 DEF DispatcherStarts
  <1>2. CASE AdoptionOver
    BY <1>2 DEF AdoptionOver
  <1>3. CASE ReapOver
    BY <1>3 DEF ReapOver
  <1>4. CASE ListQueue
    <2>1. reqs' \subseteq QueueEntry
      BY <1>4 DEF ListQueue, QueueEntry, JobState
    <2> QED
      BY <1>4, <2>1 DEF ListQueue
  <1>5. CASE Plan
    <2>1. Cards \ BusyGpus \in SUBSET Cards
      OBVIOUS
    <2>2. plan' \subseteq Decision
      BY <1>5, <2>1, PlansType DEF Plan
    <2> QED
      BY <1>5, <2>2 DEF Plan
  <1>6. CASE PassOver
    BY <1>6 DEF PassOver
  <1> QED
    BY <1>1, <1>2, <1>3, <1>4, <1>5, <1>6

\* What an adopted or reaped job leaves in the dispatcher's memory.
LEMMA AdoptedType ==
  ASSUME NEW s \in JobState, RecordedAlive(s)
  PROVE  Adopted(s) \in Entry
  BY DEF Adopted, Entry, JobState, RecordedAlive

LEMMA RunnerDiedType ==
  ASSUME NEW j \in Jobs, NEW expect \in {"queued", "running"}
  PROVE  RunnerDied(j, expect) \in Mark
  BY DEF RunnerDied, Mark

\* adopt_orphans writes states, adopts live runners and marks dead ones.
LEMMA AdoptOrphanType ==
  ASSUME TypeInv, NEW j \in Jobs, AdoptOrphan(j)
  PROVE  TypeInv'
  <1> USE DEF TypeInv, TypeOK
  <1> DEFINE s == st[j]
  <1>1. s \in JobState
    OBVIOUS
  <1>2. /\ todo' \subseteq Jobs
        /\ UNCHANGED <<rp, proc, disp, rung, reqs, plan, boot, deaths>>
    BY DEF AdoptOrphan
  <1> SUFFICES /\ st' \in [Jobs -> JobState]
               /\ running' \in [Jobs -> Entry \cup {None}]
               /\ mark' \in Mark \cup {None}
    BY <1>2
  <1>3. CASE s.status # "running"
    BY <1>3 DEF AdoptOrphan
  <1>4. CASE s.status = "running" /\ FromAnotherBoot(s)
    <2>1. RequeueAfterRestart(j) /\ running' = running
      BY <1>4 DEF AdoptOrphan, RecordedAlive
    <2>2. CASE ComesBackAfterRestart(s)
      <3>1. /\ s.attempt + 1 \in Nat /\ s.priority \in Priorities
            /\ (IF s.intent = "preempt" THEN s.restarts ELSE s.restarts + 1) \in Nat
        BY <1>1 DEF JobState
      <3>2. QueuedState(s.attempt + 1, s.priority,
                        IF s.intent = "preempt" THEN s.restarts ELSE s.restarts + 1) \in JobState
        BY <3>1, QueuedStateType
      <3> QED
        BY <2>1, <2>2, <3>2 DEF RequeueAfterRestart
    <2>3. CASE ~ComesBackAfterRestart(s)
      BY <2>1, <2>3 DEF RequeueAfterRestart, Mark
    <2> QED
      BY <2>2, <2>3
  <1>5. CASE s.status = "running" /\ RecordedAlive(s)
    <2>1. running' = [running EXCEPT ![j] = Adopted(s)] /\ st' = st /\ mark' = mark
      BY <1>5 DEF AdoptOrphan, RecordedAlive
    <2> QED
      BY <1>1, <1>5, <2>1, AdoptedType
  <1>6. CASE s.status = "running" /\ ~FromAnotherBoot(s) /\ ~RecordedAlive(s)
    <2>1. mark' = RunnerDied(j, "running") /\ st' = st /\ running' = running
      BY <1>6 DEF AdoptOrphan
    <2> QED
      BY <2>1, RunnerDiedType
  <1> QED
    BY <1>3, <1>4, <1>5, <1>6

\* reap settles entries and marks.
LEMMA ReapType ==
  ASSUME TypeInv, NEW j \in Jobs, Reap(j)
  PROVE  TypeInv'
  <1> USE DEF TypeInv, TypeOK
  <1> DEFINE s == st[j]
             lostClaim == s.status = "running" /\ s.runner # running[j].runner /\ RecordedAlive(s)
  <1>1. running' \in [Jobs -> Entry \cup {None}]
    <2>1. lostClaim => Adopted(s) \in Entry
      BY AdoptedType
    <2>2. running' = [running EXCEPT ![j] = IF lostClaim THEN Adopted(s) ELSE None]
      BY DEF Reap
    <2> QED
      BY <2>1, <2>2
  <1>2. mark' \in Mark \cup {None}
    <2>1. mark' \in {RunnerDied(j, "queued"), RunnerDied(j, "running"), None}
      BY DEF Reap
    <2> QED
      BY <2>1, RunnerDiedType
  <1>3. rung' \in [Jobs -> 0..3]
    BY DEF Reap
  <1> QED
    BY <1>1, <1>2, <1>3 DEF Reap

\* _mark_runner_died and the write after it.
LEMMA MarkType ==
  ASSUME TypeInv, KillLeftovers \/ WriteMark
  PROVE  TypeInv'
  <1> USE DEF TypeInv, TypeOK
  <1>1. mark \in Mark
    BY DEF KillLeftovers, WriteMark
  <1>2. SoundRunner \subseteq RunnerState
    BY DEF SoundRunner
  <1>3. CASE KillLeftovers
    <2> DEFINE s == st[mark.job]
    <2>1. s \in JobState
      BY <1>1 DEF Mark
    <2>2. mark' \in Mark
      BY <1>1, <1>3 DEF KillLeftovers, Mark
    <2>3. CASE s.pgid = None \/ FromAnotherBoot(s)
      BY <1>3, <2>2, <2>3 DEF KillLeftovers
    <2>4. CASE ~(s.pgid = None \/ FromAnotherBoot(s))
      <3>1. s.pgid \in Runners
        BY <2>1, <2>4 DEF JobState, RunnerId
      <3>2. /\ rp' = [rp EXCEPT ![s.pgid] = AfterKill(s.pgid)]
            /\ proc' = [proc EXCEPT ![s.pgid] = FALSE]
        BY <1>3, <2>4 DEF KillLeftovers
      <3>3. rp' \in [Runners -> SoundRunner] /\ rp' \in [Runners -> RunnerState]
        BY <1>2, <3>1, <3>2, AfterKillType
      <3> QED
        BY <1>3, <2>2, <3>2, <3>3 DEF KillLeftovers
    <2> QED
      BY <2>3, <2>4
  <1>4. CASE WriteMark
    <2>1. mark.job \in Jobs /\ mark.out \in Finished
      BY <1>1 DEF Mark, Finished
    <2>2. st' \in [Jobs -> JobState]
      BY <1>4, <2>1, FinishType DEF WriteMark
    <2> QED
      BY <1>4, <2>2 DEF WriteMark
  <1> QED
    BY <1>3, <1>4

\* The ladder kills phases and runners.
LEMMA EscalateType ==
  ASSUME TypeInv, NEW j \in Jobs, Escalate(j)
  PROVE  TypeInv'
  <1> USE DEF TypeInv, TypeOK
  <1>1. rung' \in [Jobs -> 0..3]
    BY DEF Escalate
  <1>2. proc' \in [Runners -> BOOLEAN]
    BY DEF Escalate
  <1>3. rp' \in [Runners -> SoundRunner]
    <2>1. \A r \in Runners : DeadRunner(rp[r].gpus) \in SoundRunner /\ DeadRunner({}) \in SoundRunner
      BY DeadRunnerType DEF RunnerState
    <2>2. \A r \in Runners : AfterKill(r) \in SoundRunner
      BY AfterKillType
    <2>3. \A r \in Runners :
            rp'[r] \in {DeadRunner(rp[r].gpus), DeadRunner({}), AfterKill(r), rp[r]}
      BY DEF Escalate
    <2>4. rp' = [r \in Runners |-> rp'[r]]
      BY DEF Escalate
    <2> QED
      BY <2>1, <2>2, <2>3, <2>4
  <1>4. rp' \in [Runners -> RunnerState]
    BY <1>3 DEF SoundRunner
  <1> QED
    BY <1>1, <1>2, <1>3, <1>4 DEF Escalate

\* A launch leaves an entry and a runner that is starting; a failure a state.
LEMMA LaunchType ==
  ASSUME TypeInv, NEW j \in Jobs, Launch(j) \/ FailQueued(j)
  PROVE  TypeInv'
  <1> USE DEF TypeInv, TypeOK
  <1>1. CASE Launch(j)
    <2>1. PICK d \in plan :
            /\ d.job = j /\ ~d.fails
            /\ plan' = plan \ {d}
            /\ \/ /\ d.gpus \cap ClaimedGpus # {}
                  /\ UNCHANGED <<rp, running>>
               \/ /\ d.gpus \cap ClaimedGpus = {}
                  /\ \E r \in Runners :
                       /\ Fresh(r)
                       /\ rp' = [rp EXCEPT ![r] = [DeadRunner(d.gpus) EXCEPT
                                               !.pc = "starting", !.job = j, !.attempt = d.attempt]]
                       /\ running' = [running EXCEPT ![j] =
                                        [gpus |-> d.gpus, attempt |-> d.attempt, runner |-> r]]
      BY <1>1 DEF Launch
    <2>2. d.gpus \in SUBSET Cards /\ d.attempt \in Nat
      BY DEF Decision
    <2>3. [DeadRunner(d.gpus) EXCEPT !.pc = "starting", !.job = j, !.attempt = d.attempt] \in SoundRunner
      BY <2>2, DeadRunnerType DEF SoundRunner, RunnerState, RunnerPc, DeadRunner
    <2>4. \A r \in Runners : [gpus |-> d.gpus, attempt |-> d.attempt, runner |-> r] \in Entry
      BY <2>2 DEF Entry
    <2>5. rp' \in [Runners -> SoundRunner] /\ running' \in [Jobs -> Entry \cup {None}]
      BY <2>1, <2>3, <2>4
    <2>6. rp' \in [Runners -> RunnerState]
      BY <2>5 DEF SoundRunner
    <2> QED
      BY <1>1, <2>1, <2>5, <2>6 DEF Launch
  <1>2. CASE FailQueued(j)
    <2>1. st' \in [Jobs -> JobState]
      BY <1>2, FinishType DEF FailQueued, Finished
    <2>2. plan' \subseteq Decision
      BY <1>2 DEF FailQueued
    <2> QED
      BY <1>2, <2>1, <2>2 DEF FailQueued
  <1> QED
    BY <1>1, <1>2

\* A dispatcher that dies, and a host that restarts, forget what they knew.
LEMMA ForgottenType ==
  ASSUME TypeInv, DispatcherKilled \/ Reboot
  PROVE  TypeInv'
  <1> USE DEF TypeInv, TypeOK, ForgetDispatcher
  <1>1. CASE DispatcherKilled
    BY <1>1 DEF DispatcherKilled
  <1>2. CASE Reboot
    <2>1. rp' \in [Runners -> SoundRunner]
      BY <1>2, DeadRunnerType DEF Reboot
    <2>2. rp' \in [Runners -> RunnerState]
      BY <2>1 DEF SoundRunner
    <2> QED
      BY <1>2, <2>1, <2>2 DEF Reboot
  <1> QED
    BY <1>1, <1>2

LEMMA InitType ==
  ASSUME Init
  PROVE  TypeInv
  <1>1. AnyPriority \in Priorities
    BY PrioritiesAssumption DEF AnyPriority
  <1>2. [QueuedState(0, AnyPriority, 0) EXCEPT !.status = "absent"] \in JobState
    BY <1>1 DEF QueuedState, JobState, Intents, PhaseNames, RunnerId
  <1>3. DeadRunner({}) \in SoundRunner /\ DeadRunner({}) \in RunnerState
    BY DeadRunnerType DEF SoundRunner
  <1> QED
    BY <1>2, <1>3 DEF Init, TypeInv, TypeOK

LEMMA TypeStep ==
  ASSUME TypeInv, [Next]_vars
  PROVE  TypeInv'
  <1>1. CASE UNCHANGED vars
    BY <1>1 DEF TypeInv, TypeOK, vars
  <1>2. CASE Dispatcher
    BY <1>2, InnerStepType, AdoptOrphanType, ReapType, MarkType, EscalateType, LaunchType
       DEF Dispatcher
  <1> QED
    BY <1>1, <1>2, RequestType, RunnerType, EnvironmentType, ForgottenType DEF Next

\* What every process reads of a state.json, of a runner and of the dispatcher's
\* memory has the shape the code relies on: in particular a runner always has
\* an outcome to write when it ends its attempt, and a phase to publish.
THEOREM TypeCorrect == Spec => []TypeOK
  <1>1. Init => TypeInv
    BY InitType
  <1>2. TypeInv /\ [Next]_vars => TypeInv'
    BY TypeStep
  <1>3. TypeInv => TypeOK
    BY DEF TypeInv
  <1> QED
    BY <1>1, <1>2, <1>3, PTL DEF Spec
-----------------------------------------------------------------------------
\* One runner per job.

\* OneRunnerPerJob, and that the state is of this boot: what makes a runner that
\* is in charge look alive to a dispatcher.
InChargeNamed ==
  \A r \in Runners : InCharge(r) =>
    /\ st[rp[r].job].status = "running"
    /\ st[rp[r].job].runner = r
    /\ st[rp[r].job].attempt = rp[r].attempt
    /\ st[rp[r].job].gpus = rp[r].gpus
    /\ st[rp[r].job].boot = boot

\* A running job a dispatcher has decided to end for its runner stays as it is,
\* with nobody in charge of it, until the dispatcher ends it.
MarkedAbandoned ==
  mark # None /\ mark.expect = "running" =>
    /\ st[mark.job].status = "running"
    /\ \A r \in Runners : InCharge(r) => rp[r].job # mark.job

ChargeInv == InChargeNamed /\ MarkedAbandoned

\* Two states that name the same runner of the same attempt on the same cards.
SameClaim(s, t) ==
  /\ s.status = t.status /\ s.runner = t.runner /\ s.attempt = t.attempt
  /\ s.gpus = t.gpus /\ s.boot = t.boot

\* Two runner processes that act for the same attempt on the same cards.
SameCharge(x, y) == x.job = y.job /\ x.attempt = y.attempt /\ x.gpus = y.gpus

\* A runner that is in charge has a job.
LEMMA InChargeJob ==
  ASSUME TypeInv, NEW r \in Runners, InCharge(r)
  PROVE  rp[r].job \in Jobs /\ Alive(r) /\ rp[r] \in RunnerState /\ st[rp[r].job] \in JobState
  <1>1. rp[r] \in SoundRunner /\ rp[r].pc # "dead"
    BY DEF TypeInv, InCharge
  <1> QED
    BY <1>1 DEF TypeInv, TypeOK, SoundRunner, Alive

\* Steps that change no claim and put nobody in charge.
LEMMA NobodyNew ==
  ASSUME TypeInv, ChargeInv, boot' = boot,
         mark' = None \/ (mark # None /\ mark'.job = mark.job /\ mark'.expect = mark.expect),
         \A k \in Jobs : SameClaim(st'[k], st[k]),
         \A q \in Runners : InCharge(q)' => InCharge(q) /\ SameCharge(rp'[q], rp[q])
  PROVE  ChargeInv'
  <1>1. InChargeNamed'
    <2> SUFFICES ASSUME NEW q \in Runners, InCharge(q)'
                 PROVE  SameClaim(st'[rp'[q].job], st[rp[q].job]) /\ SameCharge(rp'[q], rp[q]) /\ InCharge(q)
      BY DEF ChargeInv, InChargeNamed, SameClaim, SameCharge
    <2> QED
      BY InChargeJob DEF SameCharge
  <1>2. MarkedAbandoned'
    <2> SUFFICES ASSUME mark' # None, mark'.expect = "running"
                 PROVE  /\ st'[mark'.job].status = "running"
                        /\ \A r \in Runners : InCharge(r)' => rp'[r].job # mark'.job
      BY DEF MarkedAbandoned
    <2>1. mark # None /\ mark'.job = mark.job /\ mark.expect = "running" /\ mark.job \in Jobs
      BY DEF TypeInv, TypeOK, Mark
    <2> QED
      BY <2>1 DEF ChargeInv, MarkedAbandoned, SameClaim, SameCharge
  <1> QED
    BY <1>1, <1>2 DEF ChargeInv

\* Steps that change the state of one job of which nobody is in charge and
\* which no dispatcher is about to end as running.
LEMMA NobodyThere ==
  ASSUME TypeInv, ChargeInv, boot' = boot, NEW j \in Jobs,
         mark' = None \/ (mark' = mark /\ (mark.expect = "running" => mark.job # j)),
         \A k \in Jobs \ {j} : st'[k] = st[k],
         \A q \in Runners : InCharge(q) => rp[q].job # j,
         rp' = rp
  PROVE  ChargeInv'
  <1>1. \A q \in Runners : InCharge(q)' = InCharge(q)
    BY DEF InCharge
  <1>2. InChargeNamed'
    BY <1>1, InChargeJob DEF ChargeInv, InChargeNamed
  <1>3. MarkedAbandoned'
    <2>1. mark # None => mark.job \in Jobs
      BY DEF TypeInv, TypeOK, Mark
    <2> QED
      BY <1>1, <2>1 DEF ChargeInv, MarkedAbandoned
  <1> QED
    BY <1>2, <1>3 DEF ChargeInv

\* Nobody is in charge of a job that is not running, and none is marked so.
LEMMA NotRunning ==
  ASSUME TypeInv, ChargeInv, NEW j \in Jobs, st[j].status # "running"
  PROVE  /\ \A q \in Runners : InCharge(q) => rp[q].job # j
         /\ mark # None /\ mark.expect = "running" => mark.job # j
  BY DEF ChargeInv, InChargeNamed, MarkedAbandoned

LEMMA RequestCharge ==
  ASSUME TypeInv, ChargeInv, Request
  PROVE  ChargeInv'
  <1>1. PICK j \in Jobs : Cancel(j) \/ \E p \in Priorities : Enqueue(j, p) \/ Preempt(j, p) \/ SetPriority(j, p)
    BY DEF Request
  <1>2. st \in [Jobs -> JobState] /\ mark \in Mark \cup {None}
    BY DEF TypeInv, TypeOK
  <1>3. rp' = rp /\ mark' = mark /\ boot' = boot
    BY <1>1 DEF Cancel, Enqueue, Preempt, SetPriority, dvars
  <1>4. \A q \in Runners : InCharge(q)' => InCharge(q) /\ SameCharge(rp'[q], rp[q])
    BY <1>3 DEF InCharge, SameCharge
  <1>5. CASE st[j].status # "running" /\ \A k \in Jobs \ {j} : st'[k] = st[k]
    BY <1>3, <1>5, NotRunning, NobodyThere
  <1>6. CASE \A k \in Jobs : SameClaim(st'[k], st[k])
    BY <1>3, <1>4, <1>6, NobodyNew
  <1>7. CASE Cancel(j)
    <2>1. CASE st[j].status = "queued"
      BY <1>2, <1>5, <1>7, <2>1 DEF Cancel
    <2>2. CASE st[j].status = "running"
      BY <1>2, <1>6, <1>7, <2>2 DEF Cancel, JobState, SameClaim
    <2> QED
      BY <1>7, <2>1, <2>2 DEF Cancel
  <1>8. ASSUME NEW p \in Priorities, Enqueue(j, p)
        PROVE  ChargeInv'
    BY <1>2, <1>5, <1>8 DEF Enqueue
  <1>9. ASSUME NEW p \in Priorities, Preempt(j, p) \/ SetPriority(j, p)
        PROVE  ChargeInv'
    BY <1>2, <1>6, <1>9 DEF Preempt, SetPriority, JobState, SameClaim
  <1> QED
    BY <1>1, <1>7, <1>8, <1>9

LEMMA ClaimCharge ==
  ASSUME TypeInv, ChargeInv, NEW r \in Runners, Claim(r)
  PROVE  ChargeInv'
  <1> DEFINE j == rp[r].job
  <1>1. /\ st \in [Jobs -> JobState] /\ rp \in [Runners -> SoundRunner]
        /\ mark \in Mark \cup {None} /\ mark' = mark /\ boot' = boot
    BY DEF TypeInv, TypeOK, Claim, dvars
  <1>2. rp[r].pc = "starting" /\ j \in Jobs /\ rp[r] \in RunnerState
    BY <1>1 DEF Claim, SoundRunner
  <1>3. CASE MayClaim(r)
    <2>1. /\ st[j].status = "queued" /\ st[j].attempt = rp[r].attempt
          /\ st' = [st EXCEPT ![j] = [st[j] EXCEPT !.status = "running", !.gpus = rp[r].gpus,
                                        !.phase = "setup", !.runner = r, !.boot = boot]]
          /\ rp' = [rp EXCEPT ![r].pc = "between", ![r].step = 1]
      BY <1>1, <1>3 DEF Claim, MayClaim
    <2>2. \A q \in Runners : InCharge(q) => rp[q].job # j /\ rp[q].job \in Jobs
      BY <1>2, <2>1, NotRunning, InChargeJob
    <2>3. \A q \in Runners \ {r} : rp'[q] = rp[q] /\ (InCharge(q)' <=> InCharge(q))
      BY <1>1, <2>1 DEF InCharge
    <2>4. SameCharge(rp'[r], rp[r])
      BY <1>1, <1>2, <2>1 DEF SameCharge, RunnerState
    <2>5. /\ \A k \in Jobs \ {j} : st'[k] = st[k]
          /\ st'[j].status = "running" /\ st'[j].runner = r /\ st'[j].attempt = rp[r].attempt
          /\ st'[j].gpus = rp[r].gpus /\ st'[j].boot = boot
      BY <1>1, <1>2, <2>1 DEF JobState
    <2>6. InChargeNamed'
      BY <1>1, <1>2, <2>2, <2>3, <2>4, <2>5 DEF ChargeInv, InChargeNamed, SameCharge
    <2>7. MarkedAbandoned'
      <3>1. mark # None /\ mark.expect = "running" => mark.job # j /\ mark.job \in Jobs
        BY <1>1, <1>2, <2>1, NotRunning DEF Mark
      <3> QED
        BY <1>1, <2>3, <2>4, <2>5, <3>1 DEF ChargeInv, MarkedAbandoned, SameCharge
    <2> QED
      BY <2>6, <2>7 DEF ChargeInv
  <1>4. CASE ~MayClaim(r)
    <2>1. st' = st /\ rp' = [rp EXCEPT ![r] = Die(r)]
      BY <1>4 DEF Claim
    <2>2. \A q \in Runners : InCharge(q)' => InCharge(q) /\ SameCharge(rp'[q], rp[q])
      BY <1>1, <2>1, DieType DEF InCharge, SameCharge
    <2> QED
      BY <1>1, <2>1, <2>2, NobodyNew DEF SameClaim
  <1> QED
    BY <1>3, <1>4

LEMMA EndCharge ==
  ASSUME TypeInv, ChargeInv, NEW r \in Runners, End(r)
  PROVE  ChargeInv'
  <1> DEFINE j == rp[r].job
  <1>1. /\ st \in [Jobs -> JobState] /\ rp \in [Runners -> SoundRunner]
        /\ mark \in Mark \cup {None} /\ mark' = mark /\ boot' = boot
        /\ rp' = [rp EXCEPT ![r].pc = "ended"] /\ rp[r].pc = "ending"
    BY DEF TypeInv, TypeOK, End, dvars
  <1>2. InCharge(r) /\ j \in Jobs
    BY <1>1, InChargeJob DEF InCharge, RunnerPc
  <1>3. st[j].runner = r /\ (mark # None /\ mark.expect = "running" => mark.job # j)
    BY <1>2 DEF ChargeInv, InChargeNamed, MarkedAbandoned
  <1>4. \A k \in Jobs \ {j} : st'[k] = st[k]
    BY <1>1, <1>2 DEF End, Finish
  <1>5. \A q \in Runners : InCharge(q)' => InCharge(q) /\ q # r /\ rp'[q] = rp[q]
    BY <1>1 DEF InCharge, RunnerPc, SoundRunner, RunnerState
  <1>6. InChargeNamed'
    BY <1>1, <1>3, <1>4, <1>5, InChargeJob DEF ChargeInv, InChargeNamed
  <1>7. MarkedAbandoned'
    <2>1. mark # None => mark.job \in Jobs
      BY <1>1 DEF Mark
    <2> QED
      BY <1>1, <1>3, <1>4, <1>5, <2>1 DEF ChargeInv, MarkedAbandoned
  <1> QED
    BY <1>6, <1>7 DEF ChargeInv
\* A runner in charge of its attempt stays in charge of that attempt.
LEMMA RunnerCharge ==
  ASSUME TypeInv, ChargeInv, NEW r \in Runners, Runner(r)
  PROVE  ChargeInv'
  <1> DEFINE j == rp[r].job
             Quiet == /\ mark' = mark /\ boot' = boot
                      /\ \A k \in Jobs : SameClaim(st'[k], st[k])
                      /\ \A q \in Runners : InCharge(q)' => InCharge(q) /\ SameCharge(rp'[q], rp[q])
  <1>1. /\ st \in [Jobs -> JobState] /\ rp \in [Runners -> SoundRunner]
        /\ mark \in Mark \cup {None}
    BY DEF TypeInv, TypeOK
  <1>2. rp[r] \in SoundRunner /\ rp[r] \in RunnerState
    BY <1>1 DEF SoundRunner
  <1>3. CASE Claim(r)
    BY <1>3, ClaimCharge
  <1>4. CASE End(r)
    BY <1>4, EndCharge
  <1>5. CASE Quiet
    BY <1>1, <1>5, NobodyNew
  <1>6. CASE RefusePhase(r) \/ StoppedBefore(r) \/ SpawnPhase(r) \/ SeeStop(r) \/ \E lost \in BOOLEAN : Synced(r, lost)
    <2>1. st' = st /\ mark' = mark /\ boot' = boot
      BY <1>6 DEF RefusePhase, StoppedBefore, SpawnPhase, SeeStop, Synced, dvars
    <2>2. \A q \in Runners \ {r} : rp'[q] = rp[q]
      BY <1>1, <1>6 DEF RefusePhase, StoppedBefore, SpawnPhase, SeeStop, Synced
    <2>3. SameCharge(rp'[r], rp[r]) /\ InCharge(r)
      <3> USE <1>1, <1>2 DEF SameCharge, InCharge, RunnerPc, RunnerState
      <3>1. CASE RefusePhase(r)
        BY <3>1 DEF RefusePhase
      <3>2. CASE StoppedBefore(r)
        BY <3>2 DEF StoppedBefore
      <3>3. CASE SpawnPhase(r)
        BY <3>3 DEF SpawnPhase
      <3>4. CASE SeeStop(r)
        BY <3>4 DEF SeeStop
      <3>5. CASE \E lost \in BOOLEAN : Synced(r, lost)
        BY <3>5 DEF Synced
      <3> QED
        BY <1>6, <3>1, <3>2, <3>3, <3>4, <3>5
    <2> QED
      BY <1>5, <2>1, <2>2, <2>3 DEF SameClaim, SameCharge, InCharge
  <1>7. CASE Publish(r) \/ PhaseOver(r) \/ Stopped(r) \/ Terminated(r) \/ BeginSync(r)
    <2>1. mark' = mark /\ boot' = boot
      BY <1>7 DEF Publish, PhaseOver, Stopped, Terminated, BeginSync, dvars
    <2>2. \A q \in Runners \ {r} : rp'[q] = rp[q]
      BY <1>1, <1>7 DEF Publish, PhaseOver, Stopped, Terminated, BeginSync
    <2>3. SameCharge(rp'[r], rp[r]) /\ InCharge(r)
      <3> USE <1>1, <1>2 DEF SameCharge, InCharge, RunnerPc, RunnerState
      <3>1. CASE Publish(r)
        BY <3>1 DEF Publish
      <3>2. CASE PhaseOver(r)
        BY <3>2 DEF PhaseOver
      <3>3. CASE Stopped(r)
        BY <3>3 DEF Stopped
      <3>4. CASE Terminated(r)
        BY <3>4 DEF Terminated
      <3>5. CASE BeginSync(r)
        BY <3>5 DEF BeginSync
      <3> QED
        BY <1>7, <3>1, <3>2, <3>3, <3>4, <3>5
    <2>4. \A k \in Jobs : SameClaim(st'[k], st[k])
      <3> USE <1>1 DEF SameClaim, JobState
      <3>1. CASE Publish(r)
        BY <3>1 DEF Publish
      <3>2. CASE PhaseOver(r)
        BY <3>2 DEF PhaseOver
      <3>3. CASE Stopped(r)
        BY <3>3 DEF Stopped
      <3>4. CASE Terminated(r)
        BY <3>4 DEF Terminated
      <3>5. CASE BeginSync(r)
        BY <3>5 DEF BeginSync
      <3> QED
        BY <1>7, <3>1, <3>2, <3>3, <3>4, <3>5
    <2> QED
      BY <1>5, <2>1, <2>2, <2>3, <2>4 DEF SameCharge, InCharge
  <1>8. CASE Exit(r)
    <2>1. st' = st /\ mark' = mark /\ boot' = boot /\ rp' = [rp EXCEPT ![r] = Die(r)]
      BY <1>8 DEF Exit, dvars
    <2> QED
      BY <1>1, <1>5, <2>1, DieType DEF InCharge, SameClaim, SameCharge
  <1> QED
    BY <1>3, <1>4, <1>6, <1>7, <1>8 DEF Runner

LEMMA EnvironmentCharge ==
  ASSUME TypeInv, ChargeInv, NEW r \in Runners, Environment(r)
  PROVE  ChargeInv'
  <1>1. /\ rp \in [Runners -> SoundRunner] /\ rp[r] \in RunnerState
        /\ st' = st /\ mark' = mark /\ boot' = boot /\ mark \in Mark \cup {None}
    BY DEF TypeInv, TypeOK, Environment, PhaseExits, RunnerKilled, OrphanExits, dvars
  <1>2. \A q \in Runners \ {r} : rp'[q] = rp[q]
    BY <1>1 DEF Environment, PhaseExits, RunnerKilled, OrphanExits
  <1>3. InCharge(r)' => InCharge(r) /\ SameCharge(rp'[r], rp[r])
    <2>1. CASE \E code \in {"ok", "bad"}, leftovers \in BOOLEAN : PhaseExits(r, code, leftovers)
      BY <1>1, <2>1 DEF PhaseExits, InCharge, SameCharge, RunnerState
    <2>2. CASE RunnerKilled(r)
      BY <1>1, <2>2, DieType DEF RunnerKilled, InCharge
    <2>3. CASE OrphanExits(r)
      BY <1>1, <2>3 DEF OrphanExits, InCharge, DeadRunner
    <2> QED
      BY <2>1, <2>2, <2>3 DEF Environment
  <1>4. \A q \in Runners : InCharge(q)' => InCharge(q) /\ SameCharge(rp'[q], rp[q])
    BY <1>2, <1>3 DEF InCharge, SameCharge
  <1> QED
    BY <1>1, <1>4, NobodyNew DEF SameClaim

\* A state a live runner is in charge of looks alive to the dispatcher.
LEMMA InChargeRecorded ==
  ASSUME TypeInv, ChargeInv, NEW r \in Runners, InCharge(r)
  PROVE  /\ ~FromAnotherBoot(st[rp[r].job]) /\ RecordedAlive(st[rp[r].job])
         /\ st[rp[r].job].runner = r /\ Alive(r)
  BY InChargeJob DEF ChargeInv, InChargeNamed, FromAnotherBoot, RecordedAlive

\* A dispatcher gives up a running job only when nobody is in charge of it.
LEMMA AdoptOrphanCharge ==
  ASSUME TypeInv, ChargeInv, NEW j \in Jobs, AdoptOrphan(j)
  PROVE  ChargeInv'
  <1> DEFINE s == st[j]
  <1>1. /\ st \in [Jobs -> JobState] /\ rp' = rp /\ boot' = boot /\ mark = None
    BY DEF TypeInv, TypeOK, AdoptOrphan
  <1>2. \A q \in Runners : /\ InCharge(q)' => InCharge(q) /\ SameCharge(rp'[q], rp[q])
                           /\ InCharge(q) /\ rp[q].job = j => ~FromAnotherBoot(s) /\ RecordedAlive(s)
    BY <1>1, InChargeRecorded DEF InCharge, SameCharge
  <1>3. CASE st' = st /\ mark' = mark
    BY <1>1, <1>2, <1>3, NobodyNew DEF SameClaim
  <1>4. ASSUME st' = st, mark'.job = j, s.status = "running", ~RecordedAlive(s)
        PROVE  ChargeInv'
    <2>1. InChargeNamed'
      BY <1>1, <1>2, <1>4 DEF ChargeInv, InChargeNamed, SameCharge
    <2>2. MarkedAbandoned'
      BY <1>1, <1>2, <1>4 DEF MarkedAbandoned, SameCharge
    <2> QED
      BY <2>1, <2>2 DEF ChargeInv
  <1>5. CASE s.status = "running" /\ FromAnotherBoot(s)
    <2>1. RequeueAfterRestart(j) /\ ~RecordedAlive(s)
      BY <1>5 DEF AdoptOrphan, RecordedAlive
    <2>2. CASE ComesBackAfterRestart(s)
      <3>1. mark' = None /\ \A k \in Jobs \ {j} : st'[k] = st[k]
        BY <1>1, <2>1, <2>2 DEF RequeueAfterRestart
      <3> QED
        BY <1>1, <1>2, <2>1, <3>1, NobodyThere
    <2>3. CASE ~ComesBackAfterRestart(s)
      BY <1>4, <1>5, <2>1, <2>3 DEF RequeueAfterRestart
    <2> QED
      BY <2>2, <2>3
  <1>6. CASE s.status = "running" /\ ~FromAnotherBoot(s) /\ ~RecordedAlive(s)
    BY <1>4, <1>6 DEF AdoptOrphan, RunnerDied
  <1>7. CASE s.status # "running" \/ (s.status = "running" /\ RecordedAlive(s))
    BY <1>3, <1>7 DEF AdoptOrphan, RecordedAlive
  <1> QED
    BY <1>5, <1>6, <1>7

LEMMA ReapCharge ==
  ASSUME TypeInv, ChargeInv, NEW j \in Jobs, Reap(j)
  PROVE  ChargeInv'
  <1> DEFINE s == st[j]
             lostClaim == s.status = "running" /\ s.runner # running[j].runner /\ RecordedAlive(s)
  <1>1. /\ rp' = rp /\ boot' = boot /\ st' = st /\ mark = None /\ ~Alive(running[j].runner)
        /\ mark' = IF s.status = "queued" /\ s.attempt <= running[j].attempt
                   THEN RunnerDied(j, "queued")
                   ELSE IF s.status = "running" /\ ~lostClaim
                   THEN RunnerDied(j, "running")
                   ELSE None
    BY DEF Reap
  <1>2. InChargeNamed'
    BY <1>1 DEF ChargeInv, InChargeNamed, InCharge
  <1>3. MarkedAbandoned'
    <2> SUFFICES ASSUME mark' # None, mark'.expect = "running"
                 PROVE  /\ st'[mark'.job].status = "running"
                        /\ \A r \in Runners : InCharge(r)' => rp'[r].job # mark'.job
      BY DEF MarkedAbandoned
    <2>1. s.status = "running" /\ ~lostClaim /\ mark'.job = j
      BY <1>1 DEF RunnerDied
    <2>2. \A r \in Runners : InCharge(r) => rp[r].job # j
      BY <1>1, <2>1, InChargeRecorded
    <2> QED
      BY <1>1, <2>1, <2>2 DEF InCharge
  <1> QED
    BY <1>2, <1>3 DEF ChargeInv

LEMMA MarkCharge ==
  ASSUME TypeInv, ChargeInv, KillLeftovers \/ WriteMark
  PROVE  ChargeInv'
  <1>1. /\ st \in [Jobs -> JobState] /\ rp \in [Runners -> SoundRunner]
        /\ mark \in Mark /\ boot' = boot
    BY DEF TypeInv, TypeOK, KillLeftovers, WriteMark
  <1>2. CASE KillLeftovers
    <2> DEFINE s == st[mark.job]
    <2>1. st' = st /\ mark'.job = mark.job /\ mark'.expect = mark.expect /\ mark # None
      BY <1>1, <1>2 DEF KillLeftovers, Mark
    <2>2. \A q \in Runners : rp'[q] \in {rp[q], AfterKill(q)}
      BY <1>1, <1>2 DEF KillLeftovers, Mark, JobState, RunnerId
    <2>3. \A q \in Runners : InCharge(q)' => InCharge(q) /\ SameCharge(rp'[q], rp[q])
      BY <1>1, <2>2, AfterKillType DEF InCharge, SameCharge, RunnerPc
    <2> QED
      BY <1>1, <2>1, <2>3, NobodyNew DEF SameClaim
  <1>3. CASE WriteMark
    <2> DEFINE j == mark.job
    <2>1. j \in Jobs /\ mark # None /\ mark' = None /\ rp' = rp /\ mark.expect \in {"queued", "running"}
      BY <1>1, <1>3 DEF WriteMark, Mark
    <2>2. CASE st[j].status = mark.expect
      <3>1. \A k \in Jobs \ {j} : st'[k] = st[k]
        BY <1>1, <1>3, <2>1 DEF WriteMark, Finish
      <3>2. \A q \in Runners : InCharge(q) => rp[q].job # j
        <4>1. CASE mark.expect = "running"
          BY <2>1, <4>1 DEF ChargeInv, MarkedAbandoned
        <4>2. CASE mark.expect = "queued"
          BY <2>1, <2>2, <4>2, NotRunning
        <4> QED
          BY <2>1, <4>1, <4>2
      <3> QED
        BY <1>1, <2>1, <3>1, <3>2, NobodyThere
    <2>3. CASE st[j].status # mark.expect
      <3>1. st' = st
        BY <1>3, <2>3 DEF WriteMark, Finish
      <3> QED
        BY <1>1, <2>1, <3>1, NobodyNew DEF SameClaim, SameCharge, InCharge
    <2> QED
      BY <2>2, <2>3
  <1> QED
    BY <1>2, <1>3

LEMMA EscalateCharge ==
  ASSUME TypeInv, ChargeInv, NEW j \in Jobs, Escalate(j)
  PROVE  ChargeInv'
  <1>1. rp \in [Runners -> SoundRunner] /\ mark \in Mark \cup {None}
    BY DEF TypeInv, TypeOK
  <1>2. st' = st /\ mark' = mark /\ boot' = boot
    BY DEF Escalate
  <1>3. \A q \in Runners : rp'[q].pc = "dead" \/ rp'[q] \in {rp[q], AfterKill(q)}
    BY DEF Escalate, DeadRunner
  <1>4. \A q \in Runners : InCharge(q)' => InCharge(q) /\ SameCharge(rp'[q], rp[q])
    BY <1>1, <1>3, AfterKillType DEF InCharge, SameCharge, RunnerPc
  <1> QED
    BY <1>1, <1>2, <1>4, NobodyNew DEF SameClaim

LEMMA LaunchCharge ==
  ASSUME TypeInv, ChargeInv, NEW j \in Jobs, Launch(j) \/ FailQueued(j)
  PROVE  ChargeInv'
  <1>1. /\ st \in [Jobs -> JobState] /\ rp \in [Runners -> SoundRunner]
        /\ mark \in Mark \cup {None} /\ mark' = mark /\ boot' = boot
    BY DEF TypeInv, TypeOK, Launch, FailQueued
  <1>2. CASE Launch(j)
    <2>1. st' = st
      BY <1>2 DEF Launch
    <2>2. \A q \in Runners : rp'[q].pc = "starting" \/ rp'[q] = rp[q]
      <3>1. \/ rp' = rp
            \/ \E d \in plan, r \in Runners :
                 rp' = [rp EXCEPT ![r] = [DeadRunner(d.gpus) EXCEPT
                                       !.pc = "starting", !.job = j, !.attempt = d.attempt]]
        BY <1>2 DEF Launch
      <3>2. \A d \in plan :
              [DeadRunner(d.gpus) EXCEPT !.pc = "starting", !.job = j, !.attempt = d.attempt].pc = "starting"
        BY DEF DeadRunner
      <3> QED
        BY <1>1, <3>1, <3>2
    <2>3. \A q \in Runners : InCharge(q)' => InCharge(q) /\ SameCharge(rp'[q], rp[q])
      BY <2>2 DEF InCharge, SameCharge
    <2> QED
      BY <1>1, <2>1, <2>3, NobodyNew DEF SameClaim
  <1>3. CASE FailQueued(j)
    <2>1. rp' = rp /\ \A k \in Jobs \ {j} : st'[k] = st[k]
      BY <1>1, <1>3 DEF FailQueued, Finish
    <2>2. CASE st[j].status = "queued"
      BY <1>1, <2>1, <2>2, NotRunning, NobodyThere
    <2>3. CASE st[j].status # "queued"
      <3>1. st' = st
        BY <1>3, <2>3 DEF FailQueued, Finish
      <3> QED
        BY <1>1, <2>1, <3>1, NobodyNew DEF SameClaim, SameCharge, InCharge
    <2> QED
      BY <2>2, <2>3
  <1> QED
    BY <1>2, <1>3

LEMMA InnerStepCharge ==
  ASSUME TypeInv, ChargeInv,
         DispatcherStarts \/ AdoptionOver \/ ReapOver \/ ListQueue \/ Plan \/ PassOver \/ DispatcherKilled
  PROVE  ChargeInv'
  <1>1. /\ st' = st /\ rp' = rp /\ boot' = boot /\ mark' \in {mark, None}
    BY DEF DispatcherStarts, AdoptionOver, ReapOver, ListQueue, Plan, PassOver, DispatcherKilled,
           ForgetDispatcher
  <1> QED
    BY <1>1, NobodyNew DEF SameClaim, SameCharge, InCharge

LEMMA RebootCharge ==
  ASSUME Reboot
  PROVE  ChargeInv'
  <1>1. mark' = None /\ \A q \in Runners : ~InCharge(q)'
    BY DEF Reboot, ForgetDispatcher, InCharge, DeadRunner
  <1> QED
    BY <1>1 DEF ChargeInv, InChargeNamed, MarkedAbandoned

LEMMA ChargeStep ==
  ASSUME TypeInv, ChargeInv, [Next]_vars
  PROVE  ChargeInv'
  <1>1. CASE UNCHANGED vars
    BY <1>1 DEF ChargeInv, InChargeNamed, MarkedAbandoned, InCharge, vars
  <1>2. CASE Dispatcher
    BY <1>2, InnerStepCharge, AdoptOrphanCharge, ReapCharge, MarkCharge, EscalateCharge, LaunchCharge
       DEF Dispatcher
  <1> QED
    BY <1>1, <1>2, RequestCharge, RunnerCharge, EnvironmentCharge, InnerStepCharge, RebootCharge
       DEF Next

\* The compare-and-sets of queue.claim and jobs.finish are enough: however many
\* runners were spawned for a job by however many dispatchers, at most one is
\* ever in charge, on the cards and the attempt the job's state says, and no
\* dispatcher ends or requeues the job under it.
THEOREM OneRunner == Spec => []OneRunnerPerJob
  <1>1. Init => TypeInv /\ ChargeInv
    BY InitType DEF Init, ChargeInv, InChargeNamed, MarkedAbandoned, InCharge, DeadRunner
  <1>2. TypeInv /\ ChargeInv /\ [Next]_vars => TypeInv' /\ ChargeInv'
    BY TypeStep, ChargeStep
  <1>3. ChargeInv => OneRunnerPerJob
    BY DEF ChargeInv, InChargeNamed, OneRunnerPerJob
  <1> QED
    BY <1>1, <1>2, <1>3, PTL DEF Spec
-----------------------------------------------------------------------------
\* Restarts.

\* jobs.finish keeps the count of restarts.
LEMMA FinishRestarts ==
  ASSUME st \in [Jobs -> JobState], NEW j \in Jobs, NEW out, NEW expect, Finish(j, out, expect)
  PROVE  \A k \in Jobs : st'[k].restarts = st[k].restarts
  <1>1. FinishedState(st[j], out).restarts = st[j].restarts
    BY DEF FinishedState, QueuedState
  <1> QED
    BY <1>1 DEF Finish

\* No write adds to a count of restarts that has reached the limit.
LEMMA RestartsStep ==
  ASSUME TypeInv, RestartsBounded, [Next]_vars
  PROVE  RestartsBounded'
  <1> DEFINE Kept == \A k \in Jobs : st'[k].restarts = st[k].restarts \/ st'[k].restarts <= MaxRestarts
  <1>1. st \in [Jobs -> JobState] /\ mark \in Mark \cup {None} /\ rp \in [Runners -> SoundRunner]
    BY DEF TypeInv, TypeOK
  <1> SUFFICES Kept
    BY DEF RestartsBounded
  <1>2. CASE st' = st
    BY <1>2
  <1>3. ASSUME NEW j \in Jobs, NEW p \in Priorities, Enqueue(j, p)
        PROVE  Kept
    <2>1. st' = [st EXCEPT ![j] = QueuedState(1, p, 0)] /\ QueuedState(1, p, 0).restarts = 0
      BY <1>3 DEF Enqueue, QueuedState
    <2> QED
      BY <1>1, <2>1, BoundsAssumption
  <1>4. ASSUME NEW j \in Jobs, Cancel(j)
        PROVE  Kept
    <2>1. FinishedState(st[j], "cancelled").restarts = st[j].restarts
      BY DEF FinishedState, QueuedState
    <2>2. [st[j] EXCEPT !.intent = "cancel"].restarts = st[j].restarts
      BY <1>1 DEF JobState
    <2>3. \/ st' = [st EXCEPT ![j] = FinishedState(st[j], "cancelled")]
          \/ st' = [st EXCEPT ![j] = [st[j] EXCEPT !.intent = "cancel"]]
      BY <1>4 DEF Cancel
    <2>4. \A k \in Jobs : st'[k].restarts = st[k].restarts
      BY <1>1, <2>1, <2>2, <2>3
    <2> QED
      BY <2>4
  <1>5. ASSUME NEW j \in Jobs, NEW p \in Priorities, Preempt(j, p) \/ SetPriority(j, p)
        PROVE  Kept
    BY <1>1, <1>5 DEF Preempt, SetPriority, JobState
  <1>6. ASSUME NEW r \in Runners, Claim(r) \/ Publish(r) \/ PhaseOver(r) \/ Stopped(r)
                                   \/ Terminated(r) \/ BeginSync(r)
        PROVE  Kept
    <2> USE <1>1 DEF JobState
    <2>1. CASE Claim(r)
      <3> DEFINE j == rp[r].job
                 t == [st[j] EXCEPT !.status = "running", !.gpus = rp[r].gpus, !.phase = "setup",
                                    !.runner = r, !.boot = boot]
      <3>1. st' = st \/ st' = [st EXCEPT ![j] = t]
        BY <2>1 DEF Claim
      <3>2. j \in Jobs /\ st[j] \in JobState
        BY <2>1 DEF Claim, SoundRunner
      <3>3. t.restarts = st[j].restarts
        BY <3>2
      <3> HIDE DEF t
      <3>4. \A k \in Jobs : st'[k].restarts = st[k].restarts
        BY <3>1, <3>3
      <3> QED
        BY <3>4
    <2>2. CASE Publish(r)
      BY <2>2 DEF Publish
    <2>3. CASE PhaseOver(r)
      BY <2>3 DEF PhaseOver
    <2>4. CASE Stopped(r)
      BY <2>4 DEF Stopped
    <2>5. CASE Terminated(r)
      BY <2>5 DEF Terminated
    <2>6. CASE BeginSync(r)
      BY <2>6 DEF BeginSync
    <2> QED
      BY <1>6, <2>1, <2>2, <2>3, <2>4, <2>5, <2>6
  <1>7. ASSUME NEW r \in Runners, End(r)
        PROVE  Kept
    <2> DEFINE j == rp[r].job
    <2>1. j \in Jobs
      BY <1>1, <1>7 DEF End, SoundRunner
    <2>2. CASE ComesBack(r)
      <3>1. /\ st' = [st EXCEPT ![j] = QueuedState(st[j].attempt + 1, st[j].priority, st[j].restarts)]
            /\ QueuedState(st[j].attempt + 1, st[j].priority, st[j].restarts).restarts = st[j].restarts
        BY <1>7, <2>2 DEF End, QueuedState
      <3> QED
        BY <1>1, <2>1, <3>1
    <2>3. CASE ~ComesBack(r)
      BY <1>1, <1>7, <2>1, <2>3, FinishRestarts DEF End
    <2> QED
      BY <2>2, <2>3
  <1>8. ASSUME NEW j \in Jobs, AdoptOrphan(j)
        PROVE  Kept
    <2> DEFINE s == st[j]
               n == IF s.intent = "preempt" THEN s.restarts ELSE s.restarts + 1
    <2>1. CASE RequeueAfterRestart(j) /\ ComesBackAfterRestart(s)
      <3>1. /\ st' = [st EXCEPT ![j] = QueuedState(s.attempt + 1, s.priority, n)]
            /\ QueuedState(s.attempt + 1, s.priority, n).restarts = n
        BY <2>1 DEF RequeueAfterRestart, QueuedState
      <3>2. s.restarts \in Nat /\ (s.intent # "preempt" => s.restarts < MaxRestarts)
        BY <1>1, <2>1 DEF ComesBackAfterRestart, JobState
      <3>3. n = s.restarts \/ n <= MaxRestarts
        BY <3>2, BoundsAssumption
      <3> QED
        BY <1>1, <3>1, <3>3
    <2>2. CASE ~(RequeueAfterRestart(j) /\ ComesBackAfterRestart(s))
      BY <1>2, <1>8, <2>2 DEF AdoptOrphan, RequeueAfterRestart
    <2> QED
      BY <2>1, <2>2
  <1>9. CASE WriteMark
    <2>1. mark.job \in Jobs /\ Finish(mark.job, mark.out, mark.expect)
      BY <1>1, <1>9 DEF WriteMark, Mark
    <2> QED
      BY <1>1, <2>1, FinishRestarts
  <1>10. ASSUME NEW j \in Jobs, FailQueued(j)
         PROVE  Kept
    BY <1>1, <1>10, FinishRestarts DEF FailQueued
  <1>11. CASE Request
    BY <1>3, <1>4, <1>5, <1>11 DEF Request
  <1>12. ASSUME NEW r \in Runners, Runner(r)
         PROVE  Kept
    BY <1>2, <1>6, <1>7, <1>12 DEF Runner, RefusePhase, StoppedBefore, SpawnPhase, SeeStop, Synced, Exit
  <1>13. CASE Dispatcher
    BY <1>2, <1>8, <1>9, <1>10, <1>13
       DEF Dispatcher, DispatcherStarts, AdoptionOver, KillLeftovers, ReapOver, ListQueue, Plan,
           PassOver, Reap, Escalate, Launch
  <1>14. ASSUME NEW r \in Runners, Environment(r)
         PROVE  Kept
    BY <1>2, <1>14 DEF Environment, PhaseExits, RunnerKilled, OrphanExits
  <1>15. CASE DispatcherKilled \/ Reboot \/ UNCHANGED vars
    BY <1>2, <1>15 DEF DispatcherKilled, Reboot, vars
  <1> QED
    BY <1>11, <1>12, <1>13, <1>14, <1>15 DEF Next

\* queue.requeue_after_restart: however often the host goes down, and whichever
\* of its attempts were preempted in between, a job is given at most
\* MAX_RESTARTS new attempts for that reason.
THEOREM RestartsAreBounded == Spec => []RestartsBounded
  <1>1. Init => TypeInv /\ RestartsBounded
    BY InitType, BoundsAssumption DEF Init, RestartsBounded, QueuedState
  <1>2. TypeInv /\ RestartsBounded /\ [Next]_vars => TypeInv' /\ RestartsBounded'
    BY TypeStep, RestartsStep
  <1> QED
    BY <1>1, <1>2, PTL DEF Spec

-----------------------------------------------------------------------------
(* HostQueue implements JobLifecycle: the life of a job as its submitter   *)
(* sees it survives runners that die, hosts that restart and dispatchers   *)
(* that are replaced.                                                      *)

\* A stop is asked of running jobs only.
AskedWhileRunning == \A j \in Jobs : st[j].intent # "none" => st[j].status = "running"

\* What a step may make of one job's state, in the lifecycle's terms.
Accepted(s, t) == s.status = "absent" /\ t.status = "queued" /\ t.attempt = 1 /\ t.intent = "none"
Begun(s, t) ==
  s.status = "queued" /\ t.status = "running" /\ t.attempt = s.attempt /\ t.intent = s.intent
Doomed(s, t) ==
  s.status = "running" /\ t.status = "running" /\ t.attempt = s.attempt /\ t.intent = "cancel"
QueuedAgain(s, t) ==
  /\ s.status = "running" /\ s.intent # "cancel"
  /\ t.status = "queued" /\ t.attempt = s.attempt + 1 /\ t.intent = "none"
IsOver(s, t) ==
  /\ s.status \in {"queued", "running"}
  /\ t.status \in Finished /\ t.attempt = s.attempt /\ t.intent = "none"
LooksTheSame(s, t) ==
  t.status = s.status /\ t.attempt = s.attempt /\ (t.intent = "cancel" <=> s.intent = "cancel")
                      /\ (t.intent # "none" => s.status = "running")

Lives(s, t) ==
  \/ Accepted(s, t) \/ Begun(s, t) \/ Doomed(s, t) \/ QueuedAgain(s, t) \/ IsOver(s, t)
  \/ LooksTheSame(s, t)

\* One step touches the life of one job.
OneLife == \E j \in Jobs : Lives(st[j], st'[j]) /\ st' = [st EXCEPT ![j] = st'[j]]

-----------------------------------------------------------------------------
\* A step in the life of one job is a step of the lifecycle.
LEMMA OneLifeIsAStep ==
  ASSUME st \in [Jobs -> JobState], AskedWhileRunning, OneLife
  PROVE  (Lifecycle!Next \/ UNCHANGED Lifecycle!vars) /\ AskedWhileRunning'
  <1>1. PICK j \in Jobs : Lives(st[j], st'[j]) /\ st' = [st EXCEPT ![j] = st'[j]]
    BY DEF OneLife
  <1> DEFINE s == st[j]
             t == st'[j]
  <1>2. \A k \in Jobs \ {j} : st'[k] = st[k]
    BY <1>1
  <1>3. AskedWhileRunning'
    BY <1>1, <1>2 DEF AskedWhileRunning, Lives, Accepted, Begun, Doomed, QueuedAgain, IsOver, LooksTheSame
  <1>4. s.status # "running" => s.intent = "none"
    BY DEF AskedWhileRunning
  <1>5. CASE Accepted(s, t)
    <2>1. Lifecycle!Accept(j)
      BY <1>2, <1>4, <1>5 DEF Lifecycle!Accept, Accepted, Finished
    <2> QED
      BY <1>3, <2>1 DEF Lifecycle!Next
  <1>6. CASE Begun(s, t)
    <2>1. Lifecycle!Begin(j)
      BY <1>2, <1>6 DEF Lifecycle!Begin, Begun, Finished
    <2> QED
      BY <1>3, <2>1 DEF Lifecycle!Next
  <1>7. CASE Doomed(s, t)
    <2>1. Lifecycle!Doom(j)
      BY <1>2, <1>7 DEF Lifecycle!Doom, Doomed, Finished
    <2> QED
      BY <1>3, <2>1 DEF Lifecycle!Next
  <1>8. CASE QueuedAgain(s, t)
    <2>1. Lifecycle!Again(j)
      BY <1>2, <1>8 DEF Lifecycle!Again, QueuedAgain, Finished
    <2> QED
      BY <1>3, <2>1 DEF Lifecycle!Next
  <1>9. CASE IsOver(s, t)
    <2>1. Lifecycle!Over(j)
      BY <1>2, <1>9 DEF Lifecycle!Over, IsOver, Finished
    <2> QED
      BY <1>3, <2>1 DEF Lifecycle!Next
  <1>10. CASE LooksTheSame(s, t)
    <2>1. UNCHANGED Lifecycle!vars
      BY <1>2, <1>10 DEF Lifecycle!vars, LooksTheSame
    <2> QED
      BY <1>3, <2>1
  <1> QED
    BY <1>1, <1>5, <1>6, <1>7, <1>8, <1>9, <1>10 DEF Lives
-----------------------------------------------------------------------------
\* Every step is a step in the life of at most one job.

\* jobs.finish ends a job that has begun, or does nothing.
LEMMA FinishLife ==
  ASSUME st \in [Jobs -> JobState], NEW j \in Jobs, NEW out \in Finished,
         NEW expect \in {"queued", "running"}, Finish(j, out, expect)
  PROVE  OneLife \/ st' = st
  <1>1. CASE st[j].status = expect
    <2>1. st' = [st EXCEPT ![j] = FinishedState(st[j], out)]
      BY <1>1 DEF Finish
    <2>2. IsOver(st[j], st'[j])
      BY <1>1, <2>1 DEF IsOver, FinishedState, QueuedState
    <2> QED
      BY <2>1, <2>2 DEF OneLife, Lives
  <1>2. CASE st[j].status # expect
    BY <1>2 DEF Finish
  <1> QED
    BY <1>1, <1>2

LEMMA RequestLife ==
  ASSUME TypeInv, AskedWhileRunning, Request
  PROVE  OneLife
  <1>1. PICK j \in Jobs : Cancel(j) \/ \E p \in Priorities : Enqueue(j, p) \/ Preempt(j, p) \/ SetPriority(j, p)
    BY DEF Request
  <1>2. st \in [Jobs -> JobState] /\ st[j] \in JobState
    BY DEF TypeInv, TypeOK
  <1> USE <1>2 DEF OneLife, Lives
  <1>3. CASE Cancel(j) /\ st[j].status = "queued"
    <2>1. st' = [st EXCEPT ![j] = FinishedState(st[j], "cancelled")]
      BY <1>3 DEF Cancel
    <2>2. IsOver(st[j], st'[j])
      BY <1>3, <2>1 DEF IsOver, FinishedState, QueuedState, Finished
    <2> QED
      BY <2>1, <2>2
  <1>4. CASE Cancel(j) /\ st[j].status = "running"
    <2>1. st' = [st EXCEPT ![j] = [st[j] EXCEPT !.intent = "cancel"]]
      BY <1>4 DEF Cancel
    <2>2. Doomed(st[j], st'[j])
      BY <1>4, <2>1 DEF Doomed, JobState
    <2> QED
      BY <2>1, <2>2
  <1>5. ASSUME NEW p \in Priorities, Enqueue(j, p)
        PROVE  OneLife
    <2>1. st' = [st EXCEPT ![j] = QueuedState(1, p, 0)] /\ st[j].status = "absent"
      BY <1>5 DEF Enqueue
    <2>2. Accepted(st[j], st'[j])
      BY <2>1 DEF Accepted, QueuedState
    <2> QED
      BY <2>1, <2>2
  <1>6. ASSUME NEW p \in Priorities, Preempt(j, p)
        PROVE  OneLife
    <2>1. /\ st' = [st EXCEPT ![j] = [st[j] EXCEPT !.intent = "preempt", !.priority = p]]
          /\ st[j].status = "running" /\ st[j].intent # "cancel"
      BY <1>6 DEF Preempt, MayPreempt
    <2>2. LooksTheSame(st[j], st'[j])
      BY <2>1 DEF LooksTheSame, JobState
    <2> QED
      BY <2>1, <2>2
  <1>7. ASSUME NEW p \in Priorities, SetPriority(j, p)
        PROVE  OneLife
    <2>1. /\ st' = [st EXCEPT ![j] = [st[j] EXCEPT !.priority = p]]
          /\ st[j].status = "queued" /\ st[j].intent = "none"
      BY <1>7 DEF SetPriority, AskedWhileRunning
    <2>2. LooksTheSame(st[j], st'[j])
      BY <2>1 DEF LooksTheSame, JobState
    <2> QED
      BY <2>1, <2>2
  <1> QED
    BY <1>1, <1>3, <1>4, <1>5, <1>6, <1>7 DEF Cancel

LEMMA RunnerLife ==
  ASSUME TypeInv, ChargeInv, AskedWhileRunning, NEW r \in Runners, Runner(r)
  PROVE  OneLife \/ st' = st
  <1> DEFINE j == rp[r].job
  <1>1. /\ st \in [Jobs -> JobState] /\ rp \in [Runners -> SoundRunner]
        /\ rp[r] \in RunnerState /\ (rp[r].pc # "dead" => j \in Jobs /\ st[j] \in JobState)
    BY DEF TypeInv, TypeOK, SoundRunner
  <1>2. CASE RefusePhase(r) \/ StoppedBefore(r) \/ SpawnPhase(r) \/ SeeStop(r)
             \/ (\E lost \in BOOLEAN : Synced(r, lost)) \/ Exit(r) \/ (Claim(r) /\ ~MayClaim(r))
    BY <1>2 DEF RefusePhase, StoppedBefore, SpawnPhase, SeeStop, Synced, Exit, Claim
  <1>3. CASE Claim(r) /\ MayClaim(r)
    <2>1. /\ j \in Jobs /\ st[j] \in JobState /\ st[j].status = "queued"
          /\ st' = [st EXCEPT ![j] = [st[j] EXCEPT !.status = "running", !.gpus = rp[r].gpus,
                                        !.phase = "setup", !.runner = r, !.boot = boot]]
      BY <1>1, <1>3 DEF Claim, MayClaim
    <2>2. Begun(st[j], st'[j])
      BY <1>1, <2>1 DEF Begun, JobState
    <2> QED
      BY <1>1, <2>1, <2>2 DEF OneLife, Lives
  <1>4. CASE Publish(r) \/ PhaseOver(r) \/ Stopped(r) \/ Terminated(r) \/ BeginSync(r)
    <2>1. InCharge(r)
      BY <1>4 DEF Publish, PhaseOver, Stopped, Terminated, BeginSync, InCharge, RunnerPc
    <2>2. j \in Jobs /\ st[j] \in JobState /\ st[j].status = "running"
      BY <2>1, InChargeJob DEF ChargeInv, InChargeNamed
    <2>3. \/ st' = [st EXCEPT ![j] = [st[j] EXCEPT !.phase = Phases[rp[r].step], !.pgid = r]]
          \/ st' = [st EXCEPT ![j] = [st[j] EXCEPT !.pgid = None]]
          \/ st' = [st EXCEPT ![j] = [st[j] EXCEPT !.phase = "sync"]]
      BY <1>4 DEF Publish, PhaseOver, Stopped, Terminated, BeginSync
    <2>4. /\ st'[j].status = st[j].status /\ st'[j].attempt = st[j].attempt
          /\ st'[j].intent = st[j].intent
      <3> USE <1>1, <2>2 DEF JobState
      <3>1. CASE st' = [st EXCEPT ![j] = [st[j] EXCEPT !.phase = Phases[rp[r].step], !.pgid = r]]
        BY <3>1
      <3>2. CASE st' = [st EXCEPT ![j] = [st[j] EXCEPT !.pgid = None]]
        BY <3>2
      <3>3. CASE st' = [st EXCEPT ![j] = [st[j] EXCEPT !.phase = "sync"]]
        BY <3>3
      <3> QED
        BY <2>3, <3>1, <3>2, <3>3
    <2>5. st' = [st EXCEPT ![j] = st'[j]]
      BY <1>1, <2>2, <2>3
    <2> QED
      BY <2>2, <2>4, <2>5 DEF OneLife, Lives, LooksTheSame
  <1>5. CASE End(r)
    <2>1. rp[r].pc = "ending" /\ j \in Jobs /\ st[j] \in JobState
      BY <1>1, <1>5 DEF End
    <2>2. CASE ComesBack(r)
      <3>1. /\ st' = [st EXCEPT ![j] = QueuedState(st[j].attempt + 1, st[j].priority, st[j].restarts)]
            /\ st[j].status = "running" /\ st[j].intent = "preempt"
        BY <1>5, <2>2 DEF End, ComesBack
      <3>2. QueuedAgain(st[j], st'[j])
        BY <1>1, <2>1, <3>1 DEF QueuedAgain, QueuedState
      <3> QED
        BY <1>1, <2>1, <3>1, <3>2 DEF OneLife, Lives
    <2>3. CASE ~ComesBack(r)
      <3>1. FinalStatus(rp[r].out, st[j].intent) \in Finished
        BY <1>1, <2>1, FinalStatusType DEF SoundRunner, RunnerState
      <3>2. Finish(j, FinalStatus(rp[r].out, st[j].intent), "running")
        BY <1>5, <2>3 DEF End
      <3> QED
        BY <1>1, <2>1, <3>1, <3>2, FinishLife
    <2> QED
      BY <2>2, <2>3
  <1> QED
    BY <1>2, <1>3, <1>4, <1>5 DEF Runner

LEMMA DispatcherLife ==
  ASSUME TypeInv, Dispatcher
  PROVE  OneLife \/ st' = st
  <1>1. st \in [Jobs -> JobState] /\ mark \in Mark \cup {None}
    BY DEF TypeInv, TypeOK
  <1>2. CASE WriteMark
    <2>1. /\ mark.job \in Jobs /\ mark.out \in Finished /\ mark.expect \in {"queued", "running"}
          /\ Finish(mark.job, mark.out, mark.expect)
      BY <1>1, <1>2 DEF WriteMark, Mark, Finished
    <2> QED
      BY <1>1, <2>1, FinishLife
  <1>3. ASSUME NEW j \in Jobs, FailQueued(j)
        PROVE  OneLife \/ st' = st
    BY <1>1, <1>3, FinishLife DEF FailQueued, Finished
  <1>4. ASSUME NEW j \in Jobs, AdoptOrphan(j)
        PROVE  OneLife \/ st' = st
    <2> DEFINE s == st[j]
    <2>1. CASE s.status = "running" /\ FromAnotherBoot(s) /\ ComesBackAfterRestart(s)
      <3>1. RequeueAfterRestart(j)
        BY <1>4, <2>1 DEF AdoptOrphan, RecordedAlive
      <3>2. st' = [st EXCEPT ![j] = QueuedState(s.attempt + 1, s.priority,
                                      IF s.intent = "preempt" THEN s.restarts ELSE s.restarts + 1)]
        BY <2>1, <3>1 DEF RequeueAfterRestart
      <3>3. s.intent # "cancel"
        BY <2>1 DEF ComesBackAfterRestart
      <3>4. QueuedAgain(st[j], st'[j])
        BY <1>1, <2>1, <3>2, <3>3 DEF QueuedAgain, QueuedState
      <3> QED
        BY <1>1, <3>2, <3>4 DEF OneLife, Lives
    <2>2. CASE ~(s.status = "running" /\ FromAnotherBoot(s) /\ ComesBackAfterRestart(s))
      BY <1>4, <2>2 DEF AdoptOrphan, RequeueAfterRestart
    <2> QED
      BY <2>1, <2>2
  <1>5. CASE \/ DispatcherStarts \/ AdoptionOver \/ KillLeftovers \/ ReapOver \/ ListQueue \/ Plan
             \/ PassOver \/ \E j \in Jobs : Reap(j) \/ Escalate(j) \/ Launch(j)
    BY <1>5 DEF DispatcherStarts, AdoptionOver, KillLeftovers, ReapOver, ListQueue, Plan, PassOver,
                Reap, Escalate, Launch
  <1> QED
    BY <1>2, <1>3, <1>4, <1>5 DEF Dispatcher

LEMMA EveryStepIsALife ==
  ASSUME TypeInv, ChargeInv, AskedWhileRunning, [Next]_vars
  PROVE  OneLife \/ st' = st
  <1>1. ASSUME NEW r \in Runners, Environment(r)
        PROVE  st' = st
    BY <1>1 DEF Environment, PhaseExits, RunnerKilled, OrphanExits
  <1>2. CASE DispatcherKilled \/ Reboot \/ UNCHANGED vars
    BY <1>2 DEF DispatcherKilled, Reboot, vars
  <1> QED
    BY <1>1, <1>2, RequestLife, RunnerLife, DispatcherLife DEF Next

\* queue.py, jobs.finish, the runner and the dispatcher implement the lifecycle
\* a submitter is promised: attempts are numbered and begun one after another,
\* a job somebody is cancelling never comes back, and a job that is over stays
\* over, whatever dies, restarts or is replaced.
THEOREM Refinement == Spec => ImplementsLifecycle
  <1> DEFINE Inv == TypeInv /\ ChargeInv /\ AskedWhileRunning
  <1>1. Init => Inv
    <2>1. Init => TypeInv /\ ChargeInv
      BY InitType DEF Init, ChargeInv, InChargeNamed, MarkedAbandoned, InCharge, DeadRunner
    <2>2. Init => AskedWhileRunning
      BY DEF Init, AskedWhileRunning, QueuedState
    <2> QED
      BY <2>1, <2>2
  <1>2. Init => Lifecycle!Init
    <2> SUFFICES ASSUME Init PROVE Lifecycle!Init
      OBVIOUS
    <2>1. \A j \in Jobs : st[j].status = "absent" /\ st[j].attempt = 0 /\ st[j].intent = "none"
      BY DEF Init, QueuedState
    <2> QED
      BY <2>1 DEF Lifecycle!Init, Finished
  <1>3. Inv /\ [Next]_vars => Inv' /\ [Lifecycle!Next]_(Lifecycle!vars)
    <2> SUFFICES ASSUME Inv, [Next]_vars
                 PROVE  AskedWhileRunning' /\ [Lifecycle!Next]_(Lifecycle!vars)
      BY TypeStep, ChargeStep
    <2>1. CASE OneLife
      BY <2>1, OneLifeIsAStep DEF TypeInv, TypeOK
    <2>2. CASE st' = st
      BY <2>2 DEF AskedWhileRunning, Lifecycle!vars
    <2> QED
      BY <2>1, <2>2, EveryStepIsALife
  <1> QED
    BY <1>1, <1>2, <1>3, PTL DEF Spec, ImplementsLifecycle, Lifecycle!Spec

-----------------------------------------------------------------------------
(***************************************************************************)
(* Whose the cards of a host are: what a card that is handed out, or said  *)
(* to be free, means for the processes on it, and that somebody looks      *)
(* after every running job.  Each theorem names the promptness it needs.   *)
(***************************************************************************)
\* Phases and the states that publish them.

\* Only a runner that has spawned its phase and not yet seen the end of it has
\* live processes.
ProcIsWatched ==
  \A r \in Runners : proc[r] /\ Alive(r) => rp[r].pc \in {"spawned", "watching", "stopping"}

\* A runner that watches its phase, or stops it, has published it.
Published ==
  \A r \in Runners : rp[r].pc \in {"watching", "stopping"} => st[rp[r].job].pgid = r

\* A job's state names, and publishes, its own runner, and a group is published
\* once.
GroupIsOwn ==
  /\ \A j \in Jobs, r \in Runners : r \in {st[j].pgid, st[j].runner} /\ Alive(r) => rp[r].job = j
  /\ \A j, k \in Jobs : st[j].pgid \in Runners /\ st[j].pgid = st[k].pgid => j = k

\* The job's state says all there is to know of runner r and its phase.
Tells(j, r) ==
  /\ st[j].status = "running" /\ st[j].pgid = r /\ st[j].runner = r
  /\ st[j].gpus = rp[r].gpus /\ st[j].boot = boot

\* What a dead runner left running is named by a job that is still `running`.
OrphanNamed == \A r \in Runners : proc[r] /\ ~Alive(r) => \E j \in Jobs : Tells(j, r)

\* Nothing is left of a job that a dispatcher is about to end for its runner.
MarkKilled ==
  mark # None /\ mark.step = "write" /\ mark.expect = "running" =>
    \A r \in Runners : proc[r] => st[mark.job].pgid # r

PhaseInv == ProcIsWatched /\ Published /\ GroupIsOwn /\ OrphanNamed /\ MarkKilled

\* Steps that publish nothing and spawn nothing.
LEMMA NothingSpawned ==
  ASSUME TypeInv, PhaseInv, boot' = boot,
         \A k \in Jobs : st'[k].pgid \in {st[k].pgid, None},
         \A k \in Jobs : \/ st'[k].runner \in {st[k].runner, None}
                       \/ \A r \in Runners : st'[k].runner = r /\ Alive(r)' => rp'[r].job = k,
         \A r \in Runners : proc'[r] => proc[r],
         \A r \in Runners : Alive(r)' =>
           \/ /\ rp'[r].pc = "starting" /\ ~proc'[r]
              /\ \A k \in Jobs : st[k].pgid # r /\ st[k].runner # r
           \/ /\ Alive(r) /\ rp'[r].job = rp[r].job
              /\ rp'[r].pc \in {"watching", "stopping"} =>
                   rp[r].pc \in {"watching", "stopping"} /\ st'[rp[r].job].pgid = st[rp[r].job].pgid
              /\ proc'[r] => rp'[r].pc \in {"spawned", "watching", "stopping"},
         OrphanNamed', mark' \in {mark, None} \/ MarkKilled'
  PROVE  PhaseInv'
  <1> USE NoneAssumption
  <1>1. ProcIsWatched'
    BY DEF ProcIsWatched
  <1>2. Published'
    BY DEF Published, PhaseInv, Alive
  <1>3. GroupIsOwn'
    <2>1. ASSUME NEW j \in Jobs, NEW r \in Runners, r \in {st'[j].pgid, st'[j].runner}, Alive(r)'
          PROVE  rp'[r].job = j
      BY <2>1 DEF PhaseInv, GroupIsOwn
    <2>2. ASSUME NEW j \in Jobs, NEW k \in Jobs, st'[j].pgid \in Runners, st'[j].pgid = st'[k].pgid
          PROVE  j = k
      BY <2>2 DEF PhaseInv, GroupIsOwn
    <2> QED
      BY <2>1, <2>2 DEF GroupIsOwn
  <1>4. MarkKilled'
    <2>1. CASE mark' = mark
      <3>1. mark # None => mark.job \in Jobs
        BY DEF TypeInv, TypeOK, Mark
      <3> QED
        BY <2>1, <3>1 DEF PhaseInv, MarkKilled
    <2> QED
      BY <2>1 DEF MarkKilled
  <1> QED
    BY <1>1, <1>2, <1>3, <1>4 DEF PhaseInv

\* An orphan that is left alone keeps the job that tells of it.
LEMMA OrphanKept ==
  ASSUME PhaseInv, boot' = boot,
         \A r \in Runners : proc'[r] /\ ~Alive(r)' =>
           /\ proc[r] /\ ~Alive(r) /\ rp'[r].gpus = rp[r].gpus
           /\ \A j \in Jobs : Tells(j, r) => SameClaim(st'[j], st[j]) /\ st'[j].pgid = st[j].pgid
  PROVE  OrphanNamed'
  BY DEF PhaseInv, OrphanNamed, Tells, SameClaim

\* A state that is queued or finished names and publishes nobody.
LEMMA UnpublishedState ==
  ASSUME NEW s, NEW out, NEW n, NEW p, NEW k
  PROVE  /\ QueuedState(n, p, k).pgid = None /\ QueuedState(n, p, k).runner = None
         /\ FinishedState(s, out).pgid = None /\ FinishedState(s, out).runner = None
  BY DEF QueuedState, FinishedState

\* Steps that write the state of one job that no orphan is named by.
LEMMA OneStateWritten ==
  ASSUME TypeInv, PhaseInv, NEW j \in Jobs, UNCHANGED <<rp, proc, boot>>, mark' \in {mark, None},
         \A k \in Jobs \ {j} : st'[k] = st[k],
         \/ /\ \A r \in Runners : ~Tells(j, r) /\ (InCharge(r) => rp[r].job # j)
            /\ st'[j].pgid = None /\ st'[j].runner = None
         \/ SameClaim(st'[j], st[j]) /\ st'[j].pgid = st[j].pgid
  PROVE  PhaseInv'
  <1>1. \A r \in Runners : Alive(r)' <=> Alive(r)
    BY DEF Alive
  <1>2. OrphanNamed'
    BY <1>1, OrphanKept DEF SameClaim
  <1>3. \A r \in Runners : rp[r].pc \in {"watching", "stopping"} => InCharge(r)
    BY DEF InCharge, RunnerPc
  <1>4. \A r \in Runners : InCharge(r) => rp[r].job \in Jobs
    BY InChargeJob
  <1>5. \A r \in Runners : proc[r] /\ Alive(r) => rp[r].pc \in {"spawned", "watching", "stopping"}
    BY DEF PhaseInv, ProcIsWatched
  <1> QED
    BY <1>1, <1>2, <1>3, <1>4, <1>5, NothingSpawned DEF SameClaim

LEMMA RequestPhase ==
  ASSUME TypeInv, ChargeInv, PhaseInv, Request
  PROVE  PhaseInv'
  <1>1. PICK j \in Jobs : Cancel(j) \/ \E p \in Priorities : Enqueue(j, p) \/ Preempt(j, p) \/ SetPriority(j, p)
    BY DEF Request
  <1>2. /\ st \in [Jobs -> JobState] /\ UNCHANGED <<rp, proc, boot, mark>>
        /\ \A k \in Jobs \ {j} : st'[k] = st[k]
    BY <1>1 DEF TypeInv, TypeOK, Cancel, Enqueue, Preempt, SetPriority, dvars
  <1>3. CASE st[j].status # "running" /\ st'[j].pgid = None /\ st'[j].runner = None
    BY <1>2, <1>3, NotRunning, OneStateWritten DEF Tells
  <1>4. CASE SameClaim(st'[j], st[j]) /\ st'[j].pgid = st[j].pgid
    BY <1>2, <1>4, OneStateWritten
  <1>5. CASE Cancel(j)
    <2>1. CASE st[j].status = "queued"
      BY <1>2, <1>3, <1>5, <2>1, UnpublishedState DEF Cancel
    <2>2. CASE st[j].status = "running"
      BY <1>2, <1>4, <1>5, <2>2 DEF Cancel, JobState, SameClaim
    <2> QED
      BY <1>5, <2>1, <2>2 DEF Cancel
  <1>6. ASSUME NEW p \in Priorities, Enqueue(j, p)
        PROVE  PhaseInv'
    BY <1>2, <1>3, <1>6, UnpublishedState DEF Enqueue
  <1>7. ASSUME NEW p \in Priorities, Preempt(j, p) \/ SetPriority(j, p)
        PROVE  PhaseInv'
    BY <1>2, <1>4, <1>7 DEF Preempt, SetPriority, JobState, SameClaim
  <1> QED
    BY <1>1, <1>5, <1>6, <1>7

\* A runner that has its job to itself, or leaves the states alone, goes on to do
\* anything but spawn or publish a phase.
LEMMA RunnerMoved ==
  ASSUME TypeInv, ChargeInv, PhaseInv, NEW r \in Runners, rp[r].job \in Jobs, Alive(r),
         boot' = boot, mark' = mark,
         \A q \in Runners \ {r} : rp'[q] = rp[q] /\ proc'[q] = proc[q],
         \A k \in Jobs \ {rp[r].job} : st'[k] = st[k],
         st'[rp[r].job].pgid \in {st[rp[r].job].pgid, None},
         st'[rp[r].job].runner \in {st[rp[r].job].runner, r, None},
         InCharge(r) \/ st' = st \/ st[rp[r].job].status # "running",
         proc'[r] => proc[r] /\ rp'[r].pc \in {"spawned", "watching", "stopping"},
         rp'[r].pc # "dead" => rp'[r].job = rp[r].job,
         rp'[r].pc \in {"watching", "stopping"} =>
           rp[r].pc \in {"watching", "stopping"} /\ st'[rp[r].job].pgid = st[rp[r].job].pgid
  PROVE  PhaseInv'
  <1> DEFINE j == rp[r].job
  <1>1. \A q \in Runners \ {r} : InCharge(q) => rp[q].job # j \/ st' = st
    BY DEF ChargeInv, InChargeNamed
  <1>2. \A q \in Runners \ {r} : Tells(j, q) => st' = st
    BY DEF ChargeInv, InChargeNamed, Tells
  <1>3. \A q \in Runners : rp[q].pc \in {"watching", "stopping"} => InCharge(q) /\ rp[q].job \in Jobs
    BY InChargeJob DEF InCharge, RunnerPc
  <1>4. \A q \in Runners \ {r} : Alive(q)' <=> Alive(q)
    BY DEF Alive
  <1>5. ~(proc'[r] /\ ~Alive(r)')
    BY DEF Alive
  <1>6. OrphanNamed'
    BY <1>2, <1>4, <1>5, OrphanKept DEF SameClaim
  <1>7. \A q \in Runners : proc[q] /\ Alive(q) => rp[q].pc \in {"spawned", "watching", "stopping"}
    BY DEF PhaseInv, ProcIsWatched
  <1>8. \A k \in Jobs : /\ st'[k].pgid \in {st[k].pgid, None}
                        /\ \/ st'[k].runner \in {st[k].runner, None}
                           \/ \A q \in Runners : st'[k].runner = q /\ Alive(q)' => rp'[q].job = k
    BY DEF Alive
  <1>9. \A q \in Runners : Alive(q)' =>
           /\ Alive(q) /\ rp'[q].job = rp[q].job
           /\ rp'[q].pc \in {"watching", "stopping"} =>
                rp[q].pc \in {"watching", "stopping"} /\ st'[rp[q].job].pgid = st[rp[q].job].pgid
           /\ proc'[q] => rp'[q].pc \in {"spawned", "watching", "stopping"}
    BY <1>1, <1>3, <1>4, <1>7 DEF Alive
  <1> QED
    BY <1>6, <1>8, <1>9, NothingSpawned

\* The processes of a phase are its own runner's business: who has none of them
\* is a runner that is not running one.
LEMMA NoProc ==
  ASSUME PhaseInv, NEW r \in Runners, Alive(r), rp[r].pc \notin {"spawned", "watching", "stopping"}
  PROVE  ~proc[r]
  BY DEF PhaseInv, ProcIsWatched

LEMMA SpawnPhasePhase ==
  ASSUME TypeInv, ChargeInv, PhaseInv, NEW r \in Runners, SpawnPhase(r)
  PROVE  PhaseInv'
  <1>1. /\ rp \in [Runners -> SoundRunner] /\ proc \in [Runners -> BOOLEAN]
        /\ UNCHANGED <<st, boot, mark>>
        /\ rp[r].pc = "between" /\ rp' = [rp EXCEPT ![r].pc = "spawned"]
        /\ proc' = [proc EXCEPT ![r] = TRUE]
    BY DEF TypeInv, TypeOK, SpawnPhase, dvars
  <1>2. /\ \A q \in Runners \ {r} : rp'[q] = rp[q] /\ proc'[q] = proc[q]
        /\ rp'[r].pc = "spawned" /\ rp'[r].job = rp[r].job
    BY <1>1 DEF SoundRunner, RunnerState
  <1>3. InCharge(r) /\ Alive(r) /\ Alive(r)'
    BY <1>1, <1>2 DEF InCharge, RunnerPc, Alive
  <1>4. ProcIsWatched' /\ Published' /\ GroupIsOwn'
    BY <1>1, <1>2, <1>3 DEF PhaseInv, ProcIsWatched, Published, GroupIsOwn, Alive
  <1>5. OrphanNamed'
    BY <1>1, <1>2, <1>3, OrphanKept DEF SameClaim, Alive
  <1>6. MarkKilled'
    <2>1. mark # None /\ mark.expect = "running" => mark.job \in Jobs /\ rp[r].job # mark.job
      BY <1>3 DEF ChargeInv, MarkedAbandoned, TypeInv, TypeOK, Mark
    <2> QED
      BY <1>1, <1>2, <1>3, <2>1 DEF PhaseInv, MarkKilled, GroupIsOwn
  <1> QED
    BY <1>4, <1>5, <1>6 DEF PhaseInv

LEMMA PublishPhase ==
  ASSUME TypeInv, ChargeInv, PhaseInv, NEW r \in Runners, Publish(r)
  PROVE  PhaseInv'
  <1> DEFINE j == rp[r].job
  <1>1. /\ st \in [Jobs -> JobState] /\ rp \in [Runners -> SoundRunner]
        /\ UNCHANGED <<proc, boot, mark>>
        /\ rp[r].pc = "spawned" /\ rp' = [rp EXCEPT ![r].pc = "watching"]
        /\ st' = [st EXCEPT ![j].phase = Phases[rp[r].step], ![j].pgid = r]
    BY DEF TypeInv, TypeOK, Publish, dvars
  <1>2. InCharge(r) /\ Alive(r) /\ j \in Jobs
    BY <1>1, InChargeJob DEF InCharge, RunnerPc
  <1>3. /\ \A q \in Runners \ {r} : rp'[q] = rp[q]
        /\ rp'[r].pc = "watching" /\ rp'[r].job = j /\ rp'[r].gpus = rp[r].gpus
    BY <1>1 DEF SoundRunner, RunnerState
  <1>4. /\ \A k \in Jobs \ {j} : st'[k] = st[k]
        /\ st'[j].pgid = r /\ SameClaim(st'[j], st[j])
    BY <1>1, <1>2 DEF JobState, SameClaim
  <1>5. \A q \in Runners \ {r} : (InCharge(q) => rp[q].job # j) /\ ~Tells(j, q)
    BY <1>2 DEF ChargeInv, InChargeNamed, Tells
  <1>6. \A q \in Runners : Alive(q)' <=> Alive(q)
    BY <1>1, <1>3 DEF Alive
  <1>7. ProcIsWatched'
    BY <1>1, <1>3, <1>6 DEF PhaseInv, ProcIsWatched
  <1>8. Published'
    <2>1. \A q \in Runners : rp[q].pc \in {"watching", "stopping"} => InCharge(q) /\ rp[q].job \in Jobs
      BY InChargeJob DEF InCharge, RunnerPc
    <2> QED
      BY <1>3, <1>4, <1>5, <2>1 DEF PhaseInv, Published
  <1>9. GroupIsOwn'
    <2>1. \A k \in Jobs : st[k].pgid = r => k = j
      BY <1>2 DEF PhaseInv, GroupIsOwn
    <2>2. \A k \in Jobs, q \in Runners : q \in {st'[k].pgid, st'[k].runner} /\ Alive(q)' => rp'[q].job = k
      BY <1>3, <1>4, <1>6 DEF PhaseInv, GroupIsOwn, SameClaim
    <2>3. \A k, l \in Jobs : st'[k].pgid \in Runners /\ st'[k].pgid = st'[l].pgid => k = l
      BY <1>4, <2>1 DEF PhaseInv, GroupIsOwn
    <2> QED
      BY <2>2, <2>3 DEF GroupIsOwn
  <1>10. OrphanNamed'
    <2>1. ASSUME NEW q \in Runners, proc'[q], ~Alive(q)'
          PROVE  /\ proc[q] /\ ~Alive(q) /\ rp'[q].gpus = rp[q].gpus
                 /\ \A k \in Jobs : Tells(k, q) => SameClaim(st'[k], st[k]) /\ st'[k].pgid = st[k].pgid
      <3>1. q # r /\ proc[q] /\ ~Alive(q) /\ rp'[q].gpus = rp[q].gpus
        BY <1>1, <1>2, <1>3, <1>6, <2>1
      <3> QED
        BY <1>4, <1>5, <3>1 DEF SameClaim
    <2> QED
      BY <1>1, <2>1, OrphanKept
  <1>11. MarkKilled'
    <2>1. mark # None /\ mark.expect = "running" => mark.job \in Jobs /\ mark.job # j
      BY <1>2 DEF ChargeInv, MarkedAbandoned, TypeInv, TypeOK, Mark
    <2> QED
      BY <1>1, <1>4, <2>1 DEF PhaseInv, MarkKilled
  <1> QED
    BY <1>7, <1>8, <1>9, <1>10, <1>11 DEF PhaseInv

\* A runner goes on to another phase, or to its end, with nothing of the last one
\* left; between spawning a phase and publishing it, it is not stopped.
LEMMA RunnerPhase ==
  ASSUME PromptPublish, TypeInv, ChargeInv, PhaseInv, NEW r \in Runners, Runner(r)
  PROVE  PhaseInv'
  <1> DEFINE j == rp[r].job
             Moved(pc) == rp'[r].pc = pc /\ rp'[r].job = j
  <1>1. /\ st \in [Jobs -> JobState] /\ rp \in [Runners -> SoundRunner]
        /\ proc \in [Runners -> BOOLEAN]
    BY DEF TypeInv, TypeOK
  <1>2. rp[r] \in SoundRunner /\ rp[r] \in RunnerState
    BY <1>1 DEF SoundRunner
  <1>3. CASE SpawnPhase(r) \/ Publish(r)
    BY <1>3, SpawnPhasePhase, PublishPhase
  <1> SUFFICES ASSUME ~(SpawnPhase(r) \/ Publish(r))
               PROVE  PhaseInv'
    BY <1>3
  <1>4. Alive(r) /\ j \in Jobs /\ st[j] \in JobState
    <2>1. rp[r].pc # "dead"
      BY DEF Runner, Claim, RefusePhase, StoppedBefore, PhaseOver, SeeStop, Stopped,
             Terminated, BeginSync, Synced, End, Exit
    <2> QED
      BY <1>1, <1>2, <2>1 DEF SoundRunner, Alive
  <1>5. /\ boot' = boot /\ mark' = mark
        /\ \A q \in Runners \ {r} : rp'[q] = rp[q] /\ proc'[q] = proc[q]
        /\ \A k \in Jobs \ {j} : st'[k] = st[k]
    <2>1. boot' = boot /\ mark' = mark
      BY DEF Runner, Claim, RefusePhase, StoppedBefore, PhaseOver, SeeStop, Stopped,
             Terminated, BeginSync, Synced, End, Exit, dvars
    <2>2. \A q \in Runners \ {r} : rp'[q] = rp[q] /\ proc'[q] = proc[q]
      BY <1>1 DEF Runner, Claim, RefusePhase, StoppedBefore, PhaseOver, SeeStop, Stopped,
             Terminated, BeginSync, Synced, End, Exit
    <2>3. \A k \in Jobs \ {j} : st'[k] = st[k]
      BY <1>1 DEF Runner, Claim, RefusePhase, StoppedBefore, PhaseOver, SeeStop, Stopped,
             Terminated, BeginSync, Synced, End, Exit, Finish
    <2> QED
      BY <2>1, <2>2, <2>3
  <1>6. CASE /\ ~proc'[r]
             /\ st'[j].pgid \in {st[j].pgid, None} /\ st'[j].runner \in {st[j].runner, r, None}
             /\ InCharge(r) \/ st' = st \/ st[j].status # "running"
             /\ rp'[r].pc = "dead" \/ \E pc \in {"between", "done", "sync", "ending", "ended"} : Moved(pc)
    BY <1>4, <1>5, <1>6, RunnerMoved
  <1>7. CASE Claim(r)
    <2>1. rp[r].pc = "starting" /\ ~proc'[r]
      BY <1>4, <1>7, NoProc DEF Claim
    <2>2. CASE MayClaim(r)
      <3>1. Moved("between")
        BY <1>1, <1>2, <1>7, <2>2 DEF Claim, RunnerState
      <3>2. /\ st[j].status = "queued"
            /\ st' = [st EXCEPT ![j] = [st[j] EXCEPT !.status = "running", !.gpus = rp[r].gpus,
                                          !.phase = "setup", !.runner = r, !.boot = boot]]
        BY <1>1, <1>4, <1>7, <2>2 DEF Claim, MayClaim
      <3>3. st'[j].pgid = st[j].pgid /\ st'[j].runner = r
        BY <1>1, <1>4, <3>2 DEF JobState
      <3> QED
        BY <1>6, <2>1, <3>1, <3>2, <3>3
    <2>3. CASE ~MayClaim(r)
      BY <1>1, <1>6, <1>7, <2>1, <2>3, DieType DEF Claim
    <2> QED
      BY <2>2, <2>3
  <1>8. CASE RefusePhase(r) \/ StoppedBefore(r) \/ \E lost \in BOOLEAN : Synced(r, lost)
    <2>1. ~proc'[r] /\ st' = st
      BY <1>4, <1>8, NoProc DEF RefusePhase, StoppedBefore, Synced
    <2>2. Moved("done") \/ Moved("ending")
      <3> USE <1>1, <1>2 DEF RunnerState
      <3>1. CASE RefusePhase(r)
        BY <3>1 DEF RefusePhase
      <3>2. CASE StoppedBefore(r)
        BY <3>2 DEF StoppedBefore
      <3>3. CASE \E lost \in BOOLEAN : Synced(r, lost)
        BY <3>3 DEF Synced
      <3> QED
        BY <1>8, <3>1, <3>2, <3>3
    <2> QED
      BY <1>6, <2>1, <2>2
  <1>9. CASE PhaseOver(r) \/ Stopped(r)
    <2>1. ~proc'[r] /\ InCharge(r) /\ st'[j].pgid = None /\ st'[j].runner = st[j].runner
      <3>1. InCharge(r) /\ ~proc'[r] /\ st' = [st EXCEPT ![j].pgid = None]
        BY <1>1, <1>9 DEF PhaseOver, Stopped, InCharge, RunnerPc
      <3> QED
        BY <1>1, <1>4, <3>1 DEF JobState
    <2>2. Moved("between") \/ Moved("done")
      <3> USE <1>1, <1>2 DEF RunnerState
      <3>1. CASE PhaseOver(r)
        BY <3>1 DEF PhaseOver
      <3>2. CASE Stopped(r)
        BY <3>2 DEF Stopped
      <3> QED
        BY <1>9, <3>1, <3>2
    <2> QED
      BY <1>6, <2>1, <2>2
  <1>10. CASE SeeStop(r)
    <2>1. rp[r].pc = "watching" /\ Moved("stopping") /\ st' = st /\ proc' = proc
      BY <1>1, <1>2, <1>10 DEF SeeStop, RunnerState
    <2> QED
      BY <1>4, <1>5, <2>1, RunnerMoved
  <1>11. CASE Terminated(r) \/ BeginSync(r)
    <2>1. InCharge(r) /\ Moved("sync") /\ st'[j].pgid = st[j].pgid /\ st'[j].runner = st[j].runner
      <3> USE <1>1, <1>2, <1>4 DEF InCharge, RunnerPc, JobState, RunnerState
      <3>1. CASE Terminated(r)
        BY <3>1 DEF Terminated
      <3>2. CASE BeginSync(r)
        BY <3>2 DEF BeginSync
      <3> QED
        BY <1>11, <3>1, <3>2
    <2>2. ~proc'[r]
      BY <1>1, <1>4, <1>11, NoProc DEF Terminated, BeginSync
    <2> QED
      BY <1>6, <2>1, <2>2
  <1>12. CASE End(r)
    <2>1. ~proc'[r] /\ InCharge(r)
      BY <1>4, <1>12, NoProc DEF End, InCharge, RunnerPc
    <2>2. Moved("ended")
      BY <1>1, <1>2, <1>12 DEF End, RunnerState
    <2>3. st'[j].pgid = None /\ st'[j].runner = None
      BY <1>1, <1>4, <1>12, <2>1, UnpublishedState DEF End, Finish, ChargeInv, InChargeNamed
    <2> QED
      BY <1>6, <2>1, <2>2, <2>3
  <1>13. CASE Exit(r)
    BY <1>1, <1>4, <1>6, <1>13, NoProc, DieType DEF Exit
  <1> QED
    BY <1>7, <1>8, <1>9, <1>10, <1>11, <1>12, <1>13 DEF Runner

\* A runner that dies leaves behind at most a phase that its job tells of.
LEMMA EnvironmentPhase ==
  ASSUME PromptPublish, TypeInv, ChargeInv, PhaseInv, NEW r \in Runners, Environment(r)
  PROVE  PhaseInv'
  <1>1. /\ st' = st /\ boot' = boot /\ mark' = mark
        /\ rp \in [Runners -> SoundRunner] /\ rp[r] \in RunnerState /\ proc \in [Runners -> BOOLEAN]
    BY DEF TypeInv, TypeOK, Environment, PhaseExits, RunnerKilled, OrphanExits, dvars
  <1>2. \A q \in Runners \ {r} : rp'[q] = rp[q] /\ proc'[q] = proc[q] /\ (Alive(q)' <=> Alive(q))
    BY <1>1 DEF Environment, PhaseExits, RunnerKilled, OrphanExits, Alive
  <1>3. ASSUME proc'[r] => proc[r],
               \/ Alive(r) /\ Alive(r)' /\ rp'[r].pc = rp[r].pc /\ rp'[r].job = rp[r].job
               \/ ~Alive(r)',
               proc'[r] /\ ~Alive(r)' => \E k \in Jobs : Tells(k, r)'
        PROVE  PhaseInv'
    <2>1. OrphanNamed'
      BY <1>1, <1>2, <1>3 DEF PhaseInv, OrphanNamed, Tells
    <2>2. \A q \in Runners : proc[q] /\ Alive(q) => rp[q].pc \in {"spawned", "watching", "stopping"}
      BY DEF PhaseInv, ProcIsWatched
    <2> QED
      BY <1>1, <1>2, <1>3, <2>1, <2>2, NothingSpawned
  <1>4. CASE \E code \in {"ok", "bad"}, leftovers \in BOOLEAN : PhaseExits(r, code, leftovers)
    <2>1. Alive(r) /\ rp'[r].pc = rp[r].pc /\ rp'[r].job = rp[r].job /\ proc[r]
      BY <1>1, <1>4 DEF PhaseExits, Alive, RunnerState
    <2> QED
      BY <1>3, <2>1 DEF Alive
  <1>5. CASE RunnerKilled(r)
    <2>1. proc' = proc /\ rp'[r] = Die(r) /\ ~Alive(r)' /\ Alive(r) /\ rp[r].pc # "spawned"
      BY <1>1, <1>5, DieType DEF RunnerKilled, Alive
    <2>2. ASSUME proc[r]
          PROVE  \E k \in Jobs : Tells(k, r)'
      <3>1. rp[r].pc \in {"watching", "stopping"}
        BY <2>1, <2>2 DEF PhaseInv, ProcIsWatched
      <3>2. InCharge(r)
        BY <3>1 DEF InCharge, RunnerPc
      <3>3. PICK k \in Jobs : k = rp[r].job
        BY <3>2, InChargeJob
      <3>4. rp'[r].gpus = rp[r].gpus
        BY <2>1, <2>2 DEF Die, DeadRunner
      <3> QED
        BY <1>1, <3>1, <3>2, <3>3, <3>4 DEF Tells, PhaseInv, Published, ChargeInv, InChargeNamed
    <2> QED
      BY <1>3, <2>1, <2>2
  <1>6. CASE OrphanExits(r)
    <2>1. ~proc'[r] /\ ~Alive(r)'
      BY <1>1, <1>6 DEF OrphanExits, Alive, DeadRunner
    <2> QED
      BY <1>3, <2>1
  <1> QED
    BY <1>4, <1>5, <1>6 DEF Environment

\* Nothing is running of a job that looks dead, or that is of another boot.
LEMMA AdoptOrphanPhase ==
  ASSUME TypeInv, ChargeInv, PhaseInv, NEW j \in Jobs, AdoptOrphan(j)
  PROVE  PhaseInv'
  <1> DEFINE s == st[j]
  <1>1. /\ st \in [Jobs -> JobState] /\ UNCHANGED <<rp, proc, boot>> /\ mark = None
        /\ \A r \in Runners : Alive(r)' <=> Alive(r)
    BY DEF TypeInv, TypeOK, AdoptOrphan, Alive
  <1>2. \A r \in Runners : FromAnotherBoot(s) => ~Tells(j, r) /\ (InCharge(r) => rp[r].job # j)
    BY InChargeRecorded DEF Tells, FromAnotherBoot
  <1>3. ASSUME st' = st, mark' = None \/ MarkKilled'
        PROVE  PhaseInv'
    <2>1. OrphanNamed'
      BY <1>1, <1>3 DEF PhaseInv, OrphanNamed, Tells
    <2>2. \A r \in Runners : proc[r] /\ Alive(r) => rp[r].pc \in {"spawned", "watching", "stopping"}
      BY DEF PhaseInv, ProcIsWatched
    <2> QED
      BY <1>1, <1>3, <2>1, <2>2, NothingSpawned
  <1>4. CASE s.status = "running" /\ FromAnotherBoot(s)
    <2>1. RequeueAfterRestart(j)
      BY <1>4 DEF AdoptOrphan, RecordedAlive
    <2>2. CASE ComesBackAfterRestart(s)
      <3>1. mark' = None /\ st'[j].pgid = None /\ st'[j].runner = None /\ \A k \in Jobs \ {j} : st'[k] = st[k]
        BY <1>1, <2>1, <2>2, UnpublishedState DEF RequeueAfterRestart
      <3> QED
        BY <1>1, <1>2, <1>4, <3>1, OneStateWritten
    <2>3. CASE ~ComesBackAfterRestart(s)
      <3>1. st' = st /\ mark'.job = j
        BY <2>1, <2>3 DEF RequeueAfterRestart
      <3>2. ASSUME NEW r \in Runners, proc[r], s.pgid = r
            PROVE  FALSE
        <4>1. CASE Alive(r)
          <5>1. rp[r].job = j /\ InCharge(r)
            BY <3>2, <4>1 DEF PhaseInv, GroupIsOwn, ProcIsWatched, InCharge, RunnerPc
          <5> QED
            BY <1>2, <1>4, <5>1
        <4>2. CASE ~Alive(r)
          <5>1. PICK k \in Jobs : Tells(k, r)
            BY <3>2, <4>2 DEF PhaseInv, OrphanNamed
          <5>2. k = j
            BY <3>2, <5>1 DEF PhaseInv, GroupIsOwn, Tells
          <5> QED
            BY <1>2, <1>4, <5>1, <5>2
        <4> QED
          BY <4>1, <4>2
      <3> QED
        BY <1>1, <1>3, <3>1, <3>2 DEF MarkKilled
    <2> QED
      BY <2>2, <2>3
  <1>5. CASE s.status = "running" /\ ~FromAnotherBoot(s) /\ ~RecordedAlive(s)
    <2>1. st' = st /\ mark' = RunnerDied(j, "running")
      BY <1>5 DEF AdoptOrphan
    <2> QED
      BY <1>3, <2>1 DEF MarkKilled, RunnerDied
  <1>6. CASE s.status # "running" \/ RecordedAlive(s)
    BY <1>1, <1>3, <1>6 DEF AdoptOrphan, RecordedAlive
  <1> QED
    BY <1>4, <1>5, <1>6

\* What a job publishes is gone once a dispatcher has killed its leftovers.
LEMMA KillLeftoversPhase ==
  ASSUME TypeInv, ChargeInv, PhaseInv, KillLeftovers
  PROVE  PhaseInv'
  <1> DEFINE s == st[mark.job]
  <1>1. /\ st \in [Jobs -> JobState] /\ rp \in [Runners -> SoundRunner] /\ proc \in [Runners -> BOOLEAN]
        /\ st' = st /\ boot' = boot /\ mark \in Mark
    BY DEF TypeInv, TypeOK, KillLeftovers
  <1>2. mark.job \in Jobs /\ s \in JobState /\ mark'.job = mark.job
    BY <1>1 DEF KillLeftovers, Mark
  <1>3. \A q \in Runners : /\ rp'[q] \in {rp[q], AfterKill(q)}
                           /\ proc'[q] => proc[q] /\ rp'[q] = rp[q]
    BY <1>1 DEF KillLeftovers, Mark, JobState, RunnerId
  <1>4. \A q \in Runners : /\ rp'[q].pc = rp[q].pc /\ (Alive(q)' <=> Alive(q))
                           /\ Alive(q) => rp'[q].job = rp[q].job
    BY <1>1, <1>3, AfterKillType DEF Alive
  <1>5. OrphanNamed'
    BY <1>1, <1>3, <1>4, OrphanKept DEF SameClaim
  <1>6. ASSUME NEW r \in Runners, proc'[r], s.pgid = r
        PROVE  ~(mark.expect = "running")
    <2>1. FromAnotherBoot(s) /\ proc[r]
      BY <1>1, <1>3, <1>6, NoneAssumption DEF KillLeftovers
    <2>2. CASE Alive(r)
      <3>1. rp[r].job = mark.job /\ InCharge(r)
        BY <1>2, <1>6, <2>1, <2>2 DEF PhaseInv, GroupIsOwn, ProcIsWatched, InCharge, RunnerPc
      <3> QED
        BY <2>1, <3>1, InChargeRecorded
    <2>3. CASE ~Alive(r)
      <3>1. PICK k \in Jobs : Tells(k, r)
        BY <2>1, <2>3 DEF PhaseInv, OrphanNamed
      <3>2. k = mark.job
        BY <1>2, <1>6, <3>1 DEF PhaseInv, GroupIsOwn, Tells
      <3> QED
        BY <2>1, <3>1, <3>2 DEF Tells, FromAnotherBoot
    <2> QED
      BY <2>2, <2>3
  <1>7. MarkKilled'
    <2>1. mark'.expect = mark.expect
      BY <1>1 DEF KillLeftovers, Mark
    <2> QED
      BY <1>1, <1>2, <1>6, <2>1 DEF MarkKilled
  <1>8. \A q \in Runners : proc[q] /\ Alive(q) => rp[q].pc \in {"spawned", "watching", "stopping"}
    BY DEF PhaseInv, ProcIsWatched
  <1> QED
    BY <1>1, <1>3, <1>4, <1>5, <1>7, <1>8, NothingSpawned

\* A job is ended for its runner once nothing of it is left.
LEMMA WriteMarkPhase ==
  ASSUME TypeInv, ChargeInv, PhaseInv, WriteMark
  PROVE  PhaseInv'
  <1> DEFINE j == mark.job
  <1>1. /\ st \in [Jobs -> JobState] /\ UNCHANGED <<rp, proc, boot>>
        /\ mark \in Mark /\ mark' = None /\ mark # None
        /\ j \in Jobs /\ mark.expect \in {"queued", "running"} /\ mark.step = "write"
    BY DEF TypeInv, TypeOK, WriteMark, Mark
  <1>2. \A r \in Runners : Alive(r)' <=> Alive(r)
    BY <1>1 DEF Alive
  <1>3. \A r \in Runners : proc[r] /\ Alive(r) => rp[r].pc \in {"spawned", "watching", "stopping"}
    BY DEF PhaseInv, ProcIsWatched
  <1>4. CASE st[j].status # mark.expect
    <2>1. st' = st
      BY <1>4 DEF WriteMark, Finish
    <2>2. OrphanNamed'
      BY <1>1, <1>2, <2>1 DEF PhaseInv, OrphanNamed, Tells
    <2> QED
      BY <1>1, <1>2, <1>3, <2>1, <2>2, NothingSpawned
  <1>5. CASE st[j].status = mark.expect
    <2>1. /\ \A k \in Jobs \ {j} : st'[k] = st[k]
          /\ st'[j].pgid = None /\ st'[j].runner = None
      BY <1>1, <1>5, UnpublishedState DEF WriteMark, Finish
    <2>2. \A r \in Runners : proc[r] => ~Tells(j, r)
      BY <1>1, <1>5 DEF Tells, PhaseInv, MarkKilled
    <2>3. \A r \in Runners : InCharge(r) => rp[r].job # j /\ rp[r].job \in Jobs
      BY <1>1, <1>5, NotRunning, InChargeJob DEF ChargeInv, MarkedAbandoned
    <2>4. OrphanNamed'
      BY <1>1, <1>2, <2>1, <2>2, OrphanKept DEF SameClaim
    <2>5. \A r \in Runners : rp[r].pc \in {"watching", "stopping"} => InCharge(r)
      BY DEF InCharge, RunnerPc
    <2> QED
      BY <1>1, <1>2, <1>3, <2>1, <2>3, <2>4, <2>5, NothingSpawned
  <1> QED
    BY <1>4, <1>5

\* The ladder kills the published group before it kills the runner.
LEMMA EscalatePhase ==
  ASSUME PromptPublish, TypeInv, ChargeInv, PhaseInv, NEW j \in Jobs, Escalate(j)
  PROVE  PhaseInv'
  <1> DEFINE s == st[j]
  <1>1. /\ rp \in [Runners -> SoundRunner] /\ UNCHANGED <<st, boot, mark>>
    BY DEF TypeInv, TypeOK, Escalate
  <1>2. \A q \in Runners : proc'[q] => proc[q] /\ q # s.pgid
    BY DEF Escalate
  <1>3. \A q \in Runners : \/ ~Alive(q)' /\ q = s.runner /\ rp[q].pc # "spawned"
                              /\ rp'[q].gpus = IF proc'[q] THEN rp[q].gpus ELSE {}
                           \/ rp'[q] = rp[q]
                           \/ rp'[q] = AfterKill(q) /\ ~proc'[q]
    BY DEF Escalate, Alive, DeadRunner
  <1>4. \A q \in Runners : Alive(q)' => Alive(q) /\ rp'[q].pc = rp[q].pc /\ rp'[q].job = rp[q].job
    BY <1>1, <1>3, AfterKillType DEF Alive
  <1>5. \A q \in Runners : proc[q] /\ Alive(q) => rp[q].pc \in {"spawned", "watching", "stopping"}
    BY DEF PhaseInv, ProcIsWatched
  <1>6. ASSUME NEW q \in Runners, proc'[q], ~Alive(q)'
        PROVE  proc[q] /\ ~Alive(q) /\ rp'[q].gpus = rp[q].gpus
    <2>1. CASE rp'[q] = rp[q]
      BY <1>2, <1>6, <2>1 DEF Alive
    <2>2. CASE q = s.runner /\ rp[q].pc # "spawned" /\ rp'[q].gpus = rp[q].gpus
      <3>1. ASSUME Alive(q)
            PROVE  FALSE
        <4>1. rp[q].pc \in {"watching", "stopping"} /\ InCharge(q)
          BY <1>2, <1>5, <1>6, <2>2, <3>1 DEF InCharge, RunnerPc
        <4>2. st[rp[q].job].pgid = q /\ rp[q].job = j
          BY <2>2, <3>1, <4>1 DEF PhaseInv, Published, GroupIsOwn
        <4> QED
          BY <1>2, <1>6, <4>2
      <3> QED
        BY <1>2, <1>6, <2>2, <3>1
    <2> QED
      BY <1>3, <1>6, <2>1, <2>2
  <1>7. OrphanNamed'
    BY <1>1, <1>6, OrphanKept DEF SameClaim
  <1> QED
    BY <1>1, <1>2, <1>4, <1>5, <1>7, NothingSpawned

\* A new runner has an identity of its own.
LEMMA LaunchPhase ==
  ASSUME TypeInv, ChargeInv, PhaseInv, NEW j \in Jobs, Launch(j) \/ FailQueued(j)
  PROVE  PhaseInv'
  <1>1. /\ st \in [Jobs -> JobState] /\ rp \in [Runners -> SoundRunner]
        /\ UNCHANGED <<proc, boot, mark>>
    BY DEF TypeInv, TypeOK, Launch, FailQueued
  <1>2. CASE Launch(j)
    <2>1. st' = st
      BY <1>2 DEF Launch
    <2>2. \A q \in Runners : rp'[q] = rp[q] \/ (rp'[q].pc = "starting" /\ Fresh(q))
      <3>1. \/ rp' = rp
            \/ \E d \in plan, r \in Runners :
                 /\ Fresh(r)
                 /\ rp' = [rp EXCEPT ![r] = [DeadRunner(d.gpus) EXCEPT
                                       !.pc = "starting", !.job = j, !.attempt = d.attempt]]
        BY <1>2 DEF Launch
      <3>2. \A d \in plan :
              [DeadRunner(d.gpus) EXCEPT !.pc = "starting", !.job = j, !.attempt = d.attempt].pc = "starting"
        BY DEF DeadRunner
      <3> QED
        BY <1>1, <3>1, <3>2
    <2>3. \A q \in Runners : proc[q] /\ Alive(q) => rp[q].pc \in {"spawned", "watching", "stopping"}
      BY DEF PhaseInv, ProcIsWatched
    <2>4. \A q \in Runners : proc'[q] /\ ~Alive(q)' => proc[q] /\ ~Alive(q) /\ rp'[q].gpus = rp[q].gpus
      BY <1>1, <2>2 DEF Alive, Fresh
    <2>5. OrphanNamed'
      BY <1>1, <2>1, <2>4, OrphanKept DEF SameClaim
    <2> QED
      BY <1>1, <2>1, <2>2, <2>3, <2>5, NothingSpawned DEF Alive, Fresh
  <1>3. CASE FailQueued(j)
    <2>1. rp' = rp /\ \A k \in Jobs \ {j} : st'[k] = st[k]
      BY <1>1, <1>3 DEF FailQueued, Finish
    <2>2. CASE st[j].status = "queued"
      <3>1. st'[j].pgid = None /\ st'[j].runner = None
        BY <1>1, <1>3, <2>2, UnpublishedState DEF FailQueued, Finish
      <3> QED
        BY <1>1, <2>1, <2>2, <3>1, NotRunning, OneStateWritten DEF Tells
    <2>3. CASE st[j].status # "queued"
      <3>1. st' = st
        BY <1>3, <2>3 DEF FailQueued, Finish
      <3> QED
        BY <1>1, <2>1, <3>1, OneStateWritten DEF SameClaim
    <2> QED
      BY <2>2, <2>3
  <1> QED
    BY <1>2, <1>3

\* The dispatcher's steps that touch neither a state nor a process.
LEMMA InnerStepPhase ==
  ASSUME TypeInv, PhaseInv,
         \/ DispatcherStarts \/ AdoptionOver \/ ReapOver \/ ListQueue \/ Plan \/ PassOver \/ DispatcherKilled
         \/ \E j \in Jobs : Reap(j)
  PROVE  PhaseInv'
  <1>1. UNCHANGED <<st, rp, proc, boot>>
    BY DEF DispatcherStarts, AdoptionOver, ReapOver, ListQueue, Plan, PassOver, DispatcherKilled, Reap
  <1>2. mark' \in {mark, None} \/ mark'.step = "kill"
    BY DEF DispatcherStarts, AdoptionOver, ReapOver, ListQueue, Plan, PassOver, DispatcherKilled,
           ForgetDispatcher, Reap, RunnerDied
  <1>3. \A r \in Runners : Alive(r)' <=> Alive(r)
    BY <1>1 DEF Alive
  <1>4. OrphanNamed'
    BY <1>1, <1>3, OrphanKept DEF SameClaim
  <1>5. \A r \in Runners : proc[r] /\ Alive(r) => rp[r].pc \in {"spawned", "watching", "stopping"}
    BY DEF PhaseInv, ProcIsWatched
  <1> QED
    BY <1>1, <1>2, <1>3, <1>4, <1>5, NothingSpawned DEF MarkKilled

\* No process outlives its host.
LEMMA RebootPhase ==
  ASSUME TypeInv, PhaseInv, Reboot
  PROVE  PhaseInv'
  <1>1. /\ st' = st /\ mark' = None
        /\ \A r \in Runners : ~proc'[r] /\ rp'[r].pc = "dead"
    BY DEF Reboot, ForgetDispatcher, DeadRunner
  <1> QED
    BY <1>1 DEF PhaseInv, ProcIsWatched, Published, GroupIsOwn, OrphanNamed, MarkKilled, Alive

LEMMA PhaseStep ==
  ASSUME PromptPublish, TypeInv, ChargeInv, PhaseInv, [Next]_vars
  PROVE  PhaseInv'
  <1>1. CASE UNCHANGED vars
    BY <1>1 DEF PhaseInv, ProcIsWatched, Published, GroupIsOwn, OrphanNamed, Tells, MarkKilled, Alive, vars
  <1>2. CASE Dispatcher
    BY <1>2, InnerStepPhase, AdoptOrphanPhase, KillLeftoversPhase, WriteMarkPhase, EscalatePhase,
       LaunchPhase DEF Dispatcher
  <1> QED
    BY <1>1, <1>2, RequestPhase, RunnerPhase, EnvironmentPhase, InnerStepPhase, RebootPhase DEF Next

LEMMA InitPhase ==
  ASSUME Init
  PROVE  PhaseInv
  <1>1. /\ mark = None
        /\ \A r \in Runners : ~proc[r] /\ rp[r].pc = "dead"
        /\ \A j \in Jobs : st[j].pgid = None
    BY DEF Init, QueuedState, DeadRunner
  <1> QED
    BY <1>1, NoneAssumption
       DEF PhaseInv, ProcIsWatched, Published, GroupIsOwn, OrphanNamed, MarkKilled, Alive

\* Every live process of a phase is on cards that a running job's state says are
\* its own.
LEMMA PhaseOnClaimed ==
  ASSUME TypeInv, ChargeInv, PhaseInv, NEW r \in Runners, proc[r]
  PROVE  \E j \in Jobs : /\ st[j].status = "running" /\ st[j].runner = r
                         /\ st[j].gpus = rp[r].gpus
  <1>1. CASE Alive(r)
    <2>1. InCharge(r)
      BY <1>1 DEF PhaseInv, ProcIsWatched, InCharge, RunnerPc
    <2> QED
      BY <2>1, InChargeJob DEF ChargeInv, InChargeNamed
  <1>2. CASE ~Alive(r)
    BY <1>2 DEF PhaseInv, OrphanNamed, Tells
  <1> QED
    BY <1>1, <1>2

\* If no runner dies, or is signalled, between spawning and publishing a phase:
\* a card that dispatcher._busy_gpus calls free has no process on it, whatever
\* died, was stopped or was restarted before.
THEOREM FreeCardsAreIdle ==
  ASSUME PromptPublish
  PROVE  Spec => []FreeCardsIdle
  <1>1. Init => TypeInv /\ ChargeInv /\ PhaseInv
    BY InitType, InitPhase DEF Init, ChargeInv, InChargeNamed, MarkedAbandoned, InCharge, DeadRunner
  <1>2. TypeInv /\ ChargeInv /\ PhaseInv /\ [Next]_vars => TypeInv' /\ ChargeInv' /\ PhaseInv'
    BY TypeStep, ChargeStep, PhaseStep
  <1>3. TypeInv /\ ChargeInv /\ PhaseInv => FreeCardsIdle
    BY PhaseOnClaimed DEF FreeCardsIdle, BusyGpus, ClaimedGpus
  <1> QED
    BY <1>1, <1>2, <1>3, PTL DEF Spec

-----------------------------------------------------------------------------
\* The dispatcher's ledger.

Starting(r) == rp[r].pc = "starting"
Passing == {"reap", "escalate", "listed", "launch"}

\* What a dispatcher keeps, it keeps for one part of its pass.
KeptInPlace ==
  /\ disp = "down" => \A j \in Jobs : running[j] = None
  /\ mark # None => disp \in {"adopting", "reap"}
  /\ plan # {} => disp = "launch"
  /\ reqs # {} => disp = "listed"

\* A dispatcher that adopts meets no runner that has yet to claim, and one that
\* dispatches has an entry for each.
StartingHasEntry ==
  /\ disp = "adopting" => \A r \in Runners : ~Starting(r)
  /\ disp \in Passing => \A r \in Runners : Starting(r) =>
       /\ running[rp[r].job] # None
       /\ running[rp[r].job].runner = r /\ running[rp[r].job].gpus = rp[r].gpus

\* A decision is about a job with no entry, and about cards of no entry and of no
\* other decision.
PlannedApart ==
  /\ \A q \in reqs : running[q.job] = None
  /\ \A d \in plan : running[d.job] = None
  /\ \A d \in plan, k \in Jobs : running[k] # None => d.gpus \cap running[k].gpus = {}
  /\ \A d, e \in plan : ~d.fails /\ d # e => d.job # e.job /\ d.gpus \cap e.gpus = {}

\* No card is held twice by running jobs and runners that have yet to claim.
HeldApart ==
  /\ \A r, q \in Runners : Starting(r) /\ Starting(q) /\ r # q => rp[r].gpus \cap rp[q].gpus = {}
  /\ \A r \in Runners, j \in Jobs :
       Starting(r) /\ st[j].status = "running" => rp[r].gpus \cap st[j].gpus = {}
  /\ \A j, k \in Jobs :
       st[j].status = "running" /\ st[k].status = "running" /\ j # k => st[j].gpus \cap st[k].gpus = {}

\* Somebody is to look after a running job.
LookedAfter(j) ==
  \/ running[j] # None
  \/ mark # None /\ mark.job = j /\ mark.expect = "running"
  \/ disp = "adopting" /\ j \in todo

AllLookedAfter ==
  disp # "down" => \A j \in Jobs : st[j].status = "running" => LookedAfter(j)

LedgerInv == KeptInPlace /\ StartingHasEntry /\ PlannedApart /\ HeldApart /\ AllLookedAfter

\* What plan.plan's promise comes to: every decision is about a job that was
\* listed and cards that were free, and one that is to be launched shares neither
\* its job nor a card with another.
LEMMA PlansApart ==
  ASSUME NEW rs \in SUBSET QueueEntry, NEW free \in SUBSET Cards, NEW pl \in PlansOf(rs, free)
  PROVE  /\ \A d \in pl : d.gpus \subseteq free /\ \E q \in rs : q.job = d.job
         /\ \A d, e \in pl : ~d.fails /\ d # e => d.job # e.job /\ d.gpus \cap e.gpus = {}
  <1> DEFINE Decided(q, g, bad) == [job |-> q.job, attempt |-> q.attempt, gpus |-> g, fails |-> bad]
             TooWide(q) == Wants[q.job] > Cardinality(Cards)
             For(x) == CHOOSE q \in rs : q.job = x.job
  <1>1. PICK ds \in SUBSET [job: {q.job : q \in rs}, gpus: SUBSET free] :
          /\ Keeps(rs, ds, free, Cardinality(Cards), Wants, Fills)
          /\ pl = {Decided(q, {}, TRUE) : q \in {k \in rs : TooWide(k)}}
                    \cup {Decided(For(x), x.gpus, FALSE) : x \in ds}
    BY DEF PlansOf
  <1>2. /\ \A x \in ds : Wants[x.job] <= Cardinality(Cards) /\ x.gpus \subseteq free
        /\ \A x, y \in ds : x # y => x.job # y.job /\ x.gpus \cap y.gpus = {}
    <2>1. \A x \in ds : /\ \E q \in rs : q.job = x.job /\ Wants[q.job] <= Cardinality(Cards)
                        /\ x.gpus \subseteq free
      BY <1>1 DEF Keeps
    <2>2. \A x, y \in ds : x # y => x.job # y.job /\ x.gpus \cap y.gpus = {}
      BY <1>1 DEF Keeps
    <2> QED
      BY <2>1, <2>2
  <1>3. \A x \in ds : For(x) \in rs /\ For(x).job = x.job
    OBVIOUS
  <1>4. \A q \in rs : Wants[q.job] \in Nat
    BY WantsAssumption DEF QueueEntry
  <1>5. Cardinality(Cards) \in Nat
    BY CardsAssumption, FS_CardinalityType
  <1>6. ASSUME NEW d \in pl
        PROVE  \/ \E q \in rs : /\ Wants[q.job] > Cardinality(Cards)
                                /\ d.job = q.job /\ d.gpus = {} /\ d.fails
               \/ \E x \in ds : /\ d = Decided(For(x), x.gpus, FALSE)
                                /\ d.job = x.job /\ d.gpus = x.gpus /\ ~d.fails
    <2>1. CASE \E q \in rs : TooWide(q) /\ d = Decided(q, {}, TRUE)
      BY <2>1
    <2>2. CASE \E x \in ds : d = Decided(For(x), x.gpus, FALSE)
      <3>1. PICK x \in ds : d = Decided(For(x), x.gpus, FALSE)
        BY <2>2
      <3>2. For(x).job = x.job
        BY <1>3
      <3> HIDE DEF For
      <3>3. d.job = x.job /\ d.gpus = x.gpus /\ ~d.fails
        BY <3>1, <3>2
      <3> HIDE DEF Decided
      <3> QED
        BY <3>1, <3>3
    <2> HIDE DEF Decided, For
    <2> QED
      BY <1>1, <1>6, <2>1, <2>2
  <1>7. ASSUME NEW d \in pl
        PROVE  d.gpus \subseteq free /\ \E q \in rs : q.job = d.job
    <2> HIDE DEF Decided, For
    <2>1. CASE \E x \in ds : d.job = x.job /\ d.gpus = x.gpus
      <3>1. PICK x \in ds : d.job = x.job /\ d.gpus = x.gpus
        BY <2>1
      <3> QED
        BY <1>2, <1>3, <3>1
    <2>2. CASE \E q \in rs : d.job = q.job /\ d.gpus = {}
      BY <2>2
    <2> QED
      BY <1>6, <2>1, <2>2
  <1>8. ASSUME NEW d \in pl, NEW e \in pl, ~d.fails, d # e
        PROVE  d.job # e.job /\ d.gpus \cap e.gpus = {}
    <2> HIDE DEF Decided, For
    <2>1. PICK x \in ds : d = Decided(For(x), x.gpus, FALSE) /\ d.job = x.job /\ d.gpus = x.gpus
      BY <1>6, <1>8
    <2>2. CASE \E y \in ds : e = Decided(For(y), y.gpus, FALSE) /\ e.job = y.job /\ e.gpus = y.gpus
      BY <1>2, <1>8, <2>1, <2>2
    <2>3. CASE \E q \in rs : Wants[q.job] > Cardinality(Cards) /\ e.job = q.job /\ e.gpus = {}
      <3>1. PICK q \in rs : Wants[q.job] > Cardinality(Cards) /\ e.job = q.job /\ e.gpus = {}
        BY <2>3
      <3>2. Wants[x.job] <= Cardinality(Cards)
        BY <1>2
      <3>3. Wants[q.job] \in Nat
        BY <1>4
      <3>4. x.job # q.job
        BY <1>5, <3>1, <3>2, <3>3
      <3> QED
        BY <2>1, <3>1, <3>4
    <2> QED
      BY <1>6, <2>2, <2>3
  <1> QED
    BY <1>7, <1>8

\* Steps that leave the dispatcher alone, start no runner and claim no job.
LEMMA LedgerKept ==
  ASSUME LedgerInv, UNCHANGED <<running, disp, todo, mark, reqs, plan>>,
         \A r \in Runners : Starting(r)' => Starting(r) /\ SameCharge(rp'[r], rp[r]),
         \A j \in Jobs : st'[j].status = "running" => st[j].status = "running" /\ st'[j].gpus = st[j].gpus
  PROVE  LedgerInv'
  <1>1. KeptInPlace' /\ PlannedApart'
    BY DEF LedgerInv, KeptInPlace, PlannedApart
  <1>2. StartingHasEntry'
    BY DEF LedgerInv, StartingHasEntry, SameCharge
  <1>3. HeldApart'
    BY DEF LedgerInv, HeldApart, SameCharge
  <1>4. AllLookedAfter'
    BY DEF LedgerInv, AllLookedAfter, LookedAfter
  <1> QED
    BY <1>1, <1>2, <1>3, <1>4 DEF LedgerInv

\* A runner that claims passes on the cards, and the entry, it was started with.
LEMMA ClaimLedger ==
  ASSUME TypeInv, LedgerInv, NEW r \in Runners, Claim(r)
  PROVE  LedgerInv'
  <1> DEFINE j == rp[r].job
  <1>1. /\ st \in [Jobs -> JobState] /\ rp \in [Runners -> SoundRunner] /\ rp[r] \in RunnerState
        /\ UNCHANGED <<running, disp, todo, mark, reqs, plan>>
        /\ Starting(r) /\ j \in Jobs
        /\ disp \in {"down", "adopting"} \cup Passing
    BY DEF TypeInv, TypeOK, Claim, dvars, Starting, SoundRunner, Passing
  <1>2. CASE MayClaim(r)
    <2>1. /\ st' = [st EXCEPT ![j] = [st[j] EXCEPT !.status = "running", !.gpus = rp[r].gpus,
                                        !.phase = "setup", !.runner = r, !.boot = boot]]
          /\ rp' = [rp EXCEPT ![r].pc = "between", ![r].step = 1]
      BY <1>1, <1>2 DEF Claim
    <2>2. /\ \A k \in Jobs \ {j} : st'[k] = st[k]
          /\ st'[j].status = "running" /\ st'[j].gpus = rp[r].gpus
      BY <1>1, <2>1 DEF JobState
    <2>3. \A q \in Runners : Starting(q)' => Starting(q) /\ rp'[q] = rp[q] /\ q # r
      BY <1>1, <2>1 DEF Starting, RunnerState
    <2>4. KeptInPlace' /\ PlannedApart'
      BY <1>1 DEF LedgerInv, KeptInPlace, PlannedApart
    <2>5. StartingHasEntry'
      BY <1>1, <2>3 DEF LedgerInv, StartingHasEntry
    <2>6. HeldApart'
      BY <1>1, <2>2, <2>3 DEF LedgerInv, HeldApart
    <2>7. AllLookedAfter'
      BY <1>1, <2>2 DEF LedgerInv, AllLookedAfter, LookedAfter, StartingHasEntry
    <2> QED
      BY <2>4, <2>5, <2>6, <2>7 DEF LedgerInv
  <1>3. CASE ~MayClaim(r)
    <2>1. st' = st /\ rp' = [rp EXCEPT ![r] = Die(r)]
      BY <1>3 DEF Claim
    <2>2. \A q \in Runners : Starting(q)' => Starting(q) /\ SameCharge(rp'[q], rp[q])
      BY <1>1, <2>1, DieType DEF Starting, SameCharge
    <2> QED
      BY <1>1, <2>1, <2>2, LedgerKept
  <1> QED
    BY <1>2, <1>3

\* Of the requests and the runners, only a claim makes a job run.
LEMMA ProcessLedger ==
  ASSUME TypeInv, LedgerInv, Request \/ \E r \in Runners : Runner(r) \/ Environment(r)
  PROVE  LedgerInv'
  <1>1. st \in [Jobs -> JobState] /\ rp \in [Runners -> SoundRunner] /\ rp \in [Runners -> RunnerState]
    BY DEF TypeInv, TypeOK
  <1>2. CASE Request
    <2>1. PICK j \in Jobs : Cancel(j) \/ \E p \in Priorities : Enqueue(j, p) \/ Preempt(j, p) \/ SetPriority(j, p)
      BY <1>2 DEF Request
    <2>2. rp' = rp /\ UNCHANGED dvars /\ \A k \in Jobs \ {j} : st'[k] = st[k]
      BY <1>1, <2>1 DEF Cancel, Enqueue, Preempt, SetPriority
    <2>3. st'[j].status = "running" => st[j].status = "running" /\ st'[j].gpus = st[j].gpus
      BY <1>1, <2>1 DEF Cancel, Enqueue, Preempt, SetPriority, JobState, QueuedState, FinishedState
    <2> QED
      BY <2>2, <2>3, LedgerKept DEF Starting, SameCharge, dvars
  <1>3. ASSUME NEW r \in Runners, Environment(r)
        PROVE  LedgerInv'
    <2>1. st' = st /\ UNCHANGED dvars
      BY <1>3 DEF Environment, PhaseExits, RunnerKilled, OrphanExits
    <2>2. \A q \in Runners \ {r} : rp'[q] = rp[q]
      BY <1>1, <1>3 DEF Environment, PhaseExits, RunnerKilled, OrphanExits
    <2>3. ~Starting(r)'
      BY <1>1, <1>3, DieType DEF Environment, PhaseExits, RunnerKilled, OrphanExits, Starting, DeadRunner,
         RunnerState
    <2> QED
      BY <2>1, <2>2, <2>3, LedgerKept DEF Starting, SameCharge, dvars
  <1>4. ASSUME NEW r \in Runners, Runner(r)
        PROVE  LedgerInv'
    <2> DEFINE j == rp[r].job
    <2>1. CASE Claim(r)
      BY <2>1, ClaimLedger
    <2> SUFFICES ASSUME ~Claim(r)
                 PROVE  LedgerInv'
      BY <2>1
    <2>2. UNCHANGED dvars /\ \A q \in Runners \ {r} : rp'[q] = rp[q]
      BY <1>1, <1>4 DEF Runner, RefusePhase, StoppedBefore, SpawnPhase, Publish, PhaseOver, SeeStop, Stopped,
             Terminated, BeginSync, Synced, End, Exit
    <2>3. ~Starting(r)'
      <3> USE <1>1 DEF Starting, RunnerState
      <3>1. CASE RefusePhase(r) \/ StoppedBefore(r) \/ SpawnPhase(r)
        BY <3>1 DEF RefusePhase, StoppedBefore, SpawnPhase
      <3>2. CASE Publish(r) \/ SeeStop(r) \/ Stopped(r)
        BY <3>2 DEF Publish, SeeStop, Stopped
      <3>3. CASE PhaseOver(r)
        BY <3>3 DEF PhaseOver
      <3>4. CASE Terminated(r) \/ BeginSync(r)
        BY <3>4 DEF Terminated, BeginSync
      <3>5. CASE \E lost \in BOOLEAN : Synced(r, lost)
        BY <3>5 DEF Synced
      <3>6. CASE End(r)
        BY <3>6 DEF End
      <3>7. CASE Exit(r)
        BY <3>7, DieType DEF Exit
      <3> QED
        BY <1>4, <3>1, <3>2, <3>3, <3>4, <3>5, <3>6, <3>7 DEF Runner
    <2>4. \A k \in Jobs : st'[k].status = "running" => st[k].status = "running" /\ st'[k].gpus = st[k].gpus
      <3>1. CASE End(r)
        <4>1. rp[r].out \in Outcomes \ {"none"}
          BY <1>1, <3>1 DEF End, SoundRunner, RunnerState
        <4>2. FinalStatus(rp[r].out, st[j].intent) # "running"
          BY <4>1, FinalStatusType DEF Finished
        <4>3. \/ st' = st
              \/ \E n, p, k : st' = [st EXCEPT ![j] = QueuedState(n, p, k)]
              \/ st' = [st EXCEPT ![j] = FinishedState(st[j], FinalStatus(rp[r].out, st[j].intent))]
          BY <3>1 DEF End, Finish
        <4>4. \A n, p, k : QueuedState(n, p, k).status # "running"
          BY DEF QueuedState
        <4>5. FinishedState(st[j], FinalStatus(rp[r].out, st[j].intent)).status # "running"
          BY <4>2 DEF FinishedState, QueuedState
        <4> QED
          BY <1>1, <4>3, <4>4, <4>5
      <3>2. CASE Publish(r) \/ PhaseOver(r) \/ Stopped(r)
        <4>1. \/ st' = [st EXCEPT ![j].phase = Phases[rp[r].step], ![j].pgid = r]
              \/ st' = [st EXCEPT ![j].pgid = None]
          BY <3>2 DEF Publish, PhaseOver, Stopped
        <4> QED
          BY <1>1, <4>1 DEF JobState
      <3>3. CASE Terminated(r) \/ BeginSync(r)
        BY <1>1, <3>3 DEF Terminated, BeginSync, JobState
      <3>4. CASE st' = st
        BY <3>4
      <3> QED
        BY <1>4, <3>1, <3>2, <3>3, <3>4
           DEF Runner, RefusePhase, StoppedBefore, SpawnPhase, SeeStop, Synced, Exit
    <2> QED
      BY <2>2, <2>3, <2>4, LedgerKept DEF Starting, SameCharge, dvars
  <1> QED
    BY <1>2, <1>3, <1>4

\* A successor starts once every runner has claimed, and looks at every job.
LEMMA InnerStepLedger ==
  ASSUME PromptClaim, TypeInv, LedgerInv,
         DispatcherStarts \/ AdoptionOver \/ ReapOver \/ ListQueue \/ PassOver
  PROVE  LedgerInv'
  <1>1. UNCHANGED <<st, rp, running, mark, plan>>
    BY DEF DispatcherStarts, AdoptionOver, ReapOver, ListQueue, PassOver
  <1>2. KeptInPlace'
    BY <1>1 DEF LedgerInv, KeptInPlace, DispatcherStarts, AdoptionOver, ReapOver, ListQueue, PassOver, Idle
  <1>3. StartingHasEntry'
    BY <1>1 DEF LedgerInv, StartingHasEntry, Starting, Passing, DispatcherStarts, AdoptionOver, ReapOver,
           ListQueue, PassOver
  <1>4. PlannedApart'
    <2>1. \A q \in reqs' : running[q.job] = None
      BY DEF LedgerInv, PlannedApart, DispatcherStarts, AdoptionOver, ReapOver, ListQueue, PassOver
    <2> QED
      BY <1>1, <2>1 DEF LedgerInv, PlannedApart
  <1>5. HeldApart'
    BY <1>1 DEF LedgerInv, HeldApart, Starting
  <1>6. AllLookedAfter'
    <2>1. CASE DispatcherStarts
      BY <2>1 DEF DispatcherStarts, AllLookedAfter, LookedAfter
    <2>2. CASE AdoptionOver \/ ReapOver \/ ListQueue \/ PassOver
      BY <1>1, <2>2
         DEF LedgerInv, AllLookedAfter, LookedAfter, AdoptionOver, ReapOver, ListQueue, PassOver
    <2> QED
      BY <2>1, <2>2
  <1> QED
    BY <1>2, <1>3, <1>4, <1>5, <1>6 DEF LedgerInv

\* A pass plans with the cards that are neither claimed nor in an entry.
LEMMA PlanLedger ==
  ASSUME TypeInv, LedgerInv, Plan
  PROVE  LedgerInv'
  <1>1. /\ UNCHANGED <<st, rp, running, mark, todo>> /\ disp = "listed" /\ disp' = "launch" /\ reqs' = {}
        /\ reqs \in SUBSET QueueEntry /\ plan' \in PlansOf(reqs, Cards \ BusyGpus)
        /\ Cards \ BusyGpus \in SUBSET Cards
    BY DEF TypeInv, TypeOK, Plan
  <1>2. /\ \A d \in plan' : d.gpus \subseteq Cards \ BusyGpus /\ \E q \in reqs : q.job = d.job
        /\ \A d, e \in plan' : ~d.fails /\ d # e => d.job # e.job /\ d.gpus \cap e.gpus = {}
    <2> DEFINE free == Cards \ BusyGpus
    <2>1. reqs \in SUBSET QueueEntry /\ free \in SUBSET Cards /\ plan' \in PlansOf(reqs, free)
      BY <1>1
    <2> HIDE DEF free
    <2>2. /\ \A d \in plan' : d.gpus \subseteq free /\ \E q \in reqs : q.job = d.job
          /\ \A d, e \in plan' : ~d.fails /\ d # e => d.job # e.job /\ d.gpus \cap e.gpus = {}
      BY <2>1, PlansApart, Zenon
    <2> QED
      BY <2>2 DEF free
  <1>3. \A k \in Jobs : running[k] # None => running[k].gpus \subseteq BusyGpus
    BY DEF BusyGpus
  <1>4. PlannedApart'
    <2>1. \A d \in plan' : running[d.job] = None
      BY <1>2 DEF LedgerInv, PlannedApart
    <2>2. \A d \in plan', k \in Jobs : running[k] # None => d.gpus \cap running[k].gpus = {}
      BY <1>2, <1>3
    <2> QED
      BY <1>1, <1>2, <2>1, <2>2 DEF PlannedApart
  <1>5. KeptInPlace' /\ StartingHasEntry' /\ HeldApart' /\ AllLookedAfter'
    BY <1>1 DEF LedgerInv, KeptInPlace, StartingHasEntry, HeldApart, AllLookedAfter, LookedAfter,
           Starting, Passing
  <1> QED
    BY <1>4, <1>5 DEF LedgerInv

\* A running job that is adopted gets its entry, any other a mark or a place in
\* the queue.
LEMMA AdoptOrphanLedger ==
  ASSUME TypeInv, LedgerInv, NEW j \in Jobs, AdoptOrphan(j)
  PROVE  LedgerInv'
  <1> DEFINE s == st[j]
  <1>1. /\ st \in [Jobs -> JobState] /\ running \in [Jobs -> Entry \cup {None}]
        /\ UNCHANGED <<rp, disp, reqs, plan>> /\ disp = "adopting" /\ mark = None
        /\ todo' = todo \ {j}
    BY DEF TypeInv, TypeOK, AdoptOrphan
  <1>2. reqs = {} /\ plan = {}
    BY <1>1 DEF LedgerInv, KeptInPlace
  <1>3. KeptInPlace' /\ PlannedApart'
    BY <1>1, <1>2 DEF KeptInPlace, PlannedApart
  <1>4. StartingHasEntry'
    BY <1>1 DEF LedgerInv, StartingHasEntry, Starting, Passing
  <1>5. /\ \A k \in Jobs : running[k] # None => running'[k] # None
        /\ \A k \in Jobs : st'[k].status = "running" => st'[k] = st[k]
        /\ st'[j].status = "running" => \/ running'[j] # None
                                        \/ mark' # None /\ mark'.job = j /\ mark'.expect = "running"
    <2>1. CASE s.status = "running" /\ FromAnotherBoot(s)
      <3>1. RequeueAfterRestart(j) /\ running' = running
        BY <2>1 DEF AdoptOrphan, RecordedAlive
      <3>2. ~ComesBackAfterRestart(s) => mark' \in Mark
        BY <3>1 DEF RequeueAfterRestart, Mark
      <3>3. \A n, p, k : QueuedState(n, p, k).status # "running"
        BY DEF QueuedState
      <3> QED
        BY <1>1, <3>1, <3>2, <3>3, NoEntryAssumption DEF RequeueAfterRestart
    <2>2. CASE s.status = "running" /\ RecordedAlive(s)
      <3>1. running' = [running EXCEPT ![j] = Adopted(s)] /\ st' = st
        BY <2>2 DEF AdoptOrphan, RecordedAlive
      <3>2. Adopted(s) # None
        BY <1>1, <2>2, AdoptedType, NoEntryAssumption
      <3> QED
        BY <1>1, <3>1, <3>2
    <2>3. CASE s.status = "running" /\ ~FromAnotherBoot(s) /\ ~RecordedAlive(s)
      <3>1. mark' = RunnerDied(j, "running") /\ st' = st /\ running' = running
        BY <2>3 DEF AdoptOrphan
      <3> QED
        BY <3>1, RunnerDiedType, NoEntryAssumption DEF RunnerDied
    <2>4. CASE s.status # "running"
      BY <2>4 DEF AdoptOrphan
    <2> QED
      BY <2>1, <2>2, <2>3, <2>4
  <1>6. HeldApart'
    BY <1>1, <1>5 DEF LedgerInv, HeldApart, Starting
  <1>7. AllLookedAfter'
    BY <1>1, <1>5 DEF LedgerInv, AllLookedAfter, LookedAfter
  <1> QED
    BY <1>3, <1>4, <1>6, <1>7 DEF LedgerInv

\* An entry is given up for a runner that is gone, and a running job with it only
\* for a mark.
LEMMA ReapLedger ==
  ASSUME TypeInv, LedgerInv, NEW j \in Jobs, Reap(j)
  PROVE  LedgerInv'
  <1> DEFINE s == st[j]
             lostClaim == s.status = "running" /\ s.runner # running[j].runner /\ RecordedAlive(s)
  <1>1. /\ st \in [Jobs -> JobState] /\ running \in [Jobs -> Entry \cup {None}]
        /\ UNCHANGED <<st, rp, disp, todo, reqs, plan>> /\ disp = "reap" /\ mark = None
        /\ running[j] # None /\ ~Alive(running[j].runner)
        /\ running' = [running EXCEPT ![j] = IF lostClaim THEN Adopted(s) ELSE None]
    BY DEF TypeInv, TypeOK, Reap
  <1>2. reqs = {} /\ plan = {}
    BY <1>1 DEF LedgerInv, KeptInPlace
  <1>3. KeptInPlace' /\ PlannedApart'
    BY <1>1, <1>2 DEF KeptInPlace, PlannedApart
  <1>4. StartingHasEntry'
    <2>1. \A r \in Runners : Starting(r) => rp[r].job # j
      BY <1>1 DEF LedgerInv, StartingHasEntry, Starting, Passing, Alive
    <2>2. \A r \in Runners : Starting(r) => rp[r].job \in Jobs
      BY DEF TypeInv, SoundRunner, Starting
    <2> QED
      BY <1>1, <2>1, <2>2 DEF LedgerInv, StartingHasEntry, Starting
  <1>5. HeldApart'
    BY <1>1 DEF LedgerInv, HeldApart, Starting
  <1>6. s.status = "running" => \/ running'[j] # None
                                \/ mark' # None /\ mark'.job = j /\ mark'.expect = "running"
    <2>1. CASE lostClaim
      <3>1. Adopted(s) # None
        BY <1>1, <2>1, AdoptedType, NoEntryAssumption
      <3> QED
        BY <1>1, <2>1, <3>1
    <2>2. CASE s.status = "running" /\ ~lostClaim
      <3>1. mark' = RunnerDied(j, "running")
        BY <2>2 DEF Reap
      <3> QED
        BY <3>1, RunnerDiedType, NoEntryAssumption DEF RunnerDied
    <2> QED
      BY <2>1, <2>2
  <1>7. AllLookedAfter'
    BY <1>1, <1>6 DEF LedgerInv, AllLookedAfter, LookedAfter
  <1> QED
    BY <1>3, <1>4, <1>5, <1>7 DEF LedgerInv

\* A marked job leaves the dispatcher's hands finished.
LEMMA MarkLedger ==
  ASSUME TypeInv, ChargeInv, LedgerInv, KillLeftovers \/ WriteMark
  PROVE  LedgerInv'
  <1>1. /\ st \in [Jobs -> JobState] /\ rp \in [Runners -> SoundRunner]
        /\ mark \in Mark /\ mark # None /\ mark.job \in Jobs /\ UNCHANGED <<running, disp, todo, reqs, plan>>
    BY DEF TypeInv, TypeOK, KillLeftovers, WriteMark, Mark
  <1>2. \A q \in Runners : Starting(q)' => Starting(q) /\ SameCharge(rp'[q], rp[q])
    <2>1. CASE KillLeftovers
      <3>1. \A q \in Runners : rp'[q] \in {rp[q], AfterKill(q)}
        BY <1>1, <2>1 DEF KillLeftovers, Mark, JobState, RunnerId
      <3> QED
        BY <1>1, <3>1, AfterKillType DEF Starting, SameCharge
    <2>2. CASE WriteMark
      BY <2>2 DEF WriteMark, Starting, SameCharge
    <2> QED
      BY <2>1, <2>2
  <1>3. ASSUME NEW k \in Jobs, st'[k].status = "running"
        PROVE  st'[k] = st[k]
    <2>1. CASE KillLeftovers
      BY <2>1 DEF KillLeftovers
    <2>2. CASE WriteMark
      <3>1. st' = st \/ st' = [st EXCEPT ![mark.job] = FinishedState(st[mark.job], mark.out)]
        BY <2>2 DEF WriteMark, Finish
      <3>2. FinishedState(st[mark.job], mark.out).status # "running"
        BY <1>1 DEF FinishedState, QueuedState, Mark
      <3> QED
        BY <1>1, <1>3, <3>1, <3>2
    <2> QED
      BY <2>1, <2>2
  <1>4. KeptInPlace' /\ PlannedApart'
    BY <1>1, NoEntryAssumption DEF LedgerInv, KeptInPlace, PlannedApart
  <1>5. StartingHasEntry'
    BY <1>1, <1>2 DEF LedgerInv, StartingHasEntry, SameCharge
  <1>6. HeldApart'
    BY <1>2, <1>3 DEF LedgerInv, HeldApart, SameCharge
  <1>7. AllLookedAfter'
    <2>1. CASE KillLeftovers
      <3>1. mark' \in Mark /\ mark'.job = mark.job /\ mark'.expect = mark.expect
        BY <1>1, <2>1 DEF KillLeftovers, Mark
      <3> QED
        BY <1>1, <1>3, <3>1, NoEntryAssumption DEF LedgerInv, AllLookedAfter, LookedAfter
    <2>2. CASE WriteMark
      <3>1. mark.expect = "running" => st'[mark.job].status # "running"
        <4>1. mark.expect = "running" =>
                st' = [st EXCEPT ![mark.job] = FinishedState(st[mark.job], mark.out)]
          BY <1>1, <2>2 DEF WriteMark, Finish, ChargeInv, MarkedAbandoned
        <4>2. FinishedState(st[mark.job], mark.out).status # "running"
          BY <1>1 DEF FinishedState, QueuedState, Mark
        <4> QED
          BY <1>1, <4>1, <4>2
      <3> QED
        BY <1>1, <1>3, <3>1 DEF LedgerInv, AllLookedAfter, LookedAfter
    <2> QED
      BY <2>1, <2>2
  <1> QED
    BY <1>4, <1>5, <1>6, <1>7 DEF LedgerInv

\* A runner is started on cards that no job, no other new runner and no other
\* decision has.
LEMMA LaunchLedger ==
  ASSUME TypeInv, LedgerInv, NEW j \in Jobs, Launch(j)
  PROVE  LedgerInv'
  <1>1. PICK d \in plan :
          /\ d.job = j /\ ~d.fails
          /\ plan' = plan \ {d}
          /\ \/ UNCHANGED <<rp, running>>
             \/ /\ d.gpus \cap ClaimedGpus = {}
                /\ \E r \in Runners :
                     /\ Fresh(r)
                     /\ rp' = [rp EXCEPT ![r] = [DeadRunner(d.gpus) EXCEPT
                                             !.pc = "starting", !.job = j, !.attempt = d.attempt]]
                     /\ running' = [running EXCEPT ![j] =
                                      [gpus |-> d.gpus, attempt |-> d.attempt, runner |-> r]]
    BY DEF Launch
  <1>2. /\ rp \in [Runners -> SoundRunner] /\ running \in [Jobs -> Entry \cup {None}]
        /\ UNCHANGED <<st, disp, todo, mark, reqs>> /\ disp = "launch" /\ reqs = {} /\ mark = None
        /\ d.gpus \in SUBSET Cards /\ d.attempt \in Nat
    BY DEF TypeInv, TypeOK, Launch, LedgerInv, KeptInPlace, Decision
  <1>3. CASE UNCHANGED <<rp, running>>
    BY <1>1, <1>2, <1>3
       DEF LedgerInv, KeptInPlace, StartingHasEntry, PlannedApart, HeldApart, AllLookedAfter, LookedAfter, Starting
  <1>4. ASSUME NEW r \in Runners, d.gpus \cap ClaimedGpus = {}, Fresh(r),
               rp' = [rp EXCEPT ![r] = [DeadRunner(d.gpus) EXCEPT
                                          !.pc = "starting", !.job = j, !.attempt = d.attempt]],
               running' = [running EXCEPT ![j] = [gpus |-> d.gpus, attempt |-> d.attempt, runner |-> r]]
        PROVE  LedgerInv'
    <2>1. [gpus |-> d.gpus, attempt |-> d.attempt, runner |-> r] \in Entry
      BY <1>2 DEF Entry
    <2>2. /\ running'[j] # None /\ running'[j].gpus = d.gpus /\ running'[j].runner = r
          /\ \A k \in Jobs \ {j} : running'[k] = running[k]
      BY <1>2, <1>4, <2>1, NoEntryAssumption
    <2> DEFINE new == [DeadRunner(d.gpus) EXCEPT !.pc = "starting", !.job = j, !.attempt = d.attempt]
    <2>3. new.pc = "starting" /\ new.job = j /\ new.gpus = d.gpus
      BY DEF DeadRunner
    <2>4. /\ rp'[r].pc = "starting" /\ rp'[r].job = j /\ rp'[r].gpus = d.gpus
          /\ \A q \in Runners \ {r} : rp'[q] = rp[q]
      BY <1>2, <1>4, <2>3
    <2>5. running[j] = None /\ \A e \in plan : e # d => e.job # j /\ d.gpus \cap e.gpus = {}
      BY <1>1 DEF LedgerInv, PlannedApart
    <2>6. \A q \in Runners : Starting(q) =>
            rp[q].job \in Jobs /\ rp[q].job # j /\ d.gpus \cap rp[q].gpus = {}
      <3> SUFFICES ASSUME NEW q \in Runners, Starting(q)
                   PROVE  rp[q].job \in Jobs /\ rp[q].job # j /\ d.gpus \cap rp[q].gpus = {}
        OBVIOUS
      <3>1. rp[q].job \in Jobs
        BY <1>2 DEF SoundRunner, Starting
      <3>2. running[rp[q].job] # None /\ running[rp[q].job].gpus = rp[q].gpus
        BY <1>2 DEF LedgerInv, StartingHasEntry, Passing
      <3>3. d.gpus \cap running[rp[q].job].gpus = {}
        BY <1>1, <3>1, <3>2 DEF LedgerInv, PlannedApart
      <3> QED
        BY <2>5, <3>1, <3>2, <3>3
    <2>7. KeptInPlace'
      BY <1>2 DEF LedgerInv, KeptInPlace
    <2>8. StartingHasEntry'
      BY <1>2, <2>2, <2>4, <2>6 DEF LedgerInv, StartingHasEntry, Starting, Passing
    <2>9. PlannedApart'
      <3>1. \A e \in plan' : e \in plan /\ e # d /\ e.job \in Jobs
        BY <1>1 DEF TypeInv, TypeOK, Decision
      <3>2. \A e \in plan' : running'[e.job] = None
        BY <2>2, <2>5, <3>1 DEF LedgerInv, PlannedApart
      <3>3. \A e \in plan', k \in Jobs : running'[k] # None => e.gpus \cap running'[k].gpus = {}
        BY <2>2, <2>5, <3>1 DEF LedgerInv, PlannedApart
      <3>4. \A e, f \in plan' : ~e.fails /\ e # f => e.job # f.job /\ e.gpus \cap f.gpus = {}
        BY <3>1 DEF LedgerInv, PlannedApart
      <3> QED
        BY <1>2, <3>2, <3>3, <3>4 DEF PlannedApart
    <2>10. HeldApart'
      <3>1. \A k \in Jobs : st[k].status = "running" => d.gpus \cap st[k].gpus = {}
        BY <1>4 DEF ClaimedGpus
      <3> QED
        BY <1>2, <2>4, <2>6, <3>1 DEF LedgerInv, HeldApart, Starting
    <2>11. AllLookedAfter'
      BY <1>2, <2>2 DEF LedgerInv, AllLookedAfter, LookedAfter
    <2> QED
      BY <2>7, <2>8, <2>9, <2>10, <2>11 DEF LedgerInv
  <1> QED
    BY <1>1, <1>3, <1>4

\* The ladder and a failed launch take, and give, nothing.
LEMMA StopLedger ==
  ASSUME TypeInv, LedgerInv, NEW j \in Jobs, Escalate(j) \/ FailQueued(j)
  PROVE  LedgerInv'
  <1>1. /\ st \in [Jobs -> JobState] /\ rp \in [Runners -> SoundRunner]
        /\ UNCHANGED <<running, disp, todo, mark, reqs>>
    BY DEF TypeInv, TypeOK, Escalate, FailQueued
  <1>2. CASE Escalate(j)
    <2>1. \A q \in Runners : rp'[q].pc = "dead" \/ rp'[q] \in {rp[q], AfterKill(q)}
      BY <1>2 DEF Escalate, DeadRunner
    <2>2. \A q \in Runners : Starting(q)' => Starting(q) /\ SameCharge(rp'[q], rp[q])
      BY <1>1, <2>1, AfterKillType DEF Starting, SameCharge
    <2> QED
      BY <1>1, <1>2, <2>2, LedgerKept DEF Escalate
  <1>3. CASE FailQueued(j)
    <2>1. rp' = rp /\ plan' \subseteq plan /\ disp = "launch"
      BY <1>3 DEF FailQueued
    <2>2. \A k \in Jobs : st'[k].status = "running" => st'[k] = st[k]
      <3>1. st' = st \/ st' = [st EXCEPT ![j] = FinishedState(st[j], "failed")]
        BY <1>3 DEF FailQueued, Finish
      <3>2. FinishedState(st[j], "failed").status # "running"
        BY DEF FinishedState, QueuedState
      <3> QED
        BY <1>1, <3>1, <3>2
    <2>3. KeptInPlace' /\ PlannedApart'
      BY <1>1, <2>1 DEF LedgerInv, KeptInPlace, PlannedApart
    <2>4. StartingHasEntry' /\ HeldApart' /\ AllLookedAfter'
      BY <1>1, <2>1, <2>2 DEF LedgerInv, StartingHasEntry, HeldApart, AllLookedAfter, LookedAfter, Starting
    <2> QED
      BY <2>3, <2>4 DEF LedgerInv
  <1> QED
    BY <1>2, <1>3

\* What a dispatcher that is gone does not know is in the states.
LEMMA ForgottenLedger ==
  ASSUME LedgerInv, DispatcherKilled \/ Reboot
  PROVE  LedgerInv'
  <1>1. /\ disp' = "down" /\ mark' = None /\ reqs' = {} /\ plan' = {} /\ st' = st
        /\ \A j \in Jobs : running'[j] = None
    BY DEF DispatcherKilled, Reboot, ForgetDispatcher
  <1>2. \A r \in Runners : Starting(r)' => Starting(r) /\ rp'[r] = rp[r]
    BY DEF DispatcherKilled, Reboot, Starting, DeadRunner
  <1>3. KeptInPlace' /\ PlannedApart' /\ AllLookedAfter' /\ StartingHasEntry'
    BY <1>1 DEF KeptInPlace, PlannedApart, AllLookedAfter, StartingHasEntry, Passing
  <1>4. HeldApart'
    BY <1>1, <1>2 DEF LedgerInv, HeldApart
  <1> QED
    BY <1>3, <1>4 DEF LedgerInv

LEMMA LedgerStep ==
  ASSUME PromptClaim, TypeInv, ChargeInv, LedgerInv, [Next]_vars
  PROVE  LedgerInv'
  <1>1. CASE UNCHANGED vars
    BY <1>1, LedgerKept DEF vars, Starting, SameCharge
  <1>2. CASE Dispatcher
    BY <1>2, InnerStepLedger, PlanLedger, AdoptOrphanLedger, ReapLedger, MarkLedger, LaunchLedger,
       StopLedger DEF Dispatcher
  <1> QED
    BY <1>1, <1>2, ProcessLedger, ForgottenLedger DEF Next

LEMMA InitLedger ==
  ASSUME Init
  PROVE  LedgerInv
  <1>1. /\ disp = "down" /\ mark = None /\ reqs = {} /\ plan = {}
        /\ \A j \in Jobs : running[j] = None /\ st[j].status = "absent"
        /\ \A r \in Runners : ~Starting(r)
    BY DEF Init, QueuedState, DeadRunner, Starting
  <1> QED
    BY <1>1 DEF LedgerInv, KeptInPlace, StartingHasEntry, PlannedApart, HeldApart, AllLookedAfter, Passing

\* If a runner claims before a successor dispatcher starts: whichever dispatcher
\* there is has an entry, or a decision to end it, for every running job.
THEOREM EveryJobSupervised ==
  ASSUME PromptClaim
  PROVE  Spec => []Supervised
  <1>1. Init => TypeInv /\ ChargeInv /\ LedgerInv
    BY InitType, InitLedger DEF Init, ChargeInv, InChargeNamed, MarkedAbandoned, InCharge, DeadRunner
  <1>2. TypeInv /\ ChargeInv /\ LedgerInv /\ [Next]_vars => TypeInv' /\ ChargeInv' /\ LedgerInv'
    BY TypeStep, ChargeStep, LedgerStep
  <1>3. LedgerInv => Supervised
    BY DEF LedgerInv, AllLookedAfter, LookedAfter, Supervised
  <1> QED
    BY <1>1, <1>2, <1>3, PTL DEF Spec

\* With both: no card is ever computed on by the processes of two runners, those
\* a dead runner left behind included, across any number of dispatchers, stops
\* and restarts.
THEOREM CardsAreExclusive ==
  ASSUME PromptClaim, PromptPublish
  PROVE  Spec => []CardsExclusive
  <1> DEFINE Inv == TypeInv /\ ChargeInv /\ PhaseInv /\ LedgerInv
  <1>1. Init => Inv
    BY InitType, InitPhase, InitLedger
       DEF Init, ChargeInv, InChargeNamed, MarkedAbandoned, InCharge, DeadRunner
  <1>2. Inv /\ [Next]_vars => Inv'
    BY TypeStep, ChargeStep, PhaseStep, LedgerStep
  <1>3. Inv => CardsExclusive
    <2> SUFFICES ASSUME Inv, NEW r \in Runners, NEW q \in Runners, r # q, proc[r], proc[q]
                 PROVE  rp[r].gpus \cap rp[q].gpus = {}
      BY DEF CardsExclusive
    <2>1. PICK j \in Jobs : st[j].status = "running" /\ st[j].runner = r /\ st[j].gpus = rp[r].gpus
      BY PhaseOnClaimed
    <2>2. PICK k \in Jobs : st[k].status = "running" /\ st[k].runner = q /\ st[k].gpus = rp[q].gpus
      BY PhaseOnClaimed
    <2> QED
      BY <2>1, <2>2 DEF LedgerInv, HeldApart
  <1> QED
    BY <1>1, <1>2, <1>3, PTL DEF Spec
=============================================================================

--------------------------- MODULE JobFilesProofs ---------------------------
(***************************************************************************)
(* What nobody's delete may take, what the queue has the code of and when  *)
(* the secrets go, for every spec, host config and number of attempts.     *)
(***************************************************************************)
EXTENDS JobFiles, TLAPS

\* The bounds on counters do not matter here.
StType == [status : Statuses, intent : Intents, ran : BOOLEAN, up : Records, mirror : Records,
           lost : BOOLEAN, attempt : Nat, restarts : Nat]
DiskType == [workdir : BOOLEAN, checkout : BOOLEAN, archive : BOOLEAN, out : Nat, kept : BOOLEAN,
             based : BOOLEAN, base : Nat]
RemoteType == [out : Nat, log : Nat]
RpType == [pc : RunnerPc, out : Outcomes, ran : BOOLEAN, coming : BOOLEAN, up : Records]

FilesType ==
  /\ conf \in Conf
  /\ st \in StType
  /\ disk \in DiskType
  /\ remote \in RemoteType
  /\ secrets \in BOOLEAN
  /\ staged \in {"none", "fresh", "stale", "swept", "accepted", "hollow"}
  /\ rp \in RpType
  /\ tick \in Nat
  /\ sweep \in [Sweepers -> Sweep]

Settled == Finished \cup {"purged"}

\* What the host has a state of was enqueued.
StagedFits == staged \notin {"accepted", "hollow"} => st.status = "none"

\* A job is running exactly while a runner, or what is left of one, is at it.
RunnerFits ==
  /\ rp.pc = "none" => st.status # "running"
  /\ rp.pc \in {"ended", "cancelled"} => st.status \in Settled
  /\ rp.pc \notin {"none", "ended", "cancelled"} => st.status = "running"

\* Main has begun and its outputs may still be on their way.
Writing == rp.pc \in {"main", "stopping"} \/ (rp.pc = "ending" /\ rp.ran)

TickFits == (tick # 0 => Writing) /\ (rp.pc = "main" => rp.ran)

\* A runner that ends its job knows how.
OutcomeFits ==
  rp.pc \in {"ending", "stopping", "uploading", "synced", "cleaned", "mirrored"} => rp.out # "none"

\* Only main writes outputs, into a workdir, after the baseline was captured; the
\* baseline is of what the checkout came with.
OutputsFit ==
  /\ disk.out # 0 => conf.outputs /\ st.ran /\ disk.workdir /\ disk.based
  /\ disk.kept => conf.keeps /\ st.ran /\ disk.workdir
  /\ disk.base = 0
  /\ st.status = "none" => disk.out = 0 /\ ~disk.kept
  /\ rp.pc \in {"restored", "ready", "main"} => disk.workdir
  /\ rp.pc \in {"ready", "main"} /\ conf.outputs => disk.based
  /\ rp.pc = "main" => st.ran

\* A success that is recorded is of what is there, but while main may still write,
\* until the last upload, and for a runner that died before it forgot.
Unvouched == Writing \/ rp.pc \in {"uploading", "dead", "rebooted"}
Vouched == st.up = "ok" /\ ~Unvouched /\ disk.out # 0 => remote.out = disk.out

MirrorFits == st.mirror = "ok" => remote.log = st.attempt

\* What a sweep picked is over, and stays so.
PickedOver == \A s \in Sweepers : sweep[s].picked => st.status \in Settled

\* Where nobody typed it, nothing of what it picked was only here, and that holds
\* still when it comes to delete it.
PickedFits ==
  \A s \in Sweepers : sweep[s].picked =>
    /\ sweep[s].by = "automatic" /\ sweep[s].at \in {"purge", "clean"} => ~Unsaved
    /\ sweep[s].by = "automatic" /\ sweep[s].at = "purge" =>
         ~disk.kept /\ remote.log = st.attempt

CopiesInv ==
  /\ FilesType /\ StagedFits /\ RunnerFits /\ TickFits /\ OutcomeFits /\ OutputsFit /\ Vouched /\ MirrorFits
  /\ PickedOver /\ PickedFits /\ OnlyCopiesStay

\* A job that may run again has its code: where a restart wipes the workdir, in
\* the archive too.
CodeKept ==
  /\ staged # "hollow"
  /\ st.status \in {"queued", "running"} /\ (rp.pc \in {"cleaned", "mirrored"} => rp.coming) =>
       HasCheckout /\ (conf.scratch => disk.archive)

\* Until the write that ends a job is settled, its secrets are there.
SecretsHeld ==
  \/ st.status \in {"queued", "running"}
  \/ st.status \in Finished /\ rp.pc \in {"ended", "cancelled"}
  \/ staged \in {"fresh", "stale"}
  => secrets

\* What a cancel found uploaded stays so until it settles the secrets by it.
CancelFits == rp.pc = "cancelled" /\ rp.up = "ok" => st.up = "ok"

-----------------------------------------------------------------------------
\* Types.

LEMMA TypedParts ==
  ASSUME FilesType
  PROVE  /\ {NoRunner, JobEnded} \subseteq RpType /\ Idle \in Sweep /\ NoFiles \in DiskType
         /\ Forgotten(st) \in StType
         /\ \A status \in Statuses : FinishedState(st, status) \in StType
                                     /\ Forgotten(FinishedState(st, status)) \in StType
         /\ \A n \in Nat : QueuedAgain(n) \in StType
         /\ \A state \in StType : WithoutCheckout(state) \in DiskType
  <1>1. {NoRunner, JobEnded} \subseteq RpType /\ Idle \in Sweep /\ NoFiles \in DiskType
    <2>1. NoRunner \in RpType
      BY DEF NoRunner, RpType, Records, RunnerPc, Outcomes
    <2>2. JobEnded \in RpType
      BY <2>1 DEF JobEnded, RpType, RunnerPc
    <2> QED
      BY <2>1, <2>2 DEF Idle, Sweep, Evidence, NoFiles, DiskType
  <1>2. Forgotten(st) \in StType
    BY DEF FilesType, Forgotten, StType, Records
  <1>3. ASSUME NEW status \in Statuses
        PROVE  FinishedState(st, status) \in StType
    BY DEF FilesType, FinishedState, StType, Intents
  <1>4. ASSUME NEW status \in Statuses
        PROVE  Forgotten(FinishedState(st, status)) \in StType
    BY <1>3 DEF Forgotten, StType, Records
  <1>5. ASSUME NEW n \in Nat
        PROVE  QueuedAgain(n) \in StType
    <2>1. st.attempt + 1 \in Nat
      BY DEF FilesType, StType
    <2> QED
      BY <2>1 DEF FilesType, QueuedAgain, StType, Statuses, Intents, Records
  <1>6. ASSUME NEW state \in StType
        PROVE  WithoutCheckout(state) \in DiskType
    BY DEF FilesType, WithoutCheckout, DiskType
  <1> QED
    BY <1>1, <1>2, <1>3, <1>4, <1>5, <1>6

LEMMA TypeStep ==
  ASSUME FilesType, [Next]_vars
  PROVE  FilesType'
  <1> USE DEF FilesType
  <1>1. CASE Stage \/ GoStale \/ RemoveStaleIncoming
    BY <1>1 DEF Stage, GoStale, RemoveStaleIncoming
  <1>2. CASE Enqueue
    BY <1>2 DEF Enqueue, StType, DiskType, Statuses, Conf
  <1>3. CASE Claim
    BY <1>3 DEF Claim, StType, RpType, Records, Statuses, NoRunner, RunnerPc, Outcomes
  <1>4. CASE Restore
    BY <1>4 DEF Restore, DiskType, RpType, Goto, EndAs, RunnerPc, Outcomes, Finished
  <1>5. CASE CaptureOutputBaseline
    BY <1>5 DEF CaptureOutputBaseline, DiskType, RpType, Goto, RunnerPc
  <1>6. CASE FailBeforeMain \/ StoppedBefore \/ MainEnds
    BY <1>6 DEF FailBeforeMain, StoppedBefore, MainEnds, RpType, EndAs, AsAsked, RunnerPc, Outcomes, Finished
  <1>7. CASE StartMain
    BY <1>7 DEF StartMain, StType, RpType, RunnerPc
  <1>8. CASE MainWrites
    <2>1. Newest + 1 \in Nat
      BY DEF Newest, DiskType, RemoteType
    <2>2. disk' \in DiskType
      BY <1>8, <2>1 DEF MainWrites, DiskType, Conf
    <2> QED
      BY <1>8, <2>2 DEF MainWrites
  <1>9. CASE TickBegins
    BY <1>9 DEF TickBegins, DiskType
  <1>10. CASE TickFindsNothing
    BY <1>10 DEF TickFindsNothing, StType, Records
  <1>11. CASE TickEnds
    BY <1>11 DEF TickEnds, StType, RemoteType, Records
  <1>12. CASE BeginFinalize
    BY <1>12 DEF BeginFinalize, Goto, RpType, RunnerPc
  <1>13. CASE ClearOutputUploads
    BY <1>13, TypedParts DEF ClearOutputUploads, Goto, RpType, RunnerPc
  <1>14. CASE FinalUpload
    <2>1. Blame \in Outcomes
      BY DEF Blame, RpType, Outcomes, Finished
    <2>2. rp' \in RpType
      BY <1>14, <2>1 DEF FinalUpload, Goto, RpType, RunnerPc
    <2>3. st' \in StType
      BY <1>14 DEF FinalUpload, StType, Records
    <2>4. remote' \in RemoteType
      BY <1>14 DEF FinalUpload, RemoteType, DiskType
    <2> QED
      BY <1>14, <2>2, <2>3, <2>4 DEF FinalUpload
  <1>15. CASE CleanupWorkdir
    <2>1. [st EXCEPT !.status = IF ComingBack THEN "queued" ELSE Written(rp.out)] \in StType
      BY DEF StType, RpType, Written, Outcomes, Statuses, Finished
    <2> QED
      BY <1>15, <2>1, TypedParts DEF CleanupWorkdir, RemoveWorkdir, RpType, RunnerPc, ComingBack
  <1>16. CASE Mirror
    BY <1>16 DEF Mirror, Goto, StType, RemoteType, RpType, Records, RunnerPc
  <1>17. CASE End
    BY <1>17, TypedParts DEF End, Goto, StType, RpType, Statuses, Finished, Outcomes, Written, RunnerPc
  <1>18. CASE Settles
    BY <1>18, TypedParts DEF Settles, SettleSecrets
  <1>19. CASE RunnerKilled
    BY <1>19 DEF RunnerKilled, NoRunner, RpType, Records, RunnerPc, Outcomes
  <1>20. CASE MarkRunnerDied
    BY <1>20, TypedParts DEF MarkRunnerDied, Statuses, Finished
  <1>21. CASE Reboot
    <2>1. rp' \in RpType
      BY <1>21 DEF Reboot, NoRunner, RpType, Records, RunnerPc, Outcomes
    <2>2. disk' \in DiskType
      <3>1. \/ disk' = disk
            \/ disk' = [disk EXCEPT !.workdir = FALSE, !.checkout = FALSE, !.out = 0, !.kept = FALSE]
        BY <1>21 DEF Reboot
      <3>2. [disk EXCEPT !.workdir = FALSE, !.checkout = FALSE, !.out = 0, !.kept = FALSE] \in DiskType
        BY DEF DiskType
      <3> QED
        BY <3>1, <3>2
    <2>3. sweep' \in [Sweepers -> Sweep]
      BY <1>21, TypedParts DEF Reboot
    <2> QED
      BY <1>21, <2>1, <2>2, <2>3 DEF Reboot
  <1>22. CASE RequeueAfterRestart
    <2>1. st.restarts \in Nat /\ st.restarts + 1 \in Nat
      BY DEF StType
    <2>2. \A status \in {"failed", "cancelled"} : Forgotten(FinishedState(st, status)) \in StType
      BY TypedParts DEF Statuses, Finished
    <2>3. QueuedAgain(st.restarts) \in StType /\ QueuedAgain(st.restarts + 1) \in StType
      BY <2>1, TypedParts
    <2>5. rp' \in RpType
      BY <1>22, TypedParts DEF RequeueAfterRestart
    <2>6. \/ st' = QueuedAgain(st.restarts) \/ st' = QueuedAgain(st.restarts + 1)
          \/ st' = Forgotten(FinishedState(st, "failed")) \/ st' = Forgotten(FinishedState(st, "cancelled"))
      BY <1>22 DEF RequeueAfterRestart
    <2> QED
      BY <1>22, <2>2, <2>3, <2>5, <2>6 DEF RequeueAfterRestart
  <1>23. CASE FailQueued
    BY <1>23, TypedParts DEF FailQueued, Statuses, Finished
  <1>24. CASE Cancel
    <2>1. FinishedState(st, "cancelled") \in StType /\ [st EXCEPT !.intent = "cancel"] \in StType
      BY TypedParts DEF Statuses, Finished, StType, Intents
    <2>2. [NoRunner EXCEPT !.pc = "cancelled", !.up = st.up] \in RpType
      BY DEF NoRunner, RpType, Records, RunnerPc, Outcomes, StType
    <2> QED
      BY <1>24, <2>1, <2>2 DEF Cancel
  <1>25. CASE Preempt
    BY <1>25 DEF Preempt, StType, Intents
  <1>26. CASE DrainUploads
    BY <1>26 DEF DrainUploads, StType, RemoteType, DiskType, Records
  <1>27. ASSUME NEW s \in Sweepers, StartPurge(s)
         PROVE  FilesType'
    BY <1>27 DEF StartPurge, By, Sweep, Evidence, Typed, PurgeCandidate, MayDeleteJobDir
  <1>28. ASSUME NEW s \in Sweepers, PurgeJobDirs(s)
         PROVE  FilesType'
    <2>1. [st EXCEPT !.status = "purged"] \in StType
      BY DEF StType, Statuses
    <2>2. st' \in StType /\ disk' \in DiskType /\ secrets' \in BOOLEAN
      BY <1>28, <2>1, TypedParts DEF PurgeJobDirs
    <2>3. sweep' \in [Sweepers -> Sweep]
      BY <1>28 DEF PurgeJobDirs, Sweep
    <2> QED
      BY <1>28, <2>2, <2>3 DEF PurgeJobDirs
  <1>29. ASSUME NEW s \in Sweepers, StartSweep(s)
         PROVE  FilesType'
    <2>1. \A by : Candidate(by) \in BOOLEAN
      BY DEF Candidate, HasCheckout, DiskType
    <2>2. By(s) \subseteq Evidence
      BY DEF By, Evidence
    <2>3. sweep' \in [Sweepers -> Sweep]
      <3>1. CASE sweep' = [sweep EXCEPT ![s].at = "clean", ![s].picked = Candidate(sweep[s].by)]
        BY <2>1, <3>1 DEF Sweep
      <3>2. CASE \E by \in By(s) \cap {"automatic", "clean"} :
                   sweep' = [sweep EXCEPT ![s] = [by |-> by, at |-> "clean", picked |-> Candidate(by)]]
        BY <2>1, <2>2, <3>2 DEF Sweep
      <3> QED
        BY <1>29, <3>1, <3>2 DEF StartSweep
    <2> QED
      BY <1>29, <2>3 DEF StartSweep
  <1>30. ASSUME NEW s \in Sweepers, SweepWorkdirs(s)
         PROVE  FilesType'
    BY <1>30, TypedParts DEF SweepWorkdirs, RemoveWorkdir
  <1>31. CASE UNCHANGED vars
    BY <1>31 DEF vars
  <1> QED
    BY <1>1, <1>2, <1>3, <1>4, <1>5, <1>6, <1>7, <1>8, <1>9, <1>10, <1>11, <1>12, <1>13, <1>14, <1>15, <1>16,
       <1>17, <1>18, <1>19, <1>20, <1>21, <1>22, <1>23, <1>24, <1>25, <1>26, <1>27, <1>28, <1>29, <1>30, <1>31
       DEF Next

\* What the writes that end or requeue a job leave of its state.
LEMMA StWrites ==
  ASSUME FilesType
  PROVE  /\ \A status \in Statuses :
              LET new == FinishedState(st, status)
              IN  /\ new.status = status /\ new.ran = st.ran /\ new.up = st.up
                  /\ new.mirror = st.mirror /\ new.attempt = st.attempt
         /\ \A state \in StType :
              LET new == Forgotten(state)
              IN  /\ new.status = state.status /\ new.ran = state.ran /\ new.up # "ok"
                  /\ new.mirror = state.mirror /\ new.attempt = state.attempt
         /\ \A n \in Nat :
              LET new == QueuedAgain(n)
              IN  /\ new.status = "queued" /\ new.ran = st.ran /\ new.up = "none"
                  /\ new.mirror = "none"
  <1>1. ASSUME NEW status \in Statuses
        PROVE  LET new == FinishedState(st, status)
               IN  /\ new.status = status /\ new.ran = st.ran /\ new.up = st.up
                   /\ new.mirror = st.mirror /\ new.attempt = st.attempt
    BY DEF FilesType, StType, FinishedState
  <1>2. ASSUME NEW state \in StType
        PROVE  LET new == Forgotten(state)
               IN  /\ new.status = state.status /\ new.ran = state.ran /\ new.up # "ok"
                   /\ new.mirror = state.mirror /\ new.attempt = state.attempt
    BY DEF StType, Forgotten
  <1>3. ASSUME NEW n \in Nat
        PROVE  LET new == QueuedAgain(n)
               IN  /\ new.status = "queued" /\ new.ran = st.ran /\ new.up = "none"
                   /\ new.mirror = "none"
    BY DEF FilesType, StType, QueuedAgain
  <1> QED
    BY <1>1, <1>2, <1>3

\* The same, operation by operation, with where the runner is then.
SameRun == st'.status = st.status /\ st'.ran = st.ran /\ st'.attempt = st.attempt
Over == st'.status \in Finished /\ st'.ran = st.ran /\ st'.mirror = st.mirror /\ st'.attempt = st.attempt
Again == st'.status = "queued" /\ st'.ran = st.ran /\ st'.up = "none" /\ st'.mirror = "none"
Cancelled == [NoRunner EXCEPT !.pc = "cancelled", !.up = st.up]
AtEnd(pc) == rp' \in RpType /\ rp'.pc = pc /\ rp'.ran = rp.ran

LEMMA RunnerWrites ==
  ASSUME FilesType, OutcomeFits
  PROVE  /\ MainEnds => AtEnd("ending")
         /\ TickEnds => SameRun /\ st'.mirror = st.mirror
         /\ FinalUpload => /\ SameRun /\ st'.mirror = st.mirror /\ AtEnd("synced")
                           /\ rp'.coming = rp.coming
         /\ CleanupWorkdir => AtEnd("cleaned") /\ rp'.coming = ComingBack
         /\ Mirror => SameRun /\ st'.up = st.up /\ AtEnd("mirrored") /\ rp'.coming = rp.coming
         /\ End => \/ Again /\ rp' = NoRunner /\ rp.coming
                   \/ Over /\ st'.up = st.up /\ AtEnd("ended")
  <1> USE DEF FilesType
  <1>1. ASSUME MainEnds
        PROVE  AtEnd("ending")
    <2>1. PICK out \in Outcomes : rp' = [rp EXCEPT !.pc = "ending", !.out = out]
      BY <1>1 DEF MainEnds, EndAs, AsAsked, Outcomes, Finished
    <2> QED
      BY <2>1 DEF AtEnd, RpType, RunnerPc
  <1>2. ASSUME TickEnds
        PROVE  SameRun /\ st'.mirror = st.mirror
    <2>1. st' = [st EXCEPT !.up = "ok"] \/ st' = [st EXCEPT !.up = "error"]
      BY <1>2 DEF TickEnds
    <2> QED
      BY <2>1 DEF SameRun, StType
  <1>3. ASSUME FinalUpload
        PROVE  SameRun /\ st'.mirror = st.mirror /\ AtEnd("synced") /\ rp'.coming = rp.coming
    <2>1. \E r : st' = [st EXCEPT !.up = r]
      BY <1>3 DEF FinalUpload
    <2>2. SameRun /\ st'.mirror = st.mirror
      BY <2>1 DEF SameRun, StType
    <2>3. Blame \in Outcomes
      BY DEF Blame, RpType, Outcomes, Finished
    <2>4. rp' = [rp EXCEPT !.pc = "synced"] \/ rp' = [rp EXCEPT !.pc = "synced", !.out = Blame]
      BY <1>3 DEF FinalUpload, Goto
    <2>5. AtEnd("synced") /\ rp'.coming = rp.coming
      BY <2>3, <2>4 DEF AtEnd, RpType, RunnerPc
    <2> QED
      BY <2>2, <2>5
  <1>4. ASSUME CleanupWorkdir
        PROVE  AtEnd("cleaned") /\ rp'.coming = ComingBack
    <2>1. rp' = [rp EXCEPT !.pc = "cleaned", !.coming = ComingBack]
      BY <1>4 DEF CleanupWorkdir
    <2>2. ComingBack \in BOOLEAN
      BY DEF ComingBack
    <2> HIDE DEF ComingBack
    <2> QED
      BY <2>1, <2>2 DEF AtEnd, RpType, RunnerPc
  <1>5. ASSUME Mirror
        PROVE  SameRun /\ st'.up = st.up /\ AtEnd("mirrored") /\ rp'.coming = rp.coming
    <2>1. (st' = st \/ \E r : st' = [st EXCEPT !.mirror = r]) /\ rp' = [rp EXCEPT !.pc = "mirrored"]
      BY <1>5 DEF Mirror, Goto
    <2>2. SameRun /\ st'.up = st.up
      BY <2>1 DEF SameRun, StType
    <2>3. AtEnd("mirrored") /\ rp'.coming = rp.coming
      BY <2>1 DEF AtEnd, RpType, RunnerPc
    <2> QED
      BY <2>2, <2>3
  <1>6. ASSUME End
        PROVE  \/ Again /\ rp' = NoRunner /\ rp.coming
               \/ Over /\ st'.up = st.up /\ AtEnd("ended")
    <2>1. CASE rp.coming /\ st.intent = "preempt"
      <3>1. st' = QueuedAgain(st.restarts) /\ rp' = NoRunner /\ st.restarts \in Nat
        BY <1>6, <2>1 DEF End, StType
      <3> QED
        BY <2>1, <3>1, StWrites DEF Again
    <2>2. CASE ~(rp.coming /\ st.intent = "preempt")
      <3>1. PICK out \in Finished : st' = FinishedState(st, out)
        <4> DEFINE out == IF rp.out = "preempted" /\ st.intent = "cancel" THEN "cancelled" ELSE Written(rp.out)
        <4>1. st' = FinishedState(st, out)
          BY <1>6, <2>2 DEF End
        <4>2. out \in Finished
          BY <1>6 DEF End, OutcomeFits, Written, RpType, Outcomes, Finished
        <4> HIDE DEF out
        <4> QED
          BY <4>1, <4>2
      <3>2. rp' = [rp EXCEPT !.pc = "ended"]
        BY <1>6, <2>2 DEF End, Goto
      <3>3. AtEnd("ended")
        BY <3>2 DEF AtEnd, RpType, RunnerPc
      <3> QED
        BY <3>1, <3>3, StWrites DEF Over, Statuses
    <2> QED
      BY <2>1, <2>2
  <1> QED
    BY <1>1, <1>2, <1>3, <1>4, <1>5, <1>6

LEMMA DispatcherWrites ==
  ASSUME FilesType
  PROVE  /\ MarkRunnerDied => Over /\ st'.up # "ok" /\ rp' = JobEnded
         /\ RequeueAfterRestart => \/ Again /\ rp' = NoRunner
                                   \/ Over /\ st'.up # "ok" /\ rp' = JobEnded
         /\ FailQueued => Over /\ st'.up = st.up /\ rp' = JobEnded
         /\ Cancel => /\ st'.up = st.up
                      /\ \/ st.status = "queued" /\ Over /\ rp' = Cancelled
                         \/ st.status = "running" /\ SameRun /\ st'.mirror = st.mirror /\ rp' = rp
         /\ DrainUploads => SameRun /\ st'.mirror = st.mirror
  <1> USE DEF FilesType
  <1>1. ASSUME NEW status \in Finished, st' = Forgotten(FinishedState(st, status))
        PROVE  Over /\ st'.up # "ok"
    <2>1. status \in Statuses
      BY DEF Statuses
    <2>2. FinishedState(st, status) \in StType
      BY <2>1, TypedParts
    <2> QED
      BY <1>1, <2>1, <2>2, StWrites DEF Over
  <1>2. ASSUME NEW status \in Finished, st' = FinishedState(st, status)
        PROVE  Over /\ st'.up = st.up
    BY <1>2, StWrites DEF Over, Statuses
  <1>3. ASSUME NEW n \in Nat, st' = QueuedAgain(n)
        PROVE  Again
    BY <1>3, StWrites DEF Again
  <1>4. MarkRunnerDied => Over /\ st'.up # "ok" /\ rp' = JobEnded
    BY <1>1 DEF MarkRunnerDied, Finished
  <1>5. ASSUME RequeueAfterRestart
        PROVE  \/ Again /\ rp' = NoRunner
               \/ Over /\ st'.up # "ok" /\ rp' = JobEnded
    <2>1. st.restarts \in Nat /\ st.restarts + 1 \in Nat
      BY DEF StType
    <2>2. \/ (st' = QueuedAgain(st.restarts) \/ st' = QueuedAgain(st.restarts + 1)) /\ rp' = NoRunner
          \/ /\ st' = Forgotten(FinishedState(st, "failed")) \/ st' = Forgotten(FinishedState(st, "cancelled"))
             /\ rp' = JobEnded
      BY <1>5 DEF RequeueAfterRestart
    <2>3. CASE (st' = QueuedAgain(st.restarts) \/ st' = QueuedAgain(st.restarts + 1)) /\ rp' = NoRunner
      <3>1. CASE st' = QueuedAgain(st.restarts)
        BY <1>3, <2>1, <2>3, <3>1
      <3>2. CASE st' = QueuedAgain(st.restarts + 1)
        BY <1>3, <2>1, <2>3, <3>2
      <3> QED
        BY <2>3, <3>1, <3>2
    <2>4. CASE /\ st' = Forgotten(FinishedState(st, "failed")) \/ st' = Forgotten(FinishedState(st, "cancelled"))
               /\ rp' = JobEnded
      <3>1. {"failed", "cancelled"} \subseteq Finished
        BY DEF Finished
      <3>2. CASE st' = Forgotten(FinishedState(st, "failed"))
        BY <1>1, <2>4, <3>1, <3>2
      <3>3. CASE st' = Forgotten(FinishedState(st, "cancelled"))
        BY <1>1, <2>4, <3>1, <3>3
      <3> QED
        BY <2>4, <3>2, <3>3
    <2> QED
      BY <2>2, <2>3, <2>4
  <1>6. FailQueued => Over /\ st'.up = st.up /\ rp' = JobEnded
    BY <1>2 DEF FailQueued, Finished
  <1>7. ASSUME Cancel
        PROVE  /\ st'.up = st.up
               /\ \/ st.status = "queued" /\ Over /\ rp' = Cancelled
                  \/ st.status = "running" /\ SameRun /\ st'.mirror = st.mirror /\ rp' = rp
    <2>1. CASE st.status = "queued" /\ st' = FinishedState(st, "cancelled") /\ rp' = Cancelled
      BY <1>2, <2>1 DEF Finished
    <2>2. CASE st.status = "running" /\ st' = [st EXCEPT !.intent = "cancel"] /\ rp' = rp
      BY <2>2 DEF SameRun, StType
    <2> QED
      BY <1>7, <2>1, <2>2 DEF Cancel, Cancelled
  <1>8. ASSUME DrainUploads
        PROVE  SameRun /\ st'.mirror = st.mirror
    <2>1. \E r, lost : st' = [st EXCEPT !.up = r, !.lost = lost]
      BY <1>8 DEF DrainUploads
    <2> QED
      BY <2>1 DEF SameRun, StType
  <1> QED
    BY <1>4, <1>5, <1>6, <1>7, <1>8

LEMMA FitsStep ==
  ASSUME FilesType, OutcomeFits, StagedFits, RunnerFits, TickFits, PickedOver, [Next]_vars
  PROVE  StagedFits' /\ RunnerFits' /\ TickFits'
  <1>1. CASE Stage
    BY <1>1 DEF Stage, StagedFits, RunnerFits, TickFits, Writing, FilesType, StType, Goto, NoRunner, RpType,
       Settled, Finished
  <1>2. CASE GoStale
    BY <1>2 DEF GoStale, StagedFits, RunnerFits, TickFits, Writing, FilesType, StType, Goto, NoRunner,
       RpType, Settled, Finished
  <1>3. CASE RemoveStaleIncoming
    BY <1>3 DEF RemoveStaleIncoming, StagedFits, RunnerFits, TickFits, Writing, Settled, Finished
  <1>4. CASE Enqueue
    BY <1>4 DEF Enqueue, StagedFits, RunnerFits, TickFits, Writing, FilesType, StType, Goto, NoRunner,
       RpType, Settled, Finished
  <1>5. CASE Claim
    BY <1>5 DEF Claim, StagedFits, RunnerFits, TickFits, Writing, FilesType, StType, Goto, NoRunner, RpType,
       Settled, Finished
  <1>6. CASE Restore
    BY <1>6 DEF Restore, EndAs, StagedFits, RunnerFits, TickFits, Writing, FilesType, Goto, RpType, Settled,
       Finished
  <1>7. CASE CaptureOutputBaseline
    BY <1>7 DEF CaptureOutputBaseline, StagedFits, RunnerFits, TickFits, Writing, FilesType, Goto, RpType,
       Settled, Finished
  <1>8. CASE FailBeforeMain
    BY <1>8 DEF FailBeforeMain, EndAs, StagedFits, RunnerFits, TickFits, Writing, FilesType, RpType,
       Settled, Finished
  <1>9. CASE StoppedBefore
    BY <1>9 DEF StoppedBefore, EndAs, StagedFits, RunnerFits, TickFits, Writing, FilesType, RpType, Settled,
       Finished
  <1>10. CASE StartMain
    BY <1>10 DEF StartMain, StagedFits, RunnerFits, TickFits, Writing, FilesType, StType, RpType, Settled,
       Finished
  <1>11. CASE MainWrites
    BY <1>11 DEF MainWrites, StagedFits, RunnerFits, TickFits, Writing, FilesType, Settled, Finished
  <1>12. CASE MainEnds
    <2>1. AtEnd("ending") /\ UNCHANGED <<st, staged, tick>> /\ rp.pc = "main"
      BY <1>12, RunnerWrites DEF MainEnds
    <2> QED
      BY <2>1 DEF AtEnd, StagedFits, RunnerFits, TickFits, Writing
  <1>13. CASE TickBegins
    BY <1>13 DEF TickBegins, StagedFits, RunnerFits, TickFits, Writing, Settled, Finished
  <1>14. CASE TickFindsNothing
    BY <1>14 DEF TickFindsNothing, StagedFits, RunnerFits, TickFits, Writing, FilesType, StType, Settled,
       Finished
  <1>15. CASE TickEnds
    BY <1>15, RunnerWrites DEF TickEnds, SameRun, StagedFits, RunnerFits, TickFits, Writing, FilesType,
       Settled, Finished
  <1>16. CASE BeginFinalize
    BY <1>16 DEF BeginFinalize, StagedFits, RunnerFits, TickFits, Writing, FilesType, Goto, RpType, Settled,
       Finished
  <1>17. CASE ClearOutputUploads
    <2>1. st'.status = st.status /\ UNCHANGED <<staged, tick>> /\ tick = 0 /\ rp.pc = "stopping"
      BY <1>17, StWrites DEF ClearOutputUploads, FilesType
    <2>2. rp'.pc = "uploading"
      BY <1>17 DEF ClearOutputUploads, Goto, FilesType, RpType
    <2> QED
      BY <2>1, <2>2 DEF StagedFits, RunnerFits, TickFits, Writing
  <1>18. CASE FinalUpload
    BY <1>18, RunnerWrites DEF FinalUpload, AtEnd, SameRun, StagedFits, RunnerFits, TickFits, Writing,
       FilesType, Goto, RpType, Settled, Finished
  <1>19. CASE CleanupWorkdir
    BY <1>19, RunnerWrites DEF CleanupWorkdir, AtEnd, StagedFits, RunnerFits, TickFits, Writing, FilesType,
       RpType, Settled, Finished
  <1>20. CASE Mirror
    BY <1>20, RunnerWrites DEF Mirror, AtEnd, SameRun, StagedFits, RunnerFits, TickFits, Writing, FilesType,
       Goto, RpType, Settled, Finished
  <1>21. CASE End
    BY <1>21, RunnerWrites DEF End, AtEnd, Over, Again, StagedFits, RunnerFits, TickFits, Writing,
       FilesType, Goto, NoRunner, RpType, Settled, Finished
  <1>22. CASE Settles
    BY <1>22 DEF Settles, StagedFits, RunnerFits, TickFits, Writing, NoRunner, Settled, Finished
  <1>23. CASE RunnerKilled
    BY <1>23 DEF RunnerKilled, StagedFits, RunnerFits, TickFits, Writing, NoRunner, Settled, Finished
  <1>24. CASE MarkRunnerDied
    BY <1>24, DispatcherWrites DEF MarkRunnerDied, JobEnded, Over, StagedFits, RunnerFits, TickFits, Writing,
       FilesType, NoRunner, Settled, Finished
  <1>25. CASE Reboot
    BY <1>25 DEF Reboot, StagedFits, RunnerFits, TickFits, Writing, FilesType, StType, Goto, NoRunner,
       RpType, Settled, Finished
  <1>26. CASE RequeueAfterRestart
    BY <1>26, DispatcherWrites DEF RequeueAfterRestart, JobEnded, Over, Again, StagedFits, RunnerFits, TickFits,
       Writing, FilesType, NoRunner, Settled, Finished
  <1>27. CASE FailQueued
    BY <1>27, DispatcherWrites DEF FailQueued, JobEnded, NoRunner, Over, StagedFits, RunnerFits, TickFits, Writing, FilesType,
       Settled, Finished
  <1>28. CASE Cancel
    BY <1>28, DispatcherWrites DEF Cancel, Cancelled, NoRunner, SameRun, Over, StagedFits, RunnerFits, TickFits, Writing,
       FilesType, Settled, Finished
  <1>29. CASE Preempt
    BY <1>29 DEF Preempt, StagedFits, RunnerFits, TickFits, Writing, FilesType, StType, Goto, NoRunner,
       RpType, Settled, Finished
  <1>30. CASE DrainUploads
    BY <1>30, DispatcherWrites DEF DrainUploads, SameRun, StagedFits, RunnerFits, TickFits, Writing,
       FilesType, Settled, Finished
  <1>31. ASSUME NEW s \in Sweepers, StartPurge(s)
        PROVE  StagedFits' /\ RunnerFits' /\ TickFits'
    BY <1>31 DEF StartPurge, StagedFits, RunnerFits, TickFits, Writing, Settled, Finished
  <1>32. ASSUME NEW s \in Sweepers, PurgeJobDirs(s)
        PROVE  StagedFits' /\ RunnerFits' /\ TickFits'
    <2>1. UNCHANGED <<staged, tick, rp>> /\ (st' = st \/ (sweep[s].picked /\ st' = [st EXCEPT !.status = "purged"]))
      BY <1>32 DEF PurgeJobDirs
    <2> QED
      BY <2>1 DEF StagedFits, RunnerFits, TickFits, Writing, PickedOver, FilesType, StType, Settled, Finished
  <1>33. ASSUME NEW s \in Sweepers, StartSweep(s)
        PROVE  StagedFits' /\ RunnerFits' /\ TickFits'
    BY <1>33 DEF StartSweep, StagedFits, RunnerFits, TickFits, Writing, Settled, Finished
  <1>34. ASSUME NEW s \in Sweepers, SweepWorkdirs(s)
        PROVE  StagedFits' /\ RunnerFits' /\ TickFits'
    BY <1>34 DEF SweepWorkdirs, StagedFits, RunnerFits, TickFits, Writing, Settled, Finished
  <1>35. CASE UNCHANGED vars
    BY <1>35 DEF vars, StagedFits, RunnerFits, TickFits, Writing, FilesType, StType, Goto, NoRunner, RpType,
       Settled, Finished
  <1> QED
    BY <1>1, <1>2, <1>3, <1>4, <1>5, <1>6, <1>7, <1>8, <1>9, <1>10, <1>11, <1>12, <1>13, <1>14, <1>15,
       <1>16, <1>17, <1>18, <1>19, <1>20, <1>21, <1>22, <1>23, <1>24, <1>25, <1>26, <1>27, <1>28, <1>29,
       <1>30, <1>31, <1>32, <1>33, <1>34, <1>35 DEF Next

LEMMA OutcomeStep ==
  ASSUME FilesType, OutcomeFits, [Next]_vars
  PROVE  OutcomeFits'
  <1>1. CASE Stage
    BY <1>1 DEF Stage, OutcomeFits, FilesType, Goto, NoRunner, RpType
  <1>2. CASE GoStale
    BY <1>2 DEF GoStale, OutcomeFits, FilesType, Goto, NoRunner, RpType
  <1>3. CASE RemoveStaleIncoming
    BY <1>3 DEF RemoveStaleIncoming, OutcomeFits, FilesType, Goto, NoRunner, RpType
  <1>4. CASE Enqueue
    BY <1>4 DEF Enqueue, OutcomeFits, FilesType, Goto, NoRunner, RpType
  <1>5. CASE Claim
    BY <1>5 DEF Claim, OutcomeFits, FilesType, Goto, NoRunner, RpType
  <1>6. CASE Restore
    BY <1>6 DEF Restore, EndAs, AsAsked, OutcomeFits, FilesType, Goto, NoRunner, RpType
  <1>7. CASE CaptureOutputBaseline
    BY <1>7 DEF CaptureOutputBaseline, OutcomeFits, FilesType, Goto, NoRunner, RpType
  <1>8. CASE FailBeforeMain
    BY <1>8 DEF FailBeforeMain, EndAs, AsAsked, OutcomeFits, FilesType, Goto, NoRunner, RpType
  <1>9. CASE StoppedBefore
    BY <1>9 DEF StoppedBefore, EndAs, AsAsked, OutcomeFits, FilesType, Goto, NoRunner, RpType
  <1>10. CASE StartMain
    BY <1>10 DEF StartMain, OutcomeFits, FilesType, Goto, NoRunner, RpType
  <1>11. CASE MainWrites
    BY <1>11 DEF MainWrites, OutcomeFits, FilesType, Goto, NoRunner, RpType
  <1>12. CASE MainEnds
    BY <1>12 DEF MainEnds, EndAs, AsAsked, OutcomeFits, FilesType, Goto, NoRunner, RpType
  <1>13. CASE TickBegins
    BY <1>13 DEF TickBegins, OutcomeFits, FilesType, Goto, NoRunner, RpType
  <1>14. CASE TickFindsNothing
    BY <1>14 DEF TickFindsNothing, OutcomeFits, FilesType, Goto, NoRunner, RpType
  <1>15. CASE TickEnds
    BY <1>15 DEF TickEnds, OutcomeFits, FilesType, Goto, NoRunner, RpType
  <1>16. CASE BeginFinalize
    BY <1>16 DEF BeginFinalize, OutcomeFits, FilesType, Goto, NoRunner, RpType
  <1>17. CASE ClearOutputUploads
    BY <1>17 DEF ClearOutputUploads, OutcomeFits, FilesType, Goto, NoRunner, RpType
  <1>18. CASE FinalUpload
    <2>1. rp.out # "none" /\ Blame # "none"
      BY <1>18 DEF FinalUpload, OutcomeFits, Blame
    <2>2. rp' = [rp EXCEPT !.pc = "synced"] \/ rp' = [rp EXCEPT !.pc = "synced", !.out = Blame]
      BY <1>18 DEF FinalUpload, Goto
    <2> QED
      BY <2>1, <2>2 DEF OutcomeFits, FilesType, RpType
  <1>19. CASE CleanupWorkdir
    BY <1>19 DEF CleanupWorkdir, OutcomeFits, FilesType, Goto, NoRunner, RpType
  <1>20. CASE Mirror
    BY <1>20 DEF Mirror, OutcomeFits, FilesType, Goto, NoRunner, RpType
  <1>21. CASE End
    BY <1>21 DEF End, OutcomeFits, FilesType, Goto, NoRunner, RpType
  <1>22. CASE Settles
    BY <1>22 DEF Settles, OutcomeFits, FilesType, Goto, NoRunner, RpType
  <1>23. CASE RunnerKilled
    BY <1>23 DEF RunnerKilled, OutcomeFits, FilesType, Goto, NoRunner, RpType
  <1>24. CASE MarkRunnerDied
    BY <1>24 DEF MarkRunnerDied, OutcomeFits, JobEnded, NoRunner
  <1>25. CASE Reboot
    BY <1>25 DEF Reboot, OutcomeFits, FilesType, Goto, NoRunner, RpType
  <1>26. CASE RequeueAfterRestart
    BY <1>26 DEF RequeueAfterRestart, OutcomeFits, JobEnded, NoRunner
  <1>27. CASE FailQueued
    BY <1>27 DEF FailQueued, OutcomeFits, JobEnded, NoRunner
  <1>28. CASE Cancel
    BY <1>28 DEF Cancel, OutcomeFits, FilesType, Goto, NoRunner, RpType
  <1>29. CASE Preempt
    BY <1>29 DEF Preempt, OutcomeFits, FilesType, Goto, NoRunner, RpType
  <1>30. CASE DrainUploads
    BY <1>30 DEF DrainUploads, OutcomeFits, FilesType, Goto, NoRunner, RpType
  <1>31. ASSUME NEW s \in Sweepers, StartPurge(s)
        PROVE  OutcomeFits'
    BY <1>31 DEF StartPurge, OutcomeFits, FilesType, Goto, NoRunner, RpType
  <1>32. ASSUME NEW s \in Sweepers, PurgeJobDirs(s)
        PROVE  OutcomeFits'
    BY <1>32 DEF PurgeJobDirs, OutcomeFits, FilesType, Goto, NoRunner, RpType
  <1>33. ASSUME NEW s \in Sweepers, StartSweep(s)
        PROVE  OutcomeFits'
    BY <1>33 DEF StartSweep, OutcomeFits, FilesType, Goto, NoRunner, RpType
  <1>34. ASSUME NEW s \in Sweepers, SweepWorkdirs(s)
        PROVE  OutcomeFits'
    BY <1>34 DEF SweepWorkdirs, OutcomeFits, FilesType, Goto, NoRunner, RpType
  <1>35. CASE UNCHANGED vars
    BY <1>35 DEF vars, OutcomeFits, FilesType, Goto, NoRunner, RpType
  <1> QED
    BY <1>1, <1>2, <1>3, <1>4, <1>5, <1>6, <1>7, <1>8, <1>9, <1>10, <1>11, <1>12, <1>13, <1>14, <1>15,
       <1>16, <1>17, <1>18, <1>19, <1>20, <1>21, <1>22, <1>23, <1>24, <1>25, <1>26, <1>27, <1>28, <1>29,
       <1>30, <1>31, <1>32, <1>33, <1>34, <1>35 DEF Next


-----------------------------------------------------------------------------
\* Deletes.

\* A removal takes all outputs or nothing, and leaves kept ones in their workdir.
LEMMA Removal ==
  ASSUME FilesType, NEW state \in StType, NEW by, RemoveWorkdir(state, by)
  PROVE  /\ disk'.based = disk.based /\ disk'.base = disk.base /\ disk'.out \in {0, disk.out}
         /\ disk' = disk \/ (disk'.out = 0 /\ (disk'.kept => disk.kept /\ disk'.workdir))
         /\ took' \subseteq took \cup {by}
         /\ ~Unsaved => took' = took
  <1>1. disk \in DiskType /\ disk' = WithoutCheckout(state) /\ took' = took \cup {b \in {by} : Unsaved /\ disk'.out # disk.out}
    BY DEF RemoveWorkdir, FilesType
  <1>2. CASE disk' = disk
    BY <1>1, <1>2
  <1>3. CASE disk.workdir /\ disk' = [disk EXCEPT !.checkout = FALSE, !.archive = FALSE, !.out = 0]
    BY <1>1, <1>3 DEF DiskType
  <1>4. CASE disk' = [disk EXCEPT !.workdir = FALSE, !.checkout = FALSE, !.archive = FALSE, !.out = 0,
                                  !.kept = FALSE]
    BY <1>1, <1>4 DEF DiskType
  <1> QED
    BY <1>1, <1>2, <1>3, <1>4 DEF WithoutCheckout

\* Once a job is over it stays so, and what is saved of it stays saved.
Quiet ==
  /\ st'.status \in Settled /\ st'.attempt = st.attempt /\ remote'.log = remote.log
  /\ disk'.out \in {0, disk.out} /\ (disk'.kept => disk.kept)
  /\ remote'.out \in {remote.out, disk.out}

LEMMA SettledStays ==
  ASSUME FilesType, OutcomeFits, StagedFits, RunnerFits, TickFits, PickedOver, [Next]_vars,
         st.status \in Settled
  PROVE  Quiet
  <1>1. /\ st \in StType /\ disk \in DiskType /\ remote \in RemoteType
        /\ rp.pc \in {"none", "ended", "cancelled"} /\ tick = 0 /\ staged \in {"accepted", "hollow"}
        /\ st.status \notin {"none", "queued", "running"}
    BY DEF FilesType, StagedFits, RunnerFits, TickFits, Writing, Settled, Finished
  <1>2. ASSUME UNCHANGED <<disk, remote>>, st' = st \/ st' = [st EXCEPT !.status = "purged"]
        PROVE  Quiet
    BY <1>1, <1>2 DEF Quiet, StType, Settled
  <1>3. CASE Reboot
    <2>1. st' = st /\ remote' = remote /\ (disk' = disk \/ disk' = [disk EXCEPT !.workdir = FALSE, !.checkout = FALSE, !.out = 0, !.kept = FALSE])
      BY <1>3 DEF Reboot
    <2>2. disk'.out \in {0, disk.out} /\ (disk'.kept => disk.kept)
      BY <1>1, <2>1 DEF DiskType
    <2> QED
      BY <2>1, <2>2 DEF Quiet
  <1>4. CASE DrainUploads
    <2>1. disk' = disk /\ (remote' = remote \/ remote' = [remote EXCEPT !.out = disk.out])
      BY <1>4 DEF DrainUploads
    <2>2. remote'.log = remote.log /\ remote'.out \in {remote.out, disk.out}
      BY <1>1, <2>1 DEF RemoteType
    <2>3. SameRun
      BY <1>4, DispatcherWrites
    <2> QED
      BY <2>1, <2>2, <2>3 DEF Quiet, SameRun
  <1>5. ASSUME NEW s \in Sweepers, PurgeJobDirs(s)
        PROVE  Quiet
    <2>1. remote' = remote /\ (UNCHANGED <<st, disk>> \/ (st' = [st EXCEPT !.status = "purged"] /\ disk' = NoFiles))
      BY <1>5 DEF PurgeJobDirs
    <2>2. NoFiles.out = 0 /\ NoFiles.kept = FALSE
      BY DEF NoFiles
    <2> QED
      BY <1>1, <2>1, <2>2 DEF Quiet, StType, Settled
  <1>6. ASSUME NEW s \in Sweepers, SweepWorkdirs(s)
        PROVE  Quiet
    <2>1. UNCHANGED <<st, remote>> /\ (disk' = disk \/ RemoveWorkdir(st, sweep[s].by))
      BY <1>6 DEF SweepWorkdirs
    <2>2. disk'.out \in {0, disk.out} /\ (disk'.kept => disk.kept)
      BY <1>1, <2>1, Removal
    <2> QED
      BY <2>1, <2>2 DEF Quiet
  <1>7. CASE Settles \/ RunnerKilled \/ UNCHANGED vars \/ (\E s \in Sweepers : StartPurge(s) \/ StartSweep(s))
    BY <1>2, <1>7 DEF Settles, RunnerKilled, vars, StartPurge, StartSweep
  <1>8. CASE \/ Stage \/ GoStale \/ RemoveStaleIncoming \/ Enqueue \/ Claim \/ FailQueued \/ Cancel \/ Preempt
    BY <1>1, <1>8 DEF Stage, GoStale, RemoveStaleIncoming, Enqueue, Claim, FailQueued, Cancel, Preempt
  <1>9. CASE \/ Restore \/ CaptureOutputBaseline \/ FailBeforeMain \/ StoppedBefore \/ StartMain \/ MainWrites
             \/ MainEnds \/ TickBegins \/ TickFindsNothing \/ TickEnds \/ BeginFinalize \/ ClearOutputUploads
             \/ FinalUpload \/ CleanupWorkdir \/ Mirror \/ End \/ MarkRunnerDied \/ RequeueAfterRestart
    BY <1>1, <1>9
       DEF Restore, CaptureOutputBaseline, FailBeforeMain, StoppedBefore, StartMain, MainWrites, MainEnds,
           TickBegins, TickFindsNothing, TickEnds, BeginFinalize, ClearOutputUploads, FinalUpload,
           CleanupWorkdir, Mirror, End, MarkRunnerDied, RequeueAfterRestart
  <1> QED
    BY <1>3, <1>4, <1>5, <1>6, <1>7, <1>8, <1>9 DEF Next

\* What a sweep picks is over.
LEMMA Picks ==
  ASSUME FilesType, [Next]_vars, NEW s \in Sweepers, sweep'[s].picked
  PROVE  \/ sweep[s].picked /\ sweep'[s].by = sweep[s].by
            /\ (sweep'[s].at = sweep[s].at \/ sweep'[s].at = "between")
         \/ UNCHANGED <<st, disk, remote>> /\ sweep'[s].at = "purge" /\ PurgeCandidate(sweep'[s].by)
         \/ UNCHANGED <<st, disk, remote>> /\ sweep'[s].at = "clean" /\ Candidate(sweep'[s].by)
  <1>1. sweep \in [Sweepers -> Sweep]
    BY DEF FilesType
  <1>2. CASE sweep' = sweep
    BY <1>2
  <1>3. CASE Reboot
    BY <1>3 DEF Reboot, Idle
  <1>4. ASSUME NEW t \in Sweepers, StartPurge(t)
        PROVE  \/ sweep' [s] = sweep[s]
               \/ UNCHANGED <<st, disk, remote>> /\ sweep'[s].at = "purge" /\ PurgeCandidate(sweep'[s].by)
    <2>1. PICK by \in By(t) :
            sweep' = [sweep EXCEPT ![t] = [by |-> by, at |-> "purge", picked |-> PurgeCandidate(by)]]
      BY <1>4 DEF StartPurge
    <2>2. UNCHANGED <<st, disk, remote>>
      BY <1>4 DEF StartPurge
    <2>3. CASE s # t
      BY <1>1, <2>1, <2>3
    <2>4. CASE s = t
      <3>1. sweep'[s] = [by |-> by, at |-> "purge", picked |-> PurgeCandidate(by)]
        BY <1>1, <2>1, <2>4
      <3> QED
        BY <2>2, <3>1
    <2> QED
      BY <2>3, <2>4
  <1>5. ASSUME NEW t \in Sweepers, PurgeJobDirs(t)
        PROVE  \/ sweep' [s] = sweep[s]
               \/ sweep[s].picked /\ sweep'[s].by = sweep[s].by /\ sweep'[s].at = "between"
    BY <1>1, <1>5 DEF PurgeJobDirs, Sweep
  <1>6. ASSUME NEW t \in Sweepers, StartSweep(t)
        PROVE  \/ sweep' [s] = sweep[s]
               \/ UNCHANGED <<st, disk, remote>> /\ sweep'[s].at = "clean" /\ Candidate(sweep'[s].by)
    <2>1. UNCHANGED <<st, disk, remote>>
      BY <1>6 DEF StartSweep
    <2>2. CASE s # t
      BY <1>1, <1>6, <2>2 DEF StartSweep
    <2>3. CASE s = t /\ sweep' = [sweep EXCEPT ![s].at = "clean", ![s].picked = Candidate(sweep[s].by)]
      <3>1. sweep'[s].at = "clean" /\ sweep'[s].picked = Candidate(sweep[s].by) /\ sweep'[s].by = sweep[s].by
        BY <1>1, <2>3 DEF Sweep
      <3> QED
        BY <2>1, <3>1
    <2>4. ASSUME NEW by, s = t, sweep' = [sweep EXCEPT ![s] = [by |-> by, at |-> "clean", picked |-> Candidate(by)]]
          PROVE  UNCHANGED <<st, disk, remote>> /\ sweep'[s].at = "clean" /\ Candidate(sweep'[s].by)
      <3>1. sweep'[s] = [by |-> by, at |-> "clean", picked |-> Candidate(by)]
        BY <1>1, <2>4
      <3> QED
        BY <2>1, <3>1
    <2> QED
      BY <1>6, <2>2, <2>3, <2>4 DEF StartSweep
  <1>7. ASSUME NEW t \in Sweepers, SweepWorkdirs(t)
        PROVE  sweep'[s] = sweep[s]
    BY <1>1, <1>7 DEF SweepWorkdirs, Idle
  <1>8. CASE \/ Stage \/ GoStale \/ RemoveStaleIncoming \/ Enqueue \/ Claim \/ Restore \/ CaptureOutputBaseline
             \/ FailBeforeMain \/ StoppedBefore \/ StartMain \/ MainWrites \/ MainEnds \/ TickBegins
             \/ TickFindsNothing \/ TickEnds \/ BeginFinalize \/ ClearOutputUploads \/ FinalUpload
             \/ CleanupWorkdir \/ Mirror \/ End \/ Settles \/ RunnerKilled \/ MarkRunnerDied
             \/ RequeueAfterRestart \/ FailQueued \/ Cancel \/ Preempt \/ DrainUploads \/ UNCHANGED vars
    <2>1. sweep' = sweep
      BY <1>8
         DEF Stage, GoStale, RemoveStaleIncoming, Enqueue, Claim, Restore, CaptureOutputBaseline,
             FailBeforeMain, StoppedBefore, StartMain, MainWrites, MainEnds, TickBegins, TickFindsNothing,
             TickEnds, BeginFinalize, ClearOutputUploads, FinalUpload, CleanupWorkdir, Mirror, End,
             Settles, RunnerKilled, MarkRunnerDied, RequeueAfterRestart, FailQueued, Cancel, Preempt,
             DrainUploads, vars
    <2> QED
      BY <1>2, <2>1
  <1> QED
    BY <1>3, <1>4, <1>5, <1>6, <1>7, <1>8 DEF Next

-----------------------------------------------------------------------------
\* Outputs, and what vouches for them.

\* The runner's own removal, asked with the status that it is about to write.
LEMMA CleanupRemoves ==
  ASSUME FilesType, CleanupWorkdir
  PROVE  /\ UNCHANGED <<conf, st, remote, secrets, staged, tick, sweep>>
         /\ rp.pc = "synced" /\ rp' \in RpType /\ rp'.pc = "cleaned" /\ rp'.ran = rp.ran /\ rp'.coming = ComingBack
         /\ \/ UNCHANGED <<disk, took>>
            \/ \E state \in StType : /\ ~ComingBack /\ RemoveWorkdir(state, "policy")
                                     /\ ~OutputsPending(state) /\ state.ran = st.ran /\ state.up = st.up
  <1> DEFINE status == IF ComingBack THEN "queued" ELSE Written(rp.out)
             state == [st EXCEPT !.status = status]
  <1>1. /\ UNCHANGED <<conf, st, remote, secrets, staged, tick, sweep>> /\ rp.pc = "synced"
        /\ rp' = [rp EXCEPT !.pc = "cleaned", !.coming = ComingBack]
        /\ IF MayDeleteWorkdir(state, "policy") THEN RemoveWorkdir(state, "policy") ELSE UNCHANGED <<disk, took>>
    BY DEF CleanupWorkdir
  <1>2. ComingBack \in BOOLEAN
    BY DEF ComingBack
  <1>3. rp' \in RpType /\ rp'.pc = "cleaned" /\ rp'.ran = rp.ran /\ rp'.coming = ComingBack
    <2> HIDE DEF ComingBack
    <2> QED
      BY <1>1, <1>2 DEF FilesType, RpType, RunnerPc
  <1>4. status \in Statuses /\ (ComingBack => status = "queued")
    BY DEF FilesType, RpType, Written, Outcomes, Statuses, Finished
  <1>5. state \in StType /\ state.ran = st.ran /\ state.up = st.up /\ state.status = status
    <2> HIDE DEF status
    <2> QED
      BY <1>4 DEF FilesType, StType
  <1>6. MayDeleteWorkdir(state, "policy") => ~OutputsPending(state) /\ state.status \in Finished
    BY DEF MayDeleteWorkdir, Typed
  <1>7. MayDeleteWorkdir(state, "policy") => ~ComingBack
    BY <1>4, <1>5, <1>6 DEF Finished
  <1> HIDE DEF state, status
  <1> QED
    BY <1>1, <1>3, <1>5, <1>6, <1>7

LEMMA OutputsStep ==
  ASSUME FilesType, OutcomeFits, StagedFits, RunnerFits, TickFits, PickedOver, OutputsFit, [Next]_vars
  PROVE  OutputsFit'
  <1>1. CASE Stage
    BY <1>1 DEF Stage, OutputsFit, StagedFits, RunnerFits, Settled, Finished
  <1>2. CASE GoStale
    BY <1>2 DEF GoStale, OutputsFit, StagedFits, RunnerFits, Settled, Finished
  <1>3. CASE RemoveStaleIncoming
    BY <1>3 DEF RemoveStaleIncoming, OutputsFit, StagedFits, RunnerFits, Settled, Finished
  <1>4. CASE Enqueue
    BY <1>4 DEF Enqueue, OutputsFit, StagedFits, RunnerFits, FilesType, StType, DiskType, Settled, Finished
  <1>5. CASE Claim
    BY <1>5 DEF Claim, OutputsFit, StagedFits, RunnerFits, FilesType, StType, NoRunner, Settled, Finished
  <1>6. CASE Restore
    BY <1>6 DEF Restore, EndAs, OutputsFit, StagedFits, RunnerFits, FilesType, DiskType, RpType, Goto,
       Settled, Finished
  <1>7. CASE CaptureOutputBaseline
    BY <1>7 DEF CaptureOutputBaseline, OutputsFit, StagedFits, RunnerFits, FilesType, DiskType, RpType,
       Goto, Settled, Finished
  <1>8. CASE FailBeforeMain
    BY <1>8 DEF FailBeforeMain, EndAs, OutputsFit, StagedFits, RunnerFits, FilesType, RpType, Settled, Finished
  <1>9. CASE StoppedBefore
    BY <1>9 DEF StoppedBefore, EndAs, OutputsFit, StagedFits, RunnerFits, FilesType, RpType, Settled, Finished
  <1>10. CASE StartMain
    BY <1>10 DEF StartMain, OutputsFit, StagedFits, RunnerFits, FilesType, StType, RpType, Settled, Finished
  <1>11. CASE MainWrites
    BY <1>11 DEF MainWrites, Newest, OutputsFit, StagedFits, RunnerFits, FilesType, DiskType, Settled, Finished
  <1>12. CASE MainEnds
    BY <1>12, RunnerWrites DEF MainEnds, AtEnd, OutputsFit, StagedFits, RunnerFits, FilesType, RpType,
       Settled, Finished
  <1>13. CASE TickBegins
    BY <1>13 DEF TickBegins, OutputsFit, StagedFits, RunnerFits, Settled, Finished
  <1>14. CASE TickFindsNothing
    BY <1>14 DEF TickFindsNothing, OutputsFit, StagedFits, RunnerFits, FilesType, StType, Settled, Finished
  <1>15. CASE TickEnds
    BY <1>15, RunnerWrites DEF TickEnds, SameRun, OutputsFit, StagedFits, RunnerFits, FilesType, Settled,
       Finished
  <1>16. CASE BeginFinalize
    BY <1>16 DEF BeginFinalize, OutputsFit, StagedFits, RunnerFits, FilesType, RpType, Goto, Settled, Finished
  <1>17. CASE ClearOutputUploads
    <2>1. /\ st'.status = st.status /\ st'.ran = st.ran /\ UNCHANGED <<conf, disk>>
      BY <1>17, StWrites DEF ClearOutputUploads, FilesType
    <2>2. rp'.pc = "uploading"
      BY <1>17 DEF ClearOutputUploads, Goto, FilesType, RpType
    <2> QED
      BY <2>1, <2>2 DEF OutputsFit
  <1>18. CASE FinalUpload
    BY <1>18, RunnerWrites DEF FinalUpload, AtEnd, SameRun, OutputsFit, StagedFits, RunnerFits, FilesType,
       RpType, Goto, Settled, Finished
  <1>19. CASE CleanupWorkdir
    <2>1. /\ UNCHANGED <<conf, st>> /\ rp.pc = "synced" /\ rp'.pc = "cleaned"
          /\ disk' = disk \/ \E state \in StType : RemoveWorkdir(state, "policy")
      BY <1>19, CleanupRemoves
    <2>2. /\ disk'.base = disk.base
          /\ disk' = disk \/ (disk'.out = 0 /\ (disk'.kept => disk.kept /\ disk'.workdir))
      BY <2>1, Removal
    <2> QED
      BY <2>1, <2>2 DEF OutputsFit, RunnerFits
  <1>20. CASE Mirror
    BY <1>20, RunnerWrites DEF Mirror, AtEnd, SameRun, OutputsFit, StagedFits, RunnerFits, FilesType,
       RpType, Goto, Settled, Finished
  <1>21. CASE End
    BY <1>21, RunnerWrites DEF End, AtEnd, Over, Again, OutputsFit, StagedFits, RunnerFits, FilesType,
       RpType, Goto, NoRunner, Settled, Finished
  <1>22. CASE Settles
    BY <1>22 DEF Settles, OutputsFit, StagedFits, RunnerFits, NoRunner, Settled, Finished
  <1>23. CASE RunnerKilled
    BY <1>23 DEF RunnerKilled, OutputsFit, StagedFits, RunnerFits, NoRunner, Settled, Finished
  <1>24. CASE MarkRunnerDied
    BY <1>24, DispatcherWrites DEF MarkRunnerDied, JobEnded, Over, OutputsFit, StagedFits, RunnerFits, FilesType,
       NoRunner, Settled, Finished
  <1>25. CASE Reboot
    BY <1>25 DEF Reboot, DiskType, OutputsFit, StagedFits, RunnerFits, FilesType, DiskType, NoRunner,
       Settled, Finished
  <1>26. CASE RequeueAfterRestart
    BY <1>26, DispatcherWrites DEF RequeueAfterRestart, JobEnded, Over, Again, OutputsFit, StagedFits, RunnerFits,
       FilesType, NoRunner, Settled, Finished
  <1>27. CASE FailQueued
    BY <1>27, DispatcherWrites DEF FailQueued, JobEnded, NoRunner, Over, OutputsFit, StagedFits, RunnerFits, FilesType, Settled,
       Finished
  <1>28. CASE Cancel
    BY <1>28, DispatcherWrites DEF Cancel, Cancelled, NoRunner, SameRun, Over, OutputsFit, StagedFits, RunnerFits, FilesType,
       Settled, Finished
  <1>29. CASE Preempt
    BY <1>29 DEF Preempt, OutputsFit, StagedFits, RunnerFits, FilesType, StType, Settled, Finished
  <1>30. CASE DrainUploads
    BY <1>30, DispatcherWrites DEF DrainUploads, SameRun, OutputsFit, StagedFits, RunnerFits, FilesType,
       Settled, Finished
  <1>31. ASSUME NEW s \in Sweepers, StartPurge(s)
        PROVE  OutputsFit'
    BY <1>31 DEF StartPurge, OutputsFit, StagedFits, RunnerFits, Settled, Finished
  <1>32. ASSUME NEW s \in Sweepers, PurgeJobDirs(s)
        PROVE  OutputsFit'
    <2>1. /\ UNCHANGED <<conf, rp>>
          /\ \/ UNCHANGED <<st, disk>>
             \/ sweep[s].picked /\ st' = [st EXCEPT !.status = "purged"] /\ disk' = NoFiles
      BY <1>32 DEF PurgeJobDirs
    <2>2. sweep[s].picked => rp.pc \in {"none", "ended", "cancelled"}
      BY DEF PickedOver, RunnerFits, Settled, Finished
    <2> QED
      BY <2>1, <2>2 DEF OutputsFit, NoFiles, FilesType, StType
  <1>33. ASSUME NEW s \in Sweepers, StartSweep(s)
        PROVE  OutputsFit'
    BY <1>33 DEF StartSweep, OutputsFit, StagedFits, RunnerFits, Settled, Finished
  <1>34. ASSUME NEW s \in Sweepers, SweepWorkdirs(s)
        PROVE  OutputsFit'
    <2>1. UNCHANGED <<conf, st, rp>> /\ (disk' = disk \/ (sweep[s].picked /\ RemoveWorkdir(st, sweep[s].by)))
      BY <1>34 DEF SweepWorkdirs
    <2>2. CASE disk' = disk
      BY <2>1, <2>2 DEF OutputsFit
    <2>3. CASE sweep[s].picked /\ RemoveWorkdir(st, sweep[s].by)
      <3>1. rp.pc \in {"none", "ended", "cancelled"}
        BY <2>3 DEF PickedOver, RunnerFits, Settled, Finished
      <3>2. /\ disk'.base = disk.base
            /\ disk' = disk \/ (disk'.out = 0 /\ (disk'.kept => disk.kept /\ disk'.workdir))
        BY <2>3, Removal DEF FilesType
      <3> QED
        BY <2>1, <2>2, <3>1, <3>2 DEF OutputsFit
    <2> QED
      BY <2>1, <2>2, <2>3
  <1>35. CASE UNCHANGED vars
    BY <1>35 DEF vars, OutputsFit, StagedFits, RunnerFits, FilesType, StType, DiskType, RpType, Goto,
       NoRunner, NoFiles, Settled, Finished
  <1> QED
    BY <1>1, <1>2, <1>3, <1>4, <1>5, <1>6, <1>7, <1>8, <1>9, <1>10, <1>11, <1>12, <1>13, <1>14, <1>15,
       <1>16, <1>17, <1>18, <1>19, <1>20, <1>21, <1>22, <1>23, <1>24, <1>25, <1>26, <1>27, <1>28, <1>29,
       <1>30, <1>31, <1>32, <1>33, <1>34, <1>35 DEF Next

LEMMA VouchedStep ==
  ASSUME FilesType, OutcomeFits, StagedFits, RunnerFits, TickFits, OutputsFit, Vouched, MirrorFits, [Next]_vars
  PROVE  Vouched' /\ MirrorFits'
  <1>1. CASE Stage
    BY <1>1 DEF Stage, OutputsFit, Vouched, Unvouched, MirrorFits, TickFits, Writing, RunnerFits, Settled, Finished
  <1>2. CASE GoStale
    BY <1>2 DEF GoStale, OutputsFit, Vouched, Unvouched, MirrorFits, TickFits, Writing, RunnerFits, Settled, Finished
  <1>3. CASE RemoveStaleIncoming
    BY <1>3 DEF RemoveStaleIncoming, OutputsFit, Vouched, Unvouched, MirrorFits, TickFits, Writing, RunnerFits,
       Settled, Finished
  <1>4. CASE Enqueue
    BY <1>4 DEF Enqueue, OutputsFit, Vouched, Unvouched, MirrorFits, TickFits, Writing, RunnerFits, FilesType, StType,
       DiskType, Settled, Finished
  <1>5. CASE Claim
    BY <1>5 DEF Claim, OutputsFit, Vouched, Unvouched, MirrorFits, TickFits, Writing, RunnerFits, FilesType, StType,
       NoRunner, Settled, Finished
  <1>6. CASE Restore
    BY <1>6 DEF Restore, EndAs, OutputsFit, Vouched, Unvouched, MirrorFits, TickFits, Writing, RunnerFits, FilesType,
       DiskType, RpType, Goto, Settled, Finished
  <1>7. CASE CaptureOutputBaseline
    BY <1>7 DEF CaptureOutputBaseline, OutputsFit, Vouched, Unvouched, MirrorFits, TickFits, Writing, RunnerFits,
       FilesType, DiskType, RpType, Goto, Settled, Finished
  <1>8. CASE FailBeforeMain
    BY <1>8 DEF FailBeforeMain, EndAs, OutputsFit, Vouched, Unvouched, MirrorFits, TickFits, Writing, RunnerFits,
       FilesType, RpType, Settled, Finished
  <1>9. CASE StoppedBefore
    BY <1>9 DEF StoppedBefore, EndAs, OutputsFit, Vouched, Unvouched, MirrorFits, TickFits, Writing, RunnerFits,
       FilesType, RpType, Settled, Finished
  <1>10. CASE StartMain
    BY <1>10 DEF StartMain, OutputsFit, Vouched, Unvouched, MirrorFits, TickFits, Writing, RunnerFits, FilesType,
       StType, RpType, Settled, Finished
  <1>11. CASE MainWrites
    BY <1>11 DEF MainWrites, OutputsFit, Vouched, Unvouched, MirrorFits, TickFits, Writing, RunnerFits, FilesType,
       DiskType, Settled, Finished
  <1>12. CASE MainEnds
    BY <1>12, RunnerWrites DEF MainEnds, AtEnd, OutputsFit, Vouched, Unvouched, MirrorFits, TickFits, Writing,
       RunnerFits, FilesType, RpType, Settled, Finished
  <1>13. CASE TickBegins
    BY <1>13 DEF TickBegins, OutputsFit, Vouched, Unvouched, MirrorFits, TickFits, Writing, RunnerFits, Settled, Finished
  <1>14. CASE TickFindsNothing
    BY <1>14 DEF TickFindsNothing, OutputsFit, Vouched, Unvouched, MirrorFits, TickFits, Writing, RunnerFits,
       FilesType, StType, Settled, Finished
  <1>15. CASE TickEnds
    BY <1>15, RunnerWrites DEF TickEnds, SameRun, OutputsFit, Vouched, Unvouched, MirrorFits, TickFits, Writing,
       RunnerFits, FilesType, RemoteType, Settled, Finished
  <1>16. CASE BeginFinalize
    BY <1>16 DEF BeginFinalize, OutputsFit, Vouched, Unvouched, MirrorFits, TickFits, Writing, RunnerFits, FilesType,
       RpType, Goto, Settled, Finished
  <1>17. CASE ClearOutputUploads
    <2>1. /\ st'.mirror = st.mirror /\ st'.attempt = st.attempt /\ remote' = remote
      BY <1>17, StWrites DEF ClearOutputUploads, FilesType
    <2>2. rp'.pc = "uploading"
      BY <1>17 DEF ClearOutputUploads, Goto, FilesType, RpType
    <2> QED
      BY <2>1, <2>2 DEF Vouched, Unvouched, MirrorFits
  <1>18. CASE FinalUpload
    BY <1>18, RunnerWrites DEF FinalUpload, AtEnd, SameRun, OutputsFit, Vouched, Unvouched, MirrorFits, TickFits,
       Writing, RunnerFits, FilesType, StType, DiskType, RemoteType, RpType, Goto, NoRunner, NoFiles,
       Settled, Finished
  <1>19. CASE CleanupWorkdir
    <2>1. /\ UNCHANGED <<st, remote>> /\ rp.pc = "synced" /\ rp'.pc = "cleaned"
          /\ disk' = disk \/ \E state \in StType : RemoveWorkdir(state, "policy")
      BY <1>19, CleanupRemoves
    <2>2. disk' = disk \/ disk'.out = 0
      BY <2>1, Removal
    <2> QED
      BY <2>1, <2>2 DEF Vouched, Unvouched, MirrorFits, Writing
  <1>20. CASE Mirror
    BY <1>20, RunnerWrites DEF Mirror, AtEnd, SameRun, OutputsFit, Vouched, Unvouched, MirrorFits, TickFits, Writing,
       RunnerFits, FilesType, StType, DiskType, RemoteType, RpType, Goto, NoRunner, NoFiles, Settled,
       Finished
  <1>21. CASE End
    BY <1>21, RunnerWrites DEF End, AtEnd, Over, Again, OutputsFit, Vouched, Unvouched, MirrorFits, TickFits, Writing,
       RunnerFits, FilesType, RpType, Goto, NoRunner, Settled, Finished
  <1>22. CASE Settles
    BY <1>22 DEF Settles, OutputsFit, Vouched, Unvouched, MirrorFits, TickFits, Writing, RunnerFits, NoRunner,
       Settled, Finished
  <1>23. CASE RunnerKilled
    BY <1>23 DEF RunnerKilled, OutputsFit, Vouched, Unvouched, MirrorFits, TickFits, Writing, RunnerFits, NoRunner,
       Settled, Finished
  <1>24. CASE MarkRunnerDied
    BY <1>24, DispatcherWrites DEF MarkRunnerDied, JobEnded, Over, OutputsFit, Vouched, Unvouched, MirrorFits, TickFits, Writing,
       RunnerFits, FilesType, NoRunner, Settled, Finished
  <1>25. CASE Reboot
    BY <1>25 DEF Reboot, OutputsFit, Vouched, Unvouched, MirrorFits, TickFits, Writing, RunnerFits, FilesType,
       DiskType, NoRunner, Settled, Finished
  <1>26. CASE RequeueAfterRestart
    BY <1>26, DispatcherWrites DEF RequeueAfterRestart, JobEnded, Over, Again, OutputsFit, Vouched, MirrorFits,
       TickFits, Writing, RunnerFits, FilesType, NoRunner, Settled, Finished
  <1>27. CASE FailQueued
    BY <1>27, DispatcherWrites DEF FailQueued, JobEnded, NoRunner, Over, OutputsFit, Vouched, Unvouched, MirrorFits, TickFits, Writing,
       RunnerFits, FilesType, Settled, Finished
  <1>28. CASE Cancel
    BY <1>28, DispatcherWrites DEF Cancel, Cancelled, NoRunner, SameRun, Over, OutputsFit, Vouched, Unvouched, MirrorFits, TickFits,
       Writing, RunnerFits, FilesType, Settled, Finished
  <1>29. CASE Preempt
    BY <1>29 DEF Preempt, OutputsFit, Vouched, Unvouched, MirrorFits, TickFits, Writing, RunnerFits, FilesType, StType,
       Settled, Finished
  <1>30. CASE DrainUploads
    BY <1>30, DispatcherWrites DEF DrainUploads, SameRun, OutputsFit, Vouched, Unvouched, MirrorFits, TickFits,
       Writing, RunnerFits, FilesType, StType, DiskType, RemoteType, RpType, Goto, NoRunner, NoFiles,
       Settled, Finished
  <1>31. ASSUME NEW s \in Sweepers, StartPurge(s)
        PROVE  Vouched' /\ MirrorFits'
    BY <1>31 DEF StartPurge, OutputsFit, Vouched, Unvouched, MirrorFits, TickFits, Writing, RunnerFits, Settled, Finished
  <1>32. ASSUME NEW s \in Sweepers, PurgeJobDirs(s)
        PROVE  Vouched' /\ MirrorFits'
    BY <1>32 DEF PurgeJobDirs, OutputsFit, Vouched, Unvouched, MirrorFits, TickFits, Writing, RunnerFits, FilesType,
       StType, NoFiles, Settled, Finished
  <1>33. ASSUME NEW s \in Sweepers, StartSweep(s)
        PROVE  Vouched' /\ MirrorFits'
    BY <1>33 DEF StartSweep, OutputsFit, Vouched, Unvouched, MirrorFits, TickFits, Writing, RunnerFits, Settled, Finished
  <1>34. ASSUME NEW s \in Sweepers, SweepWorkdirs(s)
        PROVE  Vouched' /\ MirrorFits'
    <2>1. UNCHANGED <<st, remote, rp>> /\ (disk' = disk \/ RemoveWorkdir(st, sweep[s].by))
      BY <1>34 DEF SweepWorkdirs
    <2>2. disk' = disk \/ disk'.out = 0
      BY <2>1, Removal DEF FilesType
    <2> QED
      BY <2>1, <2>2 DEF Vouched, Unvouched, MirrorFits, Writing
  <1>35. CASE UNCHANGED vars
    BY <1>35 DEF vars, OutputsFit, Vouched, Unvouched, MirrorFits, TickFits, Writing, RunnerFits, FilesType, StType,
       DiskType, RemoteType, RpType, Goto, NoRunner, NoFiles, Settled, Finished
  <1> QED
    BY <1>1, <1>2, <1>3, <1>4, <1>5, <1>6, <1>7, <1>8, <1>9, <1>10, <1>11, <1>12, <1>13, <1>14, <1>15,
       <1>16, <1>17, <1>18, <1>19, <1>20, <1>21, <1>22, <1>23, <1>24, <1>25, <1>26, <1>27, <1>28, <1>29,
       <1>30, <1>31, <1>32, <1>33, <1>34, <1>35 DEF Next


\* Outputs that are not pending, of a job that nobody runs or that is past its
\* last upload, are saved.
LEMMA NotPendingIsSaved ==
  ASSUME OutputsFit, Vouched, ~Unvouched,
         NEW state, state.ran = st.ran, state.up = st.up, ~OutputsPending(state)
  PROVE  ~Unsaved
  BY DEF OutputsFit, Vouched, OutputsPending, HasNewContent, Unsaved

LEMMA PickedStep ==
  ASSUME CopiesInv, [Next]_vars
  PROVE  PickedOver' /\ PickedFits'
  <1> SUFFICES ASSUME NEW s \in Sweepers, sweep'[s].picked
               PROVE  /\ st'.status \in Settled
                      /\ sweep'[s].by = "automatic" /\ sweep'[s].at \in {"purge", "clean"} => Unsaved' = FALSE
                      /\ sweep'[s].by = "automatic" /\ sweep'[s].at = "purge" =>
                           ~disk'.kept /\ remote'.log = st'.attempt
    BY DEF PickedOver, PickedFits
  <1>1. st.status \in Settled => Quiet
    BY SettledStays DEF CopiesInv
  <1>2. Unsaved' <=> disk'.out # 0 /\ remote'.out # disk'.out
    BY DEF Unsaved
  <1>3. ASSUME st.status \in Settled, ~Unsaved
        PROVE  Unsaved' = FALSE
    BY <1>1, <1>2, <1>3 DEF Quiet, Unsaved
  <1>4. CASE sweep[s].picked /\ sweep'[s].by = sweep[s].by
             /\ (sweep'[s].at = sweep[s].at \/ sweep'[s].at = "between")
    <2>1. /\ st.status \in Settled
          /\ sweep'[s].by = "automatic" /\ sweep'[s].at \in {"purge", "clean"} => ~Unsaved
          /\ sweep'[s].by = "automatic" /\ sweep'[s].at = "purge" => ~disk.kept /\ remote.log = st.attempt
      BY <1>4 DEF CopiesInv, PickedOver, PickedFits
    <2> QED
      BY <1>1, <1>3, <2>1 DEF Quiet
  <1>5. ASSUME st.status \in Finished, ~OutputsPending(st)
        PROVE  ~Unsaved
    <2>1. ~Unvouched
      BY <1>5 DEF CopiesInv, RunnerFits, Unvouched, Writing, Finished
    <2> QED
      BY <1>5, <2>1, NotPendingIsSaved DEF CopiesInv
  <1>6. CASE UNCHANGED <<st, disk, remote>> /\ sweep'[s].at = "purge" /\ PurgeCandidate(sweep'[s].by)
    <2>1. /\ st.status \in Finished
          /\ sweep'[s].by = "automatic" => st.mirror = "ok" /\ ~OutputsPending(st) /\ ~KeptOutputs(st)
      BY <1>6 DEF PurgeCandidate, MayDeleteJobDir
    <2>2. sweep'[s].by = "automatic" => ~disk.kept /\ remote.log = st.attempt
      BY <2>1 DEF CopiesInv, OutputsFit, MirrorFits, KeptOutputs
    <2> QED
      BY <1>3, <1>5, <1>6, <2>1, <2>2 DEF Settled
  <1>7. CASE UNCHANGED <<st, disk, remote>> /\ sweep'[s].at = "clean" /\ Candidate(sweep'[s].by)
    <2>1. /\ st.status \in Finished
          /\ sweep'[s].by = "automatic" => ~OutputsPending(st)
      BY <1>7 DEF Candidate, MayDeleteWorkdir, Typed
    <2> QED
      BY <1>3, <1>5, <1>7, <2>1 DEF Settled
  <1> QED
    BY <1>4, <1>6, <1>7, Picks DEF CopiesInv

LEMMA CopiesKept ==
  ASSUME CopiesInv, [Next]_vars
  PROVE  OnlyCopiesStay'
  <1>1. CASE took' = took
    BY <1>1 DEF CopiesInv, OnlyCopiesStay
  <1>2. CASE CleanupWorkdir
    <2>1. CASE UNCHANGED <<disk, took>>
      BY <1>1, <2>1
    <2>2. ASSUME NEW state \in StType, RemoveWorkdir(state, "policy"), ~OutputsPending(state),
                 state.ran = st.ran, state.up = st.up
          PROVE  OnlyCopiesStay'
      <3>1. ~Unvouched
        BY <1>2 DEF CleanupWorkdir, Unvouched, Writing
      <3>2. ~Unsaved
        BY <2>2, <3>1, NotPendingIsSaved DEF CopiesInv
      <3>3. took' = took
        BY <2>2, <3>2, Removal DEF CopiesInv
      <3> QED
        BY <1>1, <3>3
    <2> QED
      BY <1>2, <2>1, <2>2, CleanupRemoves DEF CopiesInv
  <1>3. ASSUME NEW s \in Sweepers, sweep[s].picked, sweep[s].at \in {"purge", "clean"}
        PROVE  /\ sweep[s].by \in Evidence /\ sweep[s].by # "policy"
               /\ sweep[s].by = "automatic" => ~Unsaved
               /\ sweep[s].by = "automatic" /\ sweep[s].at = "purge" => ~disk.kept /\ remote.log = st.attempt
    <2>1. sweep[s].by \in Evidence
      BY DEF CopiesInv, FilesType, Sweep
    <2> QED
      BY <1>3, <2>1 DEF CopiesInv, PickedFits, Evidence, Typed
  <1>4. ASSUME NEW s \in Sweepers, PurgeJobDirs(s)
        PROVE  OnlyCopiesStay'
    <2>1. /\ sweep[s].at = "purge"
          /\ \/ took' = took
             \/ sweep[s].picked /\ took' = took \cup {b \in {sweep[s].by} : Unsaved \/ disk.kept \/ remote.log # st.attempt}
      BY <1>4 DEF PurgeJobDirs
    <2>2. CASE took' = took
      BY <1>1, <2>2
    <2>3. CASE sweep[s].picked /\ sweep[s].by = "automatic"
      BY <1>1, <1>3, <2>1, <2>3
    <2>4. CASE sweep[s].picked /\ sweep[s].by # "automatic"
      BY <1>3, <2>1, <2>4 DEF CopiesInv, OnlyCopiesStay
    <2> QED
      BY <2>1, <2>2, <2>3, <2>4
  <1>5. ASSUME NEW s \in Sweepers, SweepWorkdirs(s)
        PROVE  OnlyCopiesStay'
    <2>1. /\ sweep[s].at = "clean"
          /\ took' = took \/ (sweep[s].picked /\ RemoveWorkdir(st, sweep[s].by))
      BY <1>5 DEF SweepWorkdirs
    <2>2. RemoveWorkdir(st, sweep[s].by) => took' \subseteq took \cup {sweep[s].by} /\ (~Unsaved => took' = took)
      BY Removal DEF CopiesInv, FilesType
    <2>3. CASE took' = took
      BY <1>1, <2>3
    <2>4. CASE sweep[s].picked /\ RemoveWorkdir(st, sweep[s].by) /\ sweep[s].by = "automatic"
      BY <1>1, <1>3, <2>1, <2>2, <2>4
    <2>5. CASE sweep[s].picked /\ RemoveWorkdir(st, sweep[s].by) /\ sweep[s].by # "automatic"
      BY <1>3, <2>1, <2>2, <2>5 DEF CopiesInv, OnlyCopiesStay
    <2> QED
      BY <2>1, <2>3, <2>4, <2>5
  <1>6. CASE \/ Stage \/ GoStale \/ RemoveStaleIncoming \/ Enqueue \/ Claim \/ Restore \/ CaptureOutputBaseline
             \/ FailBeforeMain \/ StoppedBefore \/ StartMain \/ MainWrites \/ MainEnds \/ TickBegins
             \/ TickFindsNothing \/ TickEnds \/ BeginFinalize \/ ClearOutputUploads \/ FinalUpload
             \/ Mirror \/ End \/ Settles \/ RunnerKilled \/ MarkRunnerDied \/ Reboot
             \/ RequeueAfterRestart \/ FailQueued \/ Cancel \/ Preempt \/ DrainUploads
             \/ (\E s \in Sweepers : StartPurge(s) \/ StartSweep(s)) \/ UNCHANGED vars
    <2>1. took' = took
      BY <1>6
         DEF Stage, GoStale, RemoveStaleIncoming, Enqueue, Claim, Restore, CaptureOutputBaseline,
             FailBeforeMain, StoppedBefore, StartMain, MainWrites, MainEnds, TickBegins, TickFindsNothing,
             TickEnds, BeginFinalize, ClearOutputUploads, FinalUpload, Mirror, End, Settles,
             RunnerKilled, MarkRunnerDied, Reboot, RequeueAfterRestart, FailQueued, Cancel, Preempt,
             DrainUploads, StartPurge, StartSweep, vars
    <2> QED
      BY <1>1, <2>1
  <1> QED
    BY <1>2, <1>4, <1>5, <1>6 DEF Next

-----------------------------------------------------------------------------
LEMMA InitCopies ==
  Init => CopiesInv
  <1> SUFFICES ASSUME Init
               PROVE  CopiesInv
    OBVIOUS
  <1>1. /\ conf \in Conf /\ secrets = FALSE /\ staged = "none" /\ tick = 0 /\ took = {}
        /\ disk = NoFiles /\ rp = NoRunner /\ sweep = [s \in Sweepers |-> Idle]
        /\ remote = [out |-> 0, log |-> 0]
        /\ st = [status |-> "none", intent |-> "none", ran |-> FALSE, up |-> "none",
                 mirror |-> "none", lost |-> FALSE, attempt |-> 1, restarts |-> 0]
    BY JobFilesAssumption DEF Init
  <1>2. st \in StType
    BY <1>1 DEF StType, Statuses, Intents, Records
  <1>3. NoRunner \in RpType /\ Idle \in Sweep /\ NoFiles \in DiskType
    BY DEF NoRunner, RpType, Records, RunnerPc, Outcomes, Idle, Sweep, Evidence, NoFiles, DiskType
  <1>4. FilesType
    BY <1>1, <1>2, <1>3 DEF FilesType, RemoteType
  <1>5. StagedFits /\ RunnerFits /\ TickFits /\ OutcomeFits /\ MirrorFits
    BY <1>1 DEF StagedFits, RunnerFits, TickFits, OutcomeFits, MirrorFits, NoRunner
  <1>6. OutputsFit /\ Vouched /\ OnlyCopiesStay
    BY <1>1 DEF OutputsFit, Vouched, NoFiles, NoRunner, OnlyCopiesStay
  <1>7. PickedOver /\ PickedFits
    BY <1>1 DEF PickedOver, PickedFits, Idle
  <1> QED
    BY <1>4, <1>5, <1>6, <1>7 DEF CopiesInv

LEMMA CopiesStep ==
  CopiesInv /\ [Next]_vars => CopiesInv'
  <1> SUFFICES ASSUME CopiesInv, [Next]_vars
               PROVE  CopiesInv'
    OBVIOUS
  <1>1. FilesType'
    BY TypeStep DEF CopiesInv
  <1>2. StagedFits' /\ RunnerFits' /\ TickFits' /\ OutcomeFits'
    BY FitsStep, OutcomeStep DEF CopiesInv
  <1>3. OutputsFit' /\ Vouched' /\ MirrorFits'
    BY OutputsStep, VouchedStep DEF CopiesInv
  <1> QED
    BY <1>1, <1>2, <1>3, PickedStep, CopiesKept DEF CopiesInv

LEMMA CopiesInvariant ==
  Spec => []CopiesInv
  BY InitCopies, CopiesStep, PTL DEF Spec

\* No delete that nobody typed -- the job's own cleanup policy, the hourly sweep,
\* the retention purge -- takes outputs or a log that are nowhere else
\* (cleanup.may_delete, jobs.finish's forget_output_uploads, SyncLoop.final),
\* whenever a submit comes and whatever is killed when.
THEOREM OnlyCopiesAreDeleted ==
  Spec => []OnlyCopiesStay
  <1>1. CopiesInv => OnlyCopiesStay
    BY DEF CopiesInv
  <1> QED
    BY <1>1, CopiesInvariant, PTL

-----------------------------------------------------------------------------
\* The code, and the secrets.

LEMMA CodeStep ==
  ASSUME PromptSubmit, WholeEnds, CopiesInv, CodeKept, [Next]_vars
  PROVE  CodeKept'
  <1>1. CASE Stage
    BY <1>1 DEF Stage, CopiesInv, RunnerFits, StagedFits, PickedOver, CodeKept, HasCheckout, Settled, Finished
  <1>2. CASE GoStale
    BY <1>2 DEF GoStale, CopiesInv, RunnerFits, StagedFits, PickedOver, CodeKept, HasCheckout, Settled, Finished
  <1>3. CASE RemoveStaleIncoming
    BY <1>3 DEF RemoveStaleIncoming, CopiesInv, RunnerFits, StagedFits, PickedOver, CodeKept, HasCheckout,
       Settled, Finished
  <1>4. CASE Enqueue
    BY <1>4 DEF Enqueue, CopiesInv, RunnerFits, StagedFits, PickedOver, CodeKept, HasCheckout, FilesType,
       StType, DiskType, Settled, Finished
  <1>5. CASE Claim
    BY <1>5 DEF Claim, CopiesInv, RunnerFits, StagedFits, PickedOver, CodeKept, HasCheckout, FilesType,
       StType, NoRunner, Settled, Finished
  <1>6. CASE Restore
    BY <1>6 DEF Restore, EndAs, CopiesInv, RunnerFits, StagedFits, PickedOver, CodeKept, HasCheckout,
       FilesType, DiskType, RpType, Goto, Settled, Finished
  <1>7. CASE CaptureOutputBaseline
    BY <1>7 DEF CaptureOutputBaseline, CopiesInv, RunnerFits, StagedFits, PickedOver, CodeKept, HasCheckout,
       FilesType, DiskType, RpType, Goto, Settled, Finished
  <1>8. CASE FailBeforeMain
    BY <1>8 DEF FailBeforeMain, EndAs, CopiesInv, RunnerFits, StagedFits, PickedOver, CodeKept, HasCheckout,
       FilesType, RpType, Settled, Finished
  <1>9. CASE StoppedBefore
    BY <1>9 DEF StoppedBefore, EndAs, CopiesInv, RunnerFits, StagedFits, PickedOver, CodeKept, HasCheckout,
       FilesType, RpType, Settled, Finished
  <1>10. CASE StartMain
    BY <1>10 DEF StartMain, CopiesInv, RunnerFits, StagedFits, PickedOver, CodeKept, HasCheckout, FilesType,
       StType, RpType, Settled, Finished
  <1>11. CASE MainWrites
    BY <1>11 DEF MainWrites, CopiesInv, RunnerFits, StagedFits, PickedOver, CodeKept, HasCheckout,
       FilesType, DiskType, Settled, Finished
  <1>12. CASE MainEnds
    BY <1>12, RunnerWrites DEF MainEnds, AtEnd, CopiesInv, RunnerFits, StagedFits, PickedOver, CodeKept,
       HasCheckout, FilesType, RpType, Settled, Finished
  <1>13. CASE TickBegins
    BY <1>13 DEF TickBegins, CopiesInv, RunnerFits, StagedFits, PickedOver, CodeKept, HasCheckout, Settled,
       Finished
  <1>14. CASE TickFindsNothing
    BY <1>14 DEF TickFindsNothing, CopiesInv, RunnerFits, StagedFits, PickedOver, CodeKept, HasCheckout,
       FilesType, StType, Settled, Finished
  <1>15. CASE TickEnds
    BY <1>15, RunnerWrites DEF TickEnds, SameRun, CopiesInv, RunnerFits, StagedFits, PickedOver, CodeKept,
       HasCheckout, FilesType, Settled, Finished
  <1>16. CASE BeginFinalize
    BY <1>16 DEF BeginFinalize, CopiesInv, RunnerFits, StagedFits, PickedOver, CodeKept, HasCheckout,
       FilesType, RpType, Goto, Settled, Finished
  <1>17. CASE ClearOutputUploads
    BY <1>17 DEF ClearOutputUploads, CopiesInv, RunnerFits, StagedFits, PickedOver, CodeKept, HasCheckout,
       FilesType, RpType, Goto, Settled, Finished
  <1>18. CASE FinalUpload
    BY <1>18, RunnerWrites DEF FinalUpload, AtEnd, SameRun, CopiesInv, RunnerFits, StagedFits, PickedOver,
       CodeKept, HasCheckout, FilesType, RpType, Goto, Settled, Finished
  <1>19. CASE CleanupWorkdir
    <2>1. /\ UNCHANGED <<conf, st, staged>> /\ rp'.pc = "cleaned" /\ rp'.coming = ComingBack /\ rp.pc = "synced"
          /\ disk' = disk \/ ~ComingBack
      BY <1>19, CleanupRemoves DEF CopiesInv
    <2> QED
      BY <2>1 DEF CodeKept, HasCheckout
  <1>20. CASE Mirror
    BY <1>20, RunnerWrites DEF Mirror, AtEnd, SameRun, CopiesInv, RunnerFits, StagedFits, PickedOver,
       CodeKept, HasCheckout, FilesType, RpType, Goto, Settled, Finished
  <1>21. CASE End
    BY <1>21, RunnerWrites DEF End, AtEnd, Over, Again, CopiesInv, RunnerFits, StagedFits, PickedOver,
       CodeKept, HasCheckout, FilesType, RpType, Goto, NoRunner, Settled, Finished
  <1>22. CASE Settles
    BY <1>22 DEF Settles, CopiesInv, RunnerFits, StagedFits, PickedOver, CodeKept, HasCheckout,
       NoRunner, Settled, Finished
  <1>23. CASE RunnerKilled
    BY <1>23 DEF RunnerKilled, MidEnd, CopiesInv, RunnerFits, StagedFits, PickedOver, CodeKept, HasCheckout,
       NoRunner, Settled, Finished
  <1>24. CASE MarkRunnerDied
    BY <1>24, DispatcherWrites DEF MarkRunnerDied, JobEnded, Over, CopiesInv, RunnerFits, StagedFits, PickedOver,
       CodeKept, HasCheckout, FilesType, NoRunner, Settled, Finished
  <1>25. CASE Reboot
    BY <1>25 DEF Reboot, MidEnd, CopiesInv, RunnerFits, StagedFits, PickedOver, CodeKept, HasCheckout,
       FilesType, DiskType, NoRunner, Settled, Finished
  <1>26. CASE RequeueAfterRestart
    BY <1>26, DispatcherWrites DEF RequeueAfterRestart, JobEnded, MidEnd, Over, Again, CopiesInv, RunnerFits,
       StagedFits, PickedOver, CodeKept, HasCheckout, FilesType, NoRunner, Settled, Finished
  <1>27. CASE FailQueued
    BY <1>27, DispatcherWrites DEF FailQueued, JobEnded, NoRunner, Over, CopiesInv, RunnerFits, StagedFits, PickedOver,
       CodeKept, HasCheckout, FilesType, Settled, Finished
  <1>28. CASE Cancel
    BY <1>28, DispatcherWrites DEF Cancel, Cancelled, NoRunner, SameRun, Over, CopiesInv, RunnerFits, StagedFits, PickedOver,
       CodeKept, HasCheckout, FilesType, Settled, Finished
  <1>29. CASE Preempt
    BY <1>29 DEF Preempt, CopiesInv, RunnerFits, StagedFits, PickedOver, CodeKept, HasCheckout, FilesType,
       StType, Settled, Finished
  <1>30. CASE DrainUploads
    BY <1>30, DispatcherWrites DEF DrainUploads, SameRun, CopiesInv, RunnerFits, StagedFits, PickedOver,
       CodeKept, HasCheckout, FilesType, Settled, Finished
  <1>31. ASSUME NEW s \in Sweepers, StartPurge(s)
        PROVE  CodeKept'
    BY <1>31 DEF StartPurge, CopiesInv, RunnerFits, StagedFits, PickedOver, CodeKept, HasCheckout, Settled,
       Finished
  <1>32. ASSUME NEW s \in Sweepers, PurgeJobDirs(s)
        PROVE  CodeKept'
    BY <1>32 DEF PurgeJobDirs, CopiesInv, RunnerFits, StagedFits, PickedOver, CodeKept, HasCheckout,
       FilesType, StType, NoFiles, Settled, Finished
  <1>33. ASSUME NEW s \in Sweepers, StartSweep(s)
        PROVE  CodeKept'
    BY <1>33 DEF StartSweep, CopiesInv, RunnerFits, StagedFits, PickedOver, CodeKept, HasCheckout, Settled,
       Finished
  <1>34. ASSUME NEW s \in Sweepers, SweepWorkdirs(s)
        PROVE  CodeKept'
    BY <1>34 DEF SweepWorkdirs, CopiesInv, RunnerFits, StagedFits, PickedOver, CodeKept, HasCheckout,
       Settled, Finished
  <1>35. CASE UNCHANGED vars
    BY <1>35 DEF vars, CopiesInv, RunnerFits, StagedFits, PickedOver, CodeKept, HasCheckout, FilesType,
       StType, DiskType, RpType, Goto, NoRunner, NoFiles, Settled, Finished
  <1> QED
    BY <1>1, <1>2, <1>3, <1>4, <1>5, <1>6, <1>7, <1>8, <1>9, <1>10, <1>11, <1>12, <1>13, <1>14, <1>15,
       <1>16, <1>17, <1>18, <1>19, <1>20, <1>21, <1>22, <1>23, <1>24, <1>25, <1>26, <1>27, <1>28, <1>29,
       <1>30, <1>31, <1>32, <1>33, <1>34, <1>35 DEF Next

LEMMA CancelStep ==
  ASSUME CopiesInv, CancelFits, [Next]_vars
  PROVE  CancelFits'
  <1>1. st \in StType /\ rp \in RpType
    BY DEF CopiesInv, FilesType
  <1>2. CASE Cancel
    <2>1. st'.up = st.up /\ (rp' = rp \/ rp' = Cancelled)
      BY <1>2, DispatcherWrites DEF CopiesInv
    <2> QED
      BY <2>1 DEF CancelFits, Cancelled, NoRunner
  <1>3. CASE DrainUploads
    BY <1>1, <1>3 DEF DrainUploads, CancelFits, OutputsPending
  <1>4. CASE \/ Claim \/ RunnerKilled \/ MarkRunnerDied \/ Reboot \/ RequeueAfterRestart \/ FailQueued \/ Settles
    BY <1>4 DEF CancelFits, NoRunner, JobEnded, Claim, RunnerKilled, MarkRunnerDied, Reboot,
                RequeueAfterRestart, FailQueued, Settles
  <1>5. CASE Restore \/ CaptureOutputBaseline \/ FailBeforeMain \/ StoppedBefore \/ StartMain \/ BeginFinalize \/ ClearOutputUploads
    BY <1>1, <1>5 DEF CancelFits, Restore, CaptureOutputBaseline, FailBeforeMain, StoppedBefore, StartMain,
                      BeginFinalize, ClearOutputUploads, Goto, EndAs, RpType
  <1>6. CASE MainEnds \/ FinalUpload \/ CleanupWorkdir \/ Mirror \/ End
    <2>1. rp'.pc \in {"ending", "synced", "cleaned", "mirrored", "ended", "none"}
      BY <1>6, RunnerWrites DEF CopiesInv, AtEnd, NoRunner
    <2> QED
      BY <2>1 DEF CancelFits
  <1>7. CASE MainWrites \/ TickBegins \/ TickFindsNothing \/ TickEnds
    <2>1. rp' = rp /\ Writing
      BY <1>7 DEF MainWrites, TickBegins, TickFindsNothing, TickEnds, CopiesInv, TickFits, Writing
    <2> QED
      BY <2>1 DEF CancelFits, Writing
  <1>8. CASE Stage \/ GoStale \/ RemoveStaleIncoming \/ Enqueue \/ Preempt \/ UNCHANGED vars
    BY <1>1, <1>8 DEF CancelFits, Stage, GoStale, RemoveStaleIncoming, Enqueue, Preempt, vars, StType
  <1>9. ASSUME NEW s \in Sweepers, StartPurge(s) \/ PurgeJobDirs(s) \/ StartSweep(s) \/ SweepWorkdirs(s)
        PROVE  CancelFits'
    <2>1. rp' = rp /\ (st' = st \/ st' = [st EXCEPT !.status = "purged"])
      BY <1>9 DEF StartPurge, PurgeJobDirs, StartSweep, SweepWorkdirs
    <2> QED
      BY <1>1, <2>1 DEF CancelFits, StType
  <1> QED
    BY <1>2, <1>3, <1>4, <1>5, <1>6, <1>7, <1>8, <1>9 DEF Next

LEMMA SecretsStep ==
  ASSUME PromptSubmit, CopiesInv, CancelFits, SecretsHeld, DrainHasSecrets, [Next]_vars
  PROVE  SecretsHeld' /\ DrainHasSecrets'
  <1>1. CASE Stage
    BY <1>1 DEF Stage, CopiesInv, SecretsHeld, DrainHasSecrets, OutputsPending, HasNewContent, OutputsFit,
       RunnerFits, StagedFits, PickedOver, Settled, Finished
  <1>2. CASE GoStale
    BY <1>2 DEF GoStale, CopiesInv, SecretsHeld, DrainHasSecrets, OutputsPending, HasNewContent, OutputsFit,
       RunnerFits, StagedFits, PickedOver, Settled, Finished
  <1>3. CASE RemoveStaleIncoming
    BY <1>3 DEF RemoveStaleIncoming, CopiesInv, SecretsHeld, DrainHasSecrets, OutputsPending, HasNewContent,
       OutputsFit, RunnerFits, StagedFits, PickedOver, Settled, Finished
  <1>4. CASE Enqueue
    BY <1>4 DEF Enqueue, CopiesInv, SecretsHeld, DrainHasSecrets, OutputsPending, HasNewContent, OutputsFit,
       RunnerFits, StagedFits, PickedOver, FilesType, StType, DiskType, Settled, Finished
  <1>5. CASE Claim
    BY <1>5 DEF Claim, CopiesInv, SecretsHeld, DrainHasSecrets, OutputsPending, HasNewContent, OutputsFit,
       RunnerFits, StagedFits, PickedOver, FilesType, StType, NoRunner, Settled, Finished
  <1>6. CASE Restore
    BY <1>6 DEF Restore, EndAs, CopiesInv, SecretsHeld, DrainHasSecrets, OutputsPending, HasNewContent,
       OutputsFit, RunnerFits, StagedFits, PickedOver, FilesType, DiskType, RpType, Goto, Settled, Finished
  <1>7. CASE CaptureOutputBaseline
    BY <1>7 DEF CaptureOutputBaseline, CopiesInv, SecretsHeld, DrainHasSecrets, OutputsPending,
       HasNewContent, OutputsFit, RunnerFits, StagedFits, PickedOver, FilesType, DiskType, RpType, Goto,
       Settled, Finished
  <1>8. CASE FailBeforeMain
    BY <1>8 DEF FailBeforeMain, EndAs, CopiesInv, SecretsHeld, DrainHasSecrets, OutputsPending,
       HasNewContent, OutputsFit, RunnerFits, StagedFits, PickedOver, FilesType, RpType, Settled, Finished
  <1>9. CASE StoppedBefore
    BY <1>9 DEF StoppedBefore, EndAs, CopiesInv, SecretsHeld, DrainHasSecrets, OutputsPending,
       HasNewContent, OutputsFit, RunnerFits, StagedFits, PickedOver, FilesType, RpType, Settled, Finished
  <1>10. CASE StartMain
    BY <1>10 DEF StartMain, CopiesInv, SecretsHeld, DrainHasSecrets, OutputsPending, HasNewContent,
       OutputsFit, RunnerFits, StagedFits, PickedOver, FilesType, StType, RpType, Settled, Finished
  <1>11. CASE MainWrites
    BY <1>11 DEF MainWrites, CopiesInv, SecretsHeld, DrainHasSecrets, OutputsPending, HasNewContent,
       OutputsFit, RunnerFits, StagedFits, PickedOver, FilesType, DiskType, Settled, Finished
  <1>12. CASE MainEnds
    BY <1>12, RunnerWrites DEF MainEnds, AtEnd, CopiesInv, SecretsHeld, DrainHasSecrets, OutputsPending,
       HasNewContent, OutputsFit, RunnerFits, StagedFits, PickedOver, FilesType, RpType, Settled, Finished
  <1>13. CASE TickBegins
    BY <1>13 DEF TickBegins, CopiesInv, SecretsHeld, DrainHasSecrets, OutputsPending, HasNewContent,
       OutputsFit, RunnerFits, StagedFits, PickedOver, Settled, Finished
  <1>14. CASE TickFindsNothing
    BY <1>14 DEF TickFindsNothing, CopiesInv, SecretsHeld, DrainHasSecrets, OutputsPending, HasNewContent,
       OutputsFit, RunnerFits, StagedFits, PickedOver, FilesType, StType, Settled, Finished
  <1>15. CASE TickEnds
    <2>1. SameRun /\ UNCHANGED <<secrets, rp, staged>> /\ Writing
      BY <1>15, RunnerWrites DEF TickEnds, CopiesInv, TickFits
    <2>2. st.status = "running"
      BY <2>1 DEF CopiesInv, RunnerFits, Writing
    <2> QED
      BY <2>1, <2>2 DEF SecretsHeld, DrainHasSecrets, SameRun, Finished
  <1>16. CASE BeginFinalize
    BY <1>16 DEF BeginFinalize, CopiesInv, SecretsHeld, DrainHasSecrets, OutputsPending, HasNewContent,
       OutputsFit, RunnerFits, StagedFits, PickedOver, FilesType, RpType, Goto, Settled, Finished
  <1>17. CASE ClearOutputUploads
    BY <1>17 DEF ClearOutputUploads, CopiesInv, SecretsHeld, DrainHasSecrets, OutputsPending, HasNewContent,
       OutputsFit, RunnerFits, StagedFits, PickedOver, FilesType, RpType, Goto, Settled, Finished
  <1>18. CASE FinalUpload
    BY <1>18, RunnerWrites DEF FinalUpload, AtEnd, SameRun, CopiesInv, SecretsHeld, DrainHasSecrets,
       OutputsPending, HasNewContent, OutputsFit, RunnerFits, StagedFits, PickedOver, FilesType, RpType,
       Goto, Settled, Finished
  <1>19. CASE CleanupWorkdir
    BY <1>19, RunnerWrites DEF CleanupWorkdir, AtEnd, CopiesInv, SecretsHeld, DrainHasSecrets,
       OutputsPending, HasNewContent, OutputsFit, RunnerFits, StagedFits, PickedOver, FilesType, RpType,
       Settled, Finished
  <1>20. CASE Mirror
    BY <1>20, RunnerWrites DEF Mirror, AtEnd, SameRun, CopiesInv, SecretsHeld, DrainHasSecrets,
       OutputsPending, HasNewContent, OutputsFit, RunnerFits, StagedFits, PickedOver, FilesType, RpType,
       Goto, Settled, Finished
  <1>21. CASE End
    BY <1>21, RunnerWrites DEF End, AtEnd, Over, Again, SettleSecrets, CopiesInv, SecretsHeld,
       DrainHasSecrets, OutputsPending, HasNewContent, OutputsFit, RunnerFits, StagedFits, PickedOver,
       FilesType, RpType, Goto, NoRunner, Settled, Finished
  <1>22. CASE Settles
    <2> DEFINE state == IF rp.pc = "cancelled" THEN [st EXCEPT !.up = rp.up] ELSE st
    <2>1. /\ st.status \in Settled /\ staged \notin {"fresh", "stale"} /\ rp' = NoRunner
          /\ UNCHANGED <<conf, st, disk, staged>> /\ SettleSecrets(state)
      BY <1>22 DEF Settles, CopiesInv, RunnerFits, StagedFits, Settled, Finished
    <2>2. state.ran = st.ran /\ (st.up # "ok" => state.up # "ok")
      BY DEF CopiesInv, FilesType, StType, CancelFits
    <2>3. OutputsPending(st)' => OutputsPending(state)
      <3> HIDE DEF state
      <3> QED
        BY <2>1, <2>2 DEF OutputsPending, HasNewContent
    <2>4. st.status \in Finished => secrets
      BY <1>22 DEF Settles, SecretsHeld
    <2> HIDE DEF state
    <2> QED
      BY <2>1, <2>3, <2>4 DEF SettleSecrets, SecretsHeld, DrainHasSecrets, NoRunner, Settled, Finished
  <1>23. CASE RunnerKilled
    BY <1>23 DEF RunnerKilled, CopiesInv, SecretsHeld, DrainHasSecrets, OutputsPending, HasNewContent,
       OutputsFit, RunnerFits, StagedFits, PickedOver, NoRunner, Settled, Finished
  <1>24. CASE MarkRunnerDied
    BY <1>24, DispatcherWrites DEF MarkRunnerDied, JobEnded, Over, SettleSecrets, CopiesInv, SecretsHeld,
       DrainHasSecrets, OutputsPending, HasNewContent, OutputsFit, RunnerFits, StagedFits, PickedOver,
       FilesType, NoRunner, Settled, Finished
  <1>25. CASE Reboot
    BY <1>25 DEF Reboot, CopiesInv, SecretsHeld, DrainHasSecrets, OutputsPending, HasNewContent, OutputsFit,
       RunnerFits, StagedFits, PickedOver, FilesType, DiskType, NoRunner, Settled, Finished
  <1>26. CASE RequeueAfterRestart
    <2>1. /\ secrets /\ UNCHANGED <<secrets, staged>>
          /\ staged \notin {"fresh", "stale"}
      BY <1>26 DEF RequeueAfterRestart, CopiesInv, RunnerFits, StagedFits, SecretsHeld
    <2> QED
      BY <2>1 DEF SecretsHeld, DrainHasSecrets
  <1>27. CASE FailQueued
    BY <1>27, DispatcherWrites DEF FailQueued, JobEnded, NoRunner, Over, SettleSecrets, CopiesInv, SecretsHeld, DrainHasSecrets,
       OutputsPending, HasNewContent, OutputsFit, RunnerFits, StagedFits, PickedOver, FilesType, Settled,
       Finished
  <1>28. CASE Cancel
    BY <1>28, DispatcherWrites DEF Cancel, Cancelled, NoRunner, SameRun, Over, SettleSecrets, CopiesInv, SecretsHeld,
       DrainHasSecrets, OutputsPending, HasNewContent, OutputsFit, RunnerFits, StagedFits, PickedOver,
       FilesType, Settled, Finished
  <1>29. CASE Preempt
    BY <1>29 DEF Preempt, CopiesInv, SecretsHeld, DrainHasSecrets, OutputsPending, HasNewContent,
       OutputsFit, RunnerFits, StagedFits, PickedOver, FilesType, StType, Settled, Finished
  <1>30. CASE DrainUploads
    BY <1>30, DispatcherWrites DEF DrainUploads, SameRun, SettleSecrets, CopiesInv, SecretsHeld,
       DrainHasSecrets, OutputsPending, HasNewContent, OutputsFit, RunnerFits, StagedFits, PickedOver,
       FilesType, Settled, Finished
  <1>31. ASSUME NEW s \in Sweepers, StartPurge(s)
        PROVE  SecretsHeld' /\ DrainHasSecrets'
    BY <1>31 DEF StartPurge, CopiesInv, SecretsHeld, DrainHasSecrets, OutputsPending, HasNewContent,
       OutputsFit, RunnerFits, StagedFits, PickedOver, Settled, Finished
  <1>32. ASSUME NEW s \in Sweepers, PurgeJobDirs(s)
        PROVE  SecretsHeld' /\ DrainHasSecrets'
    BY <1>32 DEF PurgeJobDirs, CopiesInv, SecretsHeld, DrainHasSecrets, OutputsPending, HasNewContent,
       OutputsFit, RunnerFits, StagedFits, PickedOver, FilesType, StType, NoFiles, Settled, Finished
  <1>33. ASSUME NEW s \in Sweepers, StartSweep(s)
        PROVE  SecretsHeld' /\ DrainHasSecrets'
    BY <1>33 DEF StartSweep, CopiesInv, SecretsHeld, DrainHasSecrets, OutputsPending, HasNewContent,
       OutputsFit, RunnerFits, StagedFits, PickedOver, Settled, Finished
  <1>34. ASSUME NEW s \in Sweepers, SweepWorkdirs(s)
        PROVE  SecretsHeld' /\ DrainHasSecrets'
    <2>1. /\ UNCHANGED <<conf, st, rp, secrets, staged>>
          /\ disk' = disk \/ RemoveWorkdir(st, sweep[s].by)
      BY <1>34 DEF SweepWorkdirs
    <2>2. disk' = disk \/ disk'.out = 0
      BY <2>1, Removal DEF CopiesInv, FilesType
    <2>3. OutputsPending(st)' => OutputsPending(st)
      BY <2>1, <2>2 DEF OutputsPending, HasNewContent
    <2> QED
      BY <2>1, <2>3 DEF SecretsHeld, DrainHasSecrets
  <1>35. CASE UNCHANGED vars
    BY <1>35 DEF vars, CopiesInv, SecretsHeld, DrainHasSecrets, OutputsPending, HasNewContent, OutputsFit,
       RunnerFits, StagedFits, PickedOver, FilesType, StType, DiskType, RpType, Goto, NoRunner, NoFiles,
       Settled, Finished
  <1> QED
    BY <1>1, <1>2, <1>3, <1>4, <1>5, <1>6, <1>7, <1>8, <1>9, <1>10, <1>11, <1>12, <1>13, <1>14, <1>15,
       <1>16, <1>17, <1>18, <1>19, <1>20, <1>21, <1>22, <1>23, <1>24, <1>25, <1>26, <1>27, <1>28, <1>29,
       <1>30, <1>31, <1>32, <1>33, <1>34, <1>35 DEF Next

LEMMA SecretsEndStep ==
  ASSUME WholeEnds, CopiesInv, SecretsGo, [Next]_vars
  PROVE  SecretsGo'
  <1>1. CASE Stage
    BY <1>1 DEF Stage, CopiesInv, SecretsGo, OutputsFit, RunnerFits, StagedFits, PickedOver, Settled, Finished
  <1>2. CASE GoStale
    BY <1>2 DEF GoStale, CopiesInv, SecretsGo, OutputsFit, RunnerFits, StagedFits, PickedOver, Settled, Finished
  <1>3. CASE RemoveStaleIncoming
    BY <1>3 DEF RemoveStaleIncoming, CopiesInv, SecretsGo, OutputsFit, RunnerFits, StagedFits, PickedOver,
       Settled, Finished
  <1>4. CASE Enqueue
    BY <1>4 DEF Enqueue, CopiesInv, SecretsGo, OutputsFit, RunnerFits, StagedFits, PickedOver, FilesType,
       StType, Settled, Finished
  <1>5. CASE Claim
    BY <1>5 DEF Claim, CopiesInv, SecretsGo, OutputsFit, RunnerFits, StagedFits, PickedOver, FilesType,
       StType, NoRunner, Settled, Finished
  <1>6. CASE Restore
    BY <1>6 DEF Restore, EndAs, CopiesInv, SecretsGo, OutputsFit, RunnerFits, StagedFits, PickedOver,
       FilesType, RpType, Goto, Settled, Finished
  <1>7. CASE CaptureOutputBaseline
    BY <1>7 DEF CaptureOutputBaseline, CopiesInv, SecretsGo, OutputsFit, RunnerFits, StagedFits, PickedOver,
       FilesType, RpType, Goto, Settled, Finished
  <1>8. CASE FailBeforeMain
    BY <1>8 DEF FailBeforeMain, EndAs, CopiesInv, SecretsGo, OutputsFit, RunnerFits, StagedFits, PickedOver,
       FilesType, RpType, Settled, Finished
  <1>9. CASE StoppedBefore
    BY <1>9 DEF StoppedBefore, EndAs, CopiesInv, SecretsGo, OutputsFit, RunnerFits, StagedFits, PickedOver,
       FilesType, RpType, Settled, Finished
  <1>10. CASE StartMain
    BY <1>10 DEF StartMain, CopiesInv, SecretsGo, OutputsFit, RunnerFits, StagedFits, PickedOver, FilesType,
       StType, RpType, Settled, Finished
  <1>11. CASE MainWrites
    BY <1>11 DEF MainWrites, CopiesInv, SecretsGo, OutputsFit, RunnerFits, StagedFits, PickedOver,
       FilesType, Settled, Finished
  <1>12. CASE MainEnds
    BY <1>12, RunnerWrites DEF MainEnds, AtEnd, CopiesInv, SecretsGo, OutputsFit, RunnerFits, StagedFits,
       PickedOver, FilesType, RpType, Settled, Finished
  <1>13. CASE TickBegins
    BY <1>13 DEF TickBegins, CopiesInv, SecretsGo, OutputsFit, RunnerFits, StagedFits, PickedOver, Settled,
       Finished
  <1>14. CASE TickFindsNothing
    BY <1>14 DEF TickFindsNothing, CopiesInv, SecretsGo, OutputsFit, RunnerFits, StagedFits, PickedOver,
       FilesType, StType, Settled, Finished
  <1>15. CASE TickEnds
    BY <1>15, RunnerWrites DEF TickEnds, SameRun, CopiesInv, SecretsGo, OutputsFit, RunnerFits, StagedFits,
       PickedOver, FilesType, Settled, Finished
  <1>16. CASE BeginFinalize
    BY <1>16 DEF BeginFinalize, CopiesInv, SecretsGo, OutputsFit, RunnerFits, StagedFits, PickedOver,
       FilesType, RpType, Goto, Settled, Finished
  <1>17. CASE ClearOutputUploads
    <2>1. st'.status = st.status /\ rp.pc = "stopping"
      BY <1>17, StWrites DEF ClearOutputUploads, CopiesInv, FilesType
    <2> QED
      BY <2>1 DEF SecretsGo, CopiesInv, RunnerFits, Finished
  <1>18. CASE FinalUpload
    BY <1>18, RunnerWrites DEF FinalUpload, AtEnd, SameRun, CopiesInv, SecretsGo, OutputsFit, RunnerFits,
       StagedFits, PickedOver, FilesType, RpType, Goto, Settled, Finished
  <1>19. CASE CleanupWorkdir
    BY <1>19, RunnerWrites DEF CleanupWorkdir, AtEnd, CopiesInv, SecretsGo, OutputsFit, RunnerFits,
       StagedFits, PickedOver, FilesType, RpType, Settled, Finished
  <1>20. CASE Mirror
    BY <1>20, RunnerWrites DEF Mirror, AtEnd, SameRun, CopiesInv, SecretsGo, OutputsFit, RunnerFits,
       StagedFits, PickedOver, FilesType, RpType, Goto, Settled, Finished
  <1>21. CASE End
    BY <1>21, RunnerWrites DEF End, AtEnd, Over, Again, SettleSecrets, OutputsPending, CopiesInv, SecretsGo,
       OutputsFit, RunnerFits, StagedFits, PickedOver, FilesType, RpType, Goto, NoRunner, Settled, Finished
  <1>22. CASE Settles
    <2> DEFINE state == IF rp.pc = "cancelled" THEN [st EXCEPT !.up = rp.up] ELSE st
    <2>1. UNCHANGED <<conf, st>> /\ SettleSecrets(state)
      BY <1>22 DEF Settles
    <2>2. state.ran = st.ran
      BY DEF CopiesInv, FilesType, StType
    <2> HIDE DEF state
    <2> QED
      BY <2>1, <2>2 DEF SecretsGo, SettleSecrets, OutputsPending
  <1>23. CASE RunnerKilled
    BY <1>23 DEF RunnerKilled, MidEnd, CopiesInv, SecretsGo, OutputsFit, RunnerFits, StagedFits, PickedOver,
       NoRunner, Settled, Finished
  <1>24. CASE MarkRunnerDied
    BY <1>24, DispatcherWrites DEF MarkRunnerDied, JobEnded, Over, SettleSecrets, OutputsPending, CopiesInv,
       SecretsGo, OutputsFit, RunnerFits, StagedFits, PickedOver, FilesType, NoRunner, Settled, Finished
  <1>25. CASE Reboot
    BY <1>25 DEF Reboot, MidEnd, CopiesInv, SecretsGo, OutputsFit, RunnerFits, StagedFits, PickedOver,
       FilesType, NoRunner, Settled, Finished
  <1>26. CASE RequeueAfterRestart
    BY <1>26, DispatcherWrites DEF SecretsGo, CopiesInv, Again, JobEnded, NoRunner, Settled, Finished
  <1>27. CASE FailQueued
    BY <1>27, DispatcherWrites DEF FailQueued, JobEnded, NoRunner, Over, SettleSecrets, OutputsPending, CopiesInv, SecretsGo,
       OutputsFit, RunnerFits, StagedFits, PickedOver, FilesType, Settled, Finished
  <1>28. CASE Cancel
    BY <1>28, DispatcherWrites DEF Cancel, Cancelled, NoRunner, SameRun, Over, SettleSecrets, OutputsPending, CopiesInv,
       SecretsGo, OutputsFit, RunnerFits, StagedFits, PickedOver, FilesType, Settled, Finished
  <1>29. CASE Preempt
    BY <1>29 DEF Preempt, CopiesInv, SecretsGo, OutputsFit, RunnerFits, StagedFits, PickedOver, FilesType,
       StType, Settled, Finished
  <1>30. CASE DrainUploads
    BY <1>30, DispatcherWrites DEF DrainUploads, SameRun, SettleSecrets, OutputsPending, CopiesInv,
       SecretsGo, OutputsFit, RunnerFits, StagedFits, PickedOver, FilesType, Settled, Finished
  <1>31. ASSUME NEW s \in Sweepers, StartPurge(s)
        PROVE  SecretsGo'
    BY <1>31 DEF StartPurge, CopiesInv, SecretsGo, OutputsFit, RunnerFits, StagedFits, PickedOver, Settled,
       Finished
  <1>32. ASSUME NEW s \in Sweepers, PurgeJobDirs(s)
        PROVE  SecretsGo'
    BY <1>32 DEF PurgeJobDirs, CopiesInv, SecretsGo, OutputsFit, RunnerFits, StagedFits, PickedOver,
       FilesType, StType, Settled, Finished
  <1>33. ASSUME NEW s \in Sweepers, StartSweep(s)
        PROVE  SecretsGo'
    BY <1>33 DEF StartSweep, CopiesInv, SecretsGo, OutputsFit, RunnerFits, StagedFits, PickedOver, Settled,
       Finished
  <1>34. ASSUME NEW s \in Sweepers, SweepWorkdirs(s)
        PROVE  SecretsGo'
    BY <1>34 DEF SweepWorkdirs, CopiesInv, SecretsGo, OutputsFit, RunnerFits, StagedFits, PickedOver,
       Settled, Finished
  <1>35. CASE UNCHANGED vars
    BY <1>35 DEF vars, CopiesInv, SecretsGo, OutputsFit, RunnerFits, StagedFits, PickedOver, FilesType,
       StType, RpType, Goto, NoRunner, Settled, Finished
  <1> QED
    BY <1>1, <1>2, <1>3, <1>4, <1>5, <1>6, <1>7, <1>8, <1>9, <1>10, <1>11, <1>12, <1>13, <1>14, <1>15,
       <1>16, <1>17, <1>18, <1>19, <1>20, <1>21, <1>22, <1>23, <1>24, <1>25, <1>26, <1>27, <1>28, <1>29,
       <1>30, <1>31, <1>32, <1>33, <1>34, <1>35 DEF Next


\* A job in the queue has its code, after preempts and after restarts that wipe
\* scratch (checkout.restore, runner._cleanup_workdir): if no submit enqueues what
\* was swept, and nothing is killed between a removal and the write after it.
THEOREM QueueHasItsCode ==
  ASSUME PromptSubmit, WholeEnds
  PROVE  Spec => []AcceptedHasCode
  <1>1. Init => CodeKept
    BY DEF Init, CodeKept
  <1>2. CopiesInv /\ CodeKept /\ [Next]_vars => CodeKept'
    BY CodeStep
  <1>3. CopiesInv /\ CodeKept => AcceptedHasCode
    BY DEF CopiesInv, RunnerFits, CodeKept, HasCheckout, AcceptedHasCode
  <1> QED
    BY <1>1, <1>2, <1>3, CopiesInvariant, PTL DEF Spec

\* Whatever a rental's drain has yet to upload, it has the job's secrets for
\* (cleanup.settle_secrets, after each of the writes that end a job), whoever died
\* before it settled them and though a drain may upload between the two: if no submit enqueues what was swept.
THEOREM DrainFindsSecrets ==
  ASSUME PromptSubmit
  PROVE  Spec => []DrainHasSecrets
  <1>1. Init => CancelFits /\ SecretsHeld /\ DrainHasSecrets
    BY DEF Init, NoRunner, CancelFits, SecretsHeld, DrainHasSecrets, Finished
  <1>2. CopiesInv /\ CancelFits /\ SecretsHeld /\ DrainHasSecrets /\ [Next]_vars =>
          CancelFits' /\ SecretsHeld' /\ DrainHasSecrets'
    BY CancelStep, SecretsStep
  <1> QED
    BY <1>1, <1>2, CopiesInvariant, PTL DEF Spec

\* A finished job that nobody is about to settle has no secrets left on a host that does
\* not drain, however it ended (cleanup.settle_secrets): if nothing is killed
\* between the write that ends the job and the settling.
THEOREM SecretsAreSettled ==
  ASSUME WholeEnds
  PROVE  Spec => []SecretsGo
  <1>1. Init => SecretsGo
    BY DEF Init, SecretsGo
  <1>2. CopiesInv /\ SecretsGo /\ [Next]_vars => SecretsGo'
    BY SecretsEndStep
  <1> QED
    BY <1>1, <1>2, CopiesInvariant, PTL DEF Spec
=============================================================================

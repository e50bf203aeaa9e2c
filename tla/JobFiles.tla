------------------------------ MODULE JobFiles ------------------------------
(***************************************************************************)
(* The files of one job, from the submit that stages them to the purge     *)
(* that deletes the last of them: its checkout and workdir, the outputs    *)
(* its main phase writes, what was uploaded and what the state records of  *)
(* that, its mirrored log, its secrets.  The runner, its sync thread, the  *)
(* dispatcher, the drain of a rental, the hourly sweep and a person's      *)
(* `gpuc clean` all act on them (runner.py, sync.py, checkout.py,          *)
(* cleanup.py, queue.py).  Jobs do not share files, so there is one job.   *)
(***************************************************************************)
EXTENDS Naturals

CONSTANTS
  Confs,         \* the specs and host configs considered
  MaxWrites,     \* bound: versions of the outputs that main may write
  MaxAttempt,    \* bound: attempts a preempt may start
  MaxBoot,       \* bound: restarts of the host
  MaxRestarts,   \* queue.MAX_RESTARTS
  PromptSubmit,  \* no submit comes to enqueue after its staging was swept
  WholeEnds      \* nothing is killed from the removal of a workdir to the last
                 \* write, nor between a write that ends the job, whoever makes
                 \* it, and the settling of the secrets that follows

Policies == {"never", "on_success", "always"}
Finished == {"succeeded", "failed", "cancelled"}
Statuses == {"none", "queued", "running", "purged"} \cup Finished
\* How an attempt ends; "preempted" is a failure for that reason.
Outcomes == {"none", "preempted"} \cup Finished
\* The last result at a destination: none, a success, a failure.
Records == {"none", "ok", "error"}

Conf == [outputs : BOOLEAN,    \* the spec declares outputs with a destination
         keeps : BOOLEAN,      \* and outputs that stay on the host
         policy : Policies,    \* the spec's `cleanup:`
         scratch : BOOLEAN,    \* workdirs on a disk that a restart wipes
         ephemeral : BOOLEAN,  \* a rental, which drains
         mirror : BOOLEAN]     \* the host has an s3_prefix

ASSUME JobFilesAssumption ==
  /\ Confs \subseteq Conf
  /\ {MaxWrites, MaxAttempt, MaxBoot, MaxRestarts} \subseteq Nat
  /\ {PromptSubmit, WholeEnds} \subseteq BOOLEAN

VARIABLES
  conf,
  st,       \* state.json
  disk,     \* what is in the workdir and beside the spec
  remote,   \* what the destination and the mirror hold
  secrets,  \* the job's secrets file is there
  staged,   \* incoming/<id>
  rp,       \* the runner, or whoever else has ended the job and not settled it yet
  tick,     \* the version the sync thread is uploading, 0 for none
  sweep,    \* the two sweeps that may be under way
  boot,
  took      \* who deleted something that was nowhere else

vars == <<conf, st, disk, remote, secrets, staged, rp, tick, sweep, boot, took>>

Intents == {"none", "cancel", "preempt"}

JobState == [status : Statuses, intent : Intents, ran : BOOLEAN,
             up : Records, mirror : Records, lost : BOOLEAN,
             attempt : 1..MaxAttempt + MaxBoot + 1, restarts : 0..MaxRestarts]

RunnerPc == {"none", "claimed", "restored", "ready", "main", "ending", "stopping", "uploading",
             "synced", "cleaned", "mirrored", "ended", "cancelled", "dead", "rebooted"}

Sweepers == {"dispatcher", "person"}
\* What vouches for a delete: nobody typed it, or a person typed `clean`, `clean
\* --purge`, or `clean --purge --force`.
Typed == {"clean", "purge", "force"}
Evidence == {"automatic"} \cup Typed

Sweep == [by : Evidence, at : {"idle", "purge", "between", "clean"}, picked : BOOLEAN]

TypeOK ==
  /\ conf \in Confs
  /\ st \in JobState
  /\ disk \in [workdir : BOOLEAN, checkout : BOOLEAN, archive : BOOLEAN,
               out : 0..MaxWrites, kept : BOOLEAN,
               based : BOOLEAN, base : 0..MaxWrites]
  /\ remote \in [out : 0..MaxWrites, log : 0..MaxAttempt + MaxBoot + 1]
  /\ secrets \in BOOLEAN
  /\ staged \in {"none", "fresh", "stale", "swept", "accepted", "hollow"}
  /\ rp \in [pc : RunnerPc, out : Outcomes, ran : BOOLEAN, coming : BOOLEAN, up : Records]
  /\ tick \in 0..MaxWrites
  /\ sweep \in [Sweepers -> Sweep]
  /\ boot \in 0..MaxBoot
  /\ took \subseteq Evidence \cup {"policy"}

\* up is what a cancel read of the uploads, for its settling.
NoRunner == [pc |-> "none", out |-> "none", ran |-> FALSE, coming |-> FALSE, up |-> "none"]
Idle == [by |-> "automatic", at |-> "idle", picked |-> FALSE]

NoFiles == [workdir |-> FALSE, checkout |-> FALSE, archive |-> FALSE, out |-> 0,
            kept |-> FALSE, based |-> FALSE, base |-> 0]

Init ==
  /\ conf \in Confs
  /\ st = [status |-> "none", intent |-> "none", ran |-> FALSE, up |-> "none",
           mirror |-> "none", lost |-> FALSE, attempt |-> 1, restarts |-> 0]
  /\ disk = NoFiles
  /\ remote = [out |-> 0, log |-> 0]
  /\ secrets = FALSE
  /\ staged = "none"
  /\ rp = NoRunner
  /\ tick = 0
  /\ sweep = [s \in Sweepers |-> Idle]
  /\ boot = 0
  /\ took = {}

-----------------------------------------------------------------------------
(* What the files and the records say.                                     *)

\* Anything the job wrote under a declared output: what is still as the baseline
\* found it came with the checkout.
HasNewContent == disk.out # 0 /\ ~(disk.based /\ disk.out = disk.base)

\* Why the outputs are only on this host, asked of a state that may not be the
\* one on disk: the runner asks with the status that it is about to write.
OutputsPending(state) ==
  /\ conf.outputs
  /\ state.ran
  /\ state.up # "ok"
  /\ disk.workdir
  /\ HasNewContent

KeptOutputs(state) == state.ran /\ conf.keeps /\ disk.kept

\* A workdir that holds kept outputs outlives its checkout.
HasCheckout == IF disk.workdir THEN disk.checkout ELSE disk.archive

ShouldRemove(policy, status) ==
  /\ status \in Finished
  /\ policy = "always" \/ (policy = "on_success" /\ status = "succeeded")

MayDeleteWorkdir(state, by) ==
  /\ state.status \in Finished
  /\ \/ by \in Typed
     \/ /\ by = "policy" => ShouldRemove(conf.policy, state.status)
        /\ by = "automatic" => conf.policy # "never"
        /\ ~OutputsPending(state)

MayDeleteJobDir(state, by) ==
  /\ state.status \in Finished
  /\ \/ by = "force"
     \/ state.mirror = "ok" /\ ~OutputsPending(state) /\ ~KeptOutputs(state)

\* Candidates of a clean and of a purge, whatever their age.
Candidate(by) == HasCheckout /\ MayDeleteWorkdir(st, by)
PurgeCandidate(by) == MayDeleteJobDir(st, by)

\* The outputs in the workdir that are nowhere else.
Unsaved == disk.out # 0 /\ remote.out # disk.out

-----------------------------------------------------------------------------
(* Writes and deletes that several operations share.                       *)

FinishedState(state, status) == [state EXCEPT !.status = status, !.intent = "none"]

\* Only an upload that ran after the job stopped writing vouches for its outputs.
Forgotten(state) == [state EXCEPT !.up = IF @ = "ok" THEN "none" ELSE @]

\* A fresh state, for the next attempt: what was uploaded is forgotten with it.
QueuedAgain(restarts) ==
  [st EXCEPT !.status = "queued", !.intent = "none", !.up = "none", !.mirror = "none",
             !.lost = FALSE, !.attempt = @ + 1, !.restarts = restarts]

\* Mutant: the drain is not thought of.
SettleAlways(state) == secrets' = FALSE

\* The secrets go with the job, unless a rental's drain needs them to upload.
SettleSecrets(state) == secrets' = (secrets /\ conf.ephemeral /\ OutputsPending(state))

\* All of the workdir, or all of it around the kept outputs; and the archive.
WithoutCheckout(state) ==
  CASE ~HasCheckout -> disk
    [] HasCheckout /\ KeptOutputs(state) /\ disk.workdir ->
         [disk EXCEPT !.checkout = FALSE, !.archive = FALSE, !.out = 0]
    [] OTHER -> [disk EXCEPT !.workdir = FALSE, !.checkout = FALSE, !.archive = FALSE,
                             !.out = 0, !.kept = FALSE]

RemoveWorkdir(state, by) ==
  /\ disk' = WithoutCheckout(state)
  /\ took' = took \cup {b \in {by} : Unsaved /\ disk'.out # disk.out}

Goto(pc) == rp' = [rp EXCEPT !.pc = pc]
EndAs(out) == rp' = [rp EXCEPT !.pc = "ending", !.out = out]

-----------------------------------------------------------------------------
(* Submit.                                                                 *)

\* The workdir is copied to incoming/, the secrets to their own file.
Stage ==
  /\ staged = "none"
  /\ staged' = "fresh"
  /\ secrets' = TRUE
  /\ UNCHANGED <<conf, st, disk, remote, rp, tick, sweep, boot, took>>

\* An hour in which nothing changed under incoming/<id>.
GoStale ==
  /\ staged = "fresh"
  /\ staged' = "stale"
  /\ UNCHANGED <<conf, st, disk, remote, secrets, rp, tick, sweep, boot, took>>

RemoveStaleIncoming ==
  /\ staged = "stale"
  /\ staged' = "swept"
  /\ secrets' = FALSE
  /\ UNCHANGED <<conf, st, disk, remote, rp, tick, sweep, boot, took>>

\* enqueue makes what it does not find: after a sweep, an empty workdir.
Enqueue ==
  /\ staged \in {"fresh", "stale"} \/ (~PromptSubmit /\ staged = "swept")
  /\ staged' = IF staged = "swept" THEN "hollow" ELSE "accepted"
  /\ st' = [st EXCEPT !.status = "queued"]
  /\ disk' = [disk EXCEPT !.workdir = ~conf.scratch, !.checkout = ~conf.scratch,
                          !.archive = conf.scratch]
  /\ UNCHANGED <<conf, remote, secrets, rp, tick, sweep, boot, took>>

-----------------------------------------------------------------------------
(* The runner, up to the end of the main phase.                            *)

Claim ==
  /\ st.status = "queued"
  /\ rp.pc = "none"
  /\ st' = [st EXCEPT !.status = "running"]
  /\ rp' = [NoRunner EXCEPT !.pc = "claimed"]
  /\ UNCHANGED <<conf, disk, remote, secrets, staged, tick, sweep, boot, took>>

\* A workdir that is there is used as it is; one that is not comes from the
\* archive, unpacked beside it and renamed, which may fail; on a host without
\* scratch an empty one is made.
Restore ==
  /\ rp.pc = "claimed"
  /\ \/ disk.workdir /\ Goto("restored") /\ UNCHANGED disk
     \/ /\ ~disk.workdir /\ disk.archive
        /\ Goto("restored")
        /\ disk' = [disk EXCEPT !.workdir = TRUE, !.checkout = TRUE]
     \/ /\ ~disk.workdir /\ ~disk.archive /\ ~conf.scratch
        /\ Goto("restored")
        /\ disk' = [disk EXCEPT !.workdir = TRUE]
     \/ /\ ~disk.workdir /\ (disk.archive \/ conf.scratch)
        /\ EndAs("failed") /\ UNCHANGED disk
  /\ UNCHANGED <<conf, st, remote, secrets, staged, tick, sweep, boot, took>>

\* Mutant: what an earlier attempt wrote is taken for part of the checkout.
CaptureAgain ==
  /\ rp.pc = "restored"
  /\ disk' = [disk EXCEPT !.based = conf.outputs, !.base = disk.out]
  /\ Goto("ready")
  /\ UNCHANGED <<conf, st, remote, secrets, staged, tick, sweep, boot, took>>

\* What is under the outputs before setup, once per job and not per attempt.
CaptureOutputBaseline ==
  /\ rp.pc = "restored"
  /\ disk' = IF conf.outputs /\ ~disk.based
             THEN [disk EXCEPT !.based = TRUE, !.base = disk.out]
             ELSE disk
  /\ Goto("ready")
  /\ UNCHANGED <<conf, st, remote, secrets, staged, tick, sweep, boot, took>>

\* gpu-assert, a setup or a preflight that fails, a limit: main never starts.
FailBeforeMain ==
  /\ rp.pc = "ready"
  /\ EndAs("failed")
  /\ UNCHANGED <<conf, st, disk, remote, secrets, staged, tick, sweep, boot, took>>

AsAsked == IF st.intent = "cancel" THEN "cancelled" ELSE "preempted"

StoppedBefore ==
  /\ rp.pc = "ready"
  /\ st.intent # "none"
  /\ EndAs(AsAsked)
  /\ UNCHANGED <<conf, st, disk, remote, secrets, staged, tick, sweep, boot, took>>

StartMain ==
  /\ rp.pc = "ready"
  /\ st' = [st EXCEPT !.ran = TRUE]
  /\ rp' = [rp EXCEPT !.pc = "main", !.ran = TRUE]
  /\ UNCHANGED <<conf, disk, remote, secrets, staged, tick, sweep, boot, took>>

\* The highest version there is: a new one is of content nobody has yet.
Newest == IF remote.out > disk.out THEN remote.out ELSE disk.out

MainWrites ==
  /\ rp.pc = "main"
  /\ conf.outputs \/ conf.keeps
  /\ Newest < MaxWrites
  /\ disk' = [disk EXCEPT !.out = IF conf.outputs THEN Newest + 1 ELSE @, !.kept = conf.keeps]
  /\ UNCHANGED <<conf, st, remote, secrets, staged, rp, tick, sweep, boot, took>>

\* By itself, or killed for what was asked.
MainEnds ==
  /\ rp.pc = "main"
  /\ \/ \E out \in {"succeeded", "failed"} : EndAs(out)
     \/ st.intent # "none" /\ EndAs(AsAsked)
  /\ UNCHANGED <<conf, st, disk, remote, secrets, staged, tick, sweep, boot, took>>

-----------------------------------------------------------------------------
(* The sync thread.  What it uploads is what it finds as it starts; main   *)
(* may have written more by the time the upload is recorded.               *)

TickBegins ==
  /\ rp.pc = "main"
  /\ conf.outputs
  /\ tick = 0
  /\ tick' = disk.out
  /\ HasNewContent
  /\ UNCHANGED <<conf, st, disk, remote, secrets, staged, rp, sweep, boot, took>>

\* A path that stays missing is recorded as the destination's failure.
TickFindsNothing ==
  /\ rp.pc = "main"
  /\ conf.outputs
  /\ tick = 0
  /\ ~HasNewContent
  /\ st' = [st EXCEPT !.up = "error"]
  /\ UNCHANGED <<conf, disk, remote, secrets, staged, rp, tick, sweep, boot, took>>

\* The upload and its record; after a success the log and state are mirrored,
\* which is recorded nowhere.
TickEnds ==
  /\ tick # 0
  /\ tick' = 0
  /\ \/ /\ st' = [st EXCEPT !.up = "ok"]
        /\ remote' = [remote EXCEPT !.out = tick,
                                    !.log = IF conf.mirror THEN st.attempt ELSE @]
     \/ st' = [st EXCEPT !.up = "error"] /\ UNCHANGED remote
  /\ UNCHANGED <<conf, disk, secrets, staged, rp, sweep, boot, took>>

-----------------------------------------------------------------------------
(* The end of an attempt, in the order that `_finalize` calls the contract. *)

BeginFinalize ==
  /\ rp.pc = "ending"
  /\ Goto(IF rp.ran THEN "stopping" ELSE "synced")
  /\ UNCHANGED <<conf, st, disk, remote, secrets, staged, tick, sweep, boot, took>>

\* final() joins the thread before it forgets what the ticks recorded; it goes on
\* when that cannot be written.
ClearOutputUploads ==
  /\ rp.pc = "stopping"
  /\ tick = 0
  /\ st' \in {st, Forgotten(st)}
  /\ Goto("uploading")
  /\ UNCHANGED <<conf, disk, remote, secrets, staged, tick, sweep, boot, took>>

\* A job that succeeded and lost its outputs failed; one that was over keeps its
\* reason.
Blame == IF rp.out = "succeeded" THEN "failed" ELSE rp.out

FinalUpload ==
  /\ rp.pc = "uploading"
  /\ \/ /\ conf.outputs => HasNewContent
        /\ st' = [st EXCEPT !.up = IF conf.outputs THEN "ok" ELSE @]
        /\ remote' = [remote EXCEPT !.out = IF conf.outputs THEN disk.out ELSE @]
        /\ Goto("synced")
     \/ /\ conf.outputs
        /\ st' = [st EXCEPT !.up = "error"]
        /\ rp' = [rp EXCEPT !.pc = "synced", !.out = Blame]
        /\ UNCHANGED remote
  /\ UNCHANGED <<conf, disk, secrets, staged, tick, sweep, boot, took>>

\* What the workdir is kept for is decided here, by a reading of the intent.
ComingBack == rp.out = "preempted" /\ st.intent = "preempt"

Written(out) == IF out = "preempted" THEN "failed" ELSE out

\* Mutant: a job that comes back is asked about like one that ends.
CleanupAnyWorkdir ==
  /\ rp.pc = "synced"
  /\ rp' = [rp EXCEPT !.pc = "cleaned", !.coming = ComingBack]
  /\ LET state == [st EXCEPT !.status = Written(rp.out)]
     IN  IF MayDeleteWorkdir(state, "policy")
         THEN RemoveWorkdir(state, "policy")
         ELSE UNCHANGED <<disk, took>>
  /\ UNCHANGED <<conf, st, remote, secrets, staged, tick, sweep, boot>>

CleanupWorkdir ==
  /\ rp.pc = "synced"
  /\ rp' = [rp EXCEPT !.pc = "cleaned", !.coming = ComingBack]
  /\ LET state == [st EXCEPT !.status = IF ComingBack THEN "queued" ELSE Written(rp.out)]
     IN  IF MayDeleteWorkdir(state, "policy")
         THEN RemoveWorkdir(state, "policy")
         ELSE UNCHANGED <<disk, took>>
  /\ UNCHANGED <<conf, st, remote, secrets, staged, tick, sweep, boot>>

Mirror ==
  /\ rp.pc = "cleaned"
  /\ Goto("mirrored")
  /\ \/ ~conf.mirror /\ UNCHANGED <<st, remote>>
     \/ /\ conf.mirror
        /\ st' = [st EXCEPT !.mirror = "ok"]
        /\ remote' = [remote EXCEPT !.log = st.attempt]
     \/ conf.mirror /\ st' = [st EXCEPT !.mirror = "error"] /\ UNCHANGED remote
  /\ UNCHANGED <<conf, disk, secrets, staged, tick, sweep, boot, took>>

\* The last write: queued again if the preempt still stands, else finished.
End ==
  /\ rp.pc = "mirrored"
  /\ \/ /\ rp.coming /\ st.intent = "preempt"
        /\ st' = QueuedAgain(st.restarts)
        /\ rp' = NoRunner
     \/ /\ ~(rp.coming /\ st.intent = "preempt")
        /\ st' = FinishedState(st, IF rp.out = "preempted" /\ st.intent = "cancel"
                                   THEN "cancelled" ELSE Written(rp.out))
        /\ Goto("ended")
  /\ UNCHANGED <<conf, disk, remote, secrets, staged, tick, sweep, boot, took>>

\* settle_secrets, with the state that the writer of the end has in hand: a drain
\* may upload between a cancel's write and this.
Settles ==
  /\ rp.pc \in {"ended", "cancelled"}
  /\ SettleSecrets(IF rp.pc = "cancelled" THEN [st EXCEPT !.up = rp.up] ELSE st)
  /\ rp' = NoRunner
  /\ UNCHANGED <<conf, st, disk, remote, staged, tick, sweep, boot, took>>

-----------------------------------------------------------------------------
(* Deaths, and what the dispatcher makes of them.                          *)

MidEnd == rp.pc \in {"cleaned", "mirrored", "ended", "cancelled"}
JobEnded == [NoRunner EXCEPT !.pc = "ended"]

\* Or, once the job has ended, whoever ended it.
RunnerKilled ==
  /\ rp.pc \notin {"none", "dead", "rebooted"}
  /\ ~(WholeEnds /\ MidEnd)
  /\ rp' = IF st.status = "running" THEN [NoRunner EXCEPT !.pc = "dead"] ELSE NoRunner
  /\ tick' = 0
  /\ UNCHANGED <<conf, st, disk, remote, secrets, staged, sweep, boot, took>>

MarkRunnerDied ==
  /\ rp.pc = "dead"
  /\ st' = Forgotten(FinishedState(st, "failed"))
  /\ rp' = JobEnded
  /\ UNCHANGED <<conf, disk, remote, secrets, staged, tick, sweep, boot, took>>

\* A restart kills everything and may wipe the disk that scratch is on.
Reboot ==
  /\ boot < MaxBoot
  /\ ~(WholeEnds /\ MidEnd)
  /\ boot' = boot + 1
  /\ rp' = IF st.status = "running" THEN [NoRunner EXCEPT !.pc = "rebooted"] ELSE NoRunner
  /\ tick' = 0
  /\ sweep' = [s \in Sweepers |-> Idle]
  /\ \/ UNCHANGED disk
     \/ conf.scratch /\ disk' = [disk EXCEPT !.workdir = FALSE, !.checkout = FALSE,
                                             !.out = 0, !.kept = FALSE]
  /\ UNCHANGED <<conf, st, remote, secrets, staged, took>>

RequeueAfterRestart ==
  /\ rp.pc = "rebooted"
  /\ \/ /\ st.intent = "preempt"
        /\ st' = QueuedAgain(st.restarts)
        /\ rp' = NoRunner
     \/ /\ st.intent = "none" /\ st.restarts < MaxRestarts
        /\ st' = QueuedAgain(st.restarts + 1)
        /\ rp' = NoRunner
     \/ /\ st.intent = "cancel" \/ (st.intent = "none" /\ st.restarts >= MaxRestarts)
        /\ st' = Forgotten(FinishedState(st, IF st.intent = "cancel"
                                             THEN "cancelled" ELSE "failed"))
        /\ rp' = JobEnded
  /\ UNCHANGED <<conf, disk, remote, secrets, staged, tick, sweep, boot, took>>

\* Mutant: the secrets are left to a runner that never was.
FailQueuedOnly ==
  /\ st.status = "queued"
  /\ rp.pc = "none"
  /\ st' = FinishedState(st, "failed")
  /\ UNCHANGED <<conf, disk, remote, secrets, staged, rp, tick, sweep, boot, took>>

\* The dispatcher ends a queued job that cannot be run.
FailQueued ==
  /\ st.status = "queued"
  /\ rp.pc = "none"
  /\ st' = FinishedState(st, "failed")
  /\ rp' = JobEnded
  /\ UNCHANGED <<conf, disk, remote, secrets, staged, tick, sweep, boot, took>>

-----------------------------------------------------------------------------
(* What a person asks of the job.                                          *)

Cancel ==
  \/ /\ st.status = "queued"
     /\ st' = FinishedState(st, "cancelled")
     /\ rp' = [NoRunner EXCEPT !.pc = "cancelled", !.up = st.up]
     /\ UNCHANGED <<conf, disk, remote, secrets, staged, tick, sweep, boot, took>>
  \/ /\ st.status = "running"
     /\ st' = [st EXCEPT !.intent = "cancel"]
     /\ UNCHANGED <<conf, disk, remote, secrets, staged, rp, tick, sweep, boot, took>>

Preempt ==
  /\ st.status = "running"
  /\ st.intent = "none"
  /\ st.attempt < MaxAttempt
  /\ st' = [st EXCEPT !.intent = "preempt"]
  /\ UNCHANGED <<conf, disk, remote, secrets, staged, rp, tick, sweep, boot, took>>

-----------------------------------------------------------------------------
(* The drain of a rental: one more try at what is only on this host, with  *)
(* the job's own secrets.                                                  *)

DrainUploads ==
  /\ conf.ephemeral
  /\ st.status \in Finished \cup {"queued"}
  /\ rp.pc \in {"none", "cancelled"}
  /\ OutputsPending(st)
  /\ \/ /\ st' = [st EXCEPT !.up = "ok", !.lost = FALSE]
        /\ remote' = [remote EXCEPT !.out = disk.out]
     \/ st' = [st EXCEPT !.up = "error", !.lost = TRUE] /\ UNCHANGED remote
  /\ UNCHANGED <<conf, disk, secrets, staged, rp, tick, sweep, boot, took>>

-----------------------------------------------------------------------------
(* Sweeps: the dispatcher's own, hourly, and a person's.  The state is     *)
(* read as the candidates are picked; the files go later, one job after    *)
(* another.  A purge is followed by the ordinary sweep over the rest.      *)

By(s) == IF s = "dispatcher" THEN {"automatic"} ELSE Typed

StartPurge(s) ==
  /\ sweep[s].at = "idle"
  /\ \E by \in By(s) \ {"clean"} :
       sweep' = [sweep EXCEPT ![s] = [by |-> by, at |-> "purge", picked |-> PurgeCandidate(by)]]
  /\ st.status \notin {"none", "purged"}
  /\ UNCHANGED <<conf, st, disk, remote, secrets, staged, rp, tick, boot, took>>

PurgeJobDirs(s) ==
  /\ sweep[s].at = "purge"
  /\ sweep' = [sweep EXCEPT ![s].at = "between"]
  /\ IF sweep[s].picked /\ st.status # "purged"
     THEN /\ st' = [st EXCEPT !.status = "purged"]
          /\ disk' = NoFiles
          /\ secrets' = FALSE
          /\ took' = took \cup {b \in {sweep[s].by} :
                                  Unsaved \/ disk.kept \/ remote.log # st.attempt}
     ELSE UNCHANGED <<st, disk, secrets, took>>
  /\ UNCHANGED <<conf, remote, staged, rp, tick, boot>>

\* The candidates of a sweep, of its own or after a purge.
StartSweep(s) ==
  /\ st.status \notin {"none", "purged"}
  /\ \/ sweep[s].at = "between" /\ sweep' = [sweep EXCEPT ![s].at = "clean",
                                               ![s].picked = Candidate(sweep[s].by)]
     \/ /\ sweep[s].at = "idle"
        /\ \E by \in By(s) \cap {"automatic", "clean"} :
             sweep' = [sweep EXCEPT ![s] = [by |-> by, at |-> "clean", picked |-> Candidate(by)]]
  /\ UNCHANGED <<conf, st, disk, remote, secrets, staged, rp, tick, boot, took>>

SweepWorkdirs(s) ==
  /\ sweep[s].at = "clean"
  /\ sweep' = [sweep EXCEPT ![s] = Idle]
  /\ IF sweep[s].picked /\ st.status # "purged"
     THEN RemoveWorkdir(st, sweep[s].by)
     ELSE UNCHANGED <<disk, took>>
  /\ UNCHANGED <<conf, st, remote, secrets, staged, rp, tick, boot>>

-----------------------------------------------------------------------------
Next ==
  \/ Stage \/ GoStale \/ RemoveStaleIncoming \/ Enqueue
  \/ Claim \/ Restore \/ CaptureOutputBaseline \/ FailBeforeMain \/ StoppedBefore \/ StartMain \/ MainWrites \/ MainEnds
  \/ TickBegins \/ TickFindsNothing \/ TickEnds
  \/ BeginFinalize \/ ClearOutputUploads \/ FinalUpload \/ CleanupWorkdir \/ Mirror \/ End
  \/ Settles \/ RunnerKilled \/ MarkRunnerDied \/ Reboot \/ RequeueAfterRestart
  \/ FailQueued \/ Cancel \/ Preempt \/ DrainUploads
  \/ \E s \in Sweepers : StartPurge(s) \/ PurgeJobDirs(s) \/ StartSweep(s) \/ SweepWorkdirs(s)

Spec == Init /\ [][Next]_vars

-----------------------------------------------------------------------------
\* No delete that nobody typed -- the job's own cleanup policy, the hourly sweep,
\* the retention purge -- takes outputs or a log that are nowhere else, whatever
\* was uploaded when, by whichever attempt, and whoever died before recording it
\* (cleanup.may_delete, jobs.finish's forget_output_uploads, SyncLoop.final).
OnlyCopiesStay == took \cap {"automatic", "policy"} = {}

\* A purge that is not forced keeps only copies too (SKILL.md: it "only removes
\* jobs whose log, state and outputs are confirmed mirrored").
PurgeKeepsOnlyCopies == "purge" \notin took

\* A job in the queue has its code, after preempts and restarts that wipe scratch
\* too (checkout.restore, runner._cleanup_workdir).
AcceptedHasCode ==
  st.status = "queued" =>
    /\ staged # "hollow"
    /\ IF disk.workdir THEN disk.checkout ELSE disk.archive

\* Whatever a rental's drain has yet to upload, it has the job's secrets for
\* (cleanup.settle_secrets, at each of the writes that end a job).
DrainHasSecrets ==
  /\ conf.ephemeral /\ OutputsPending(st)
  /\ st.status \in Finished /\ rp.pc \in {"none", "cancelled"}
  => secrets

\* A finished job that nobody is about to settle has no secrets left on a host that does
\* not drain, however it ended (ARCHITECTURE.md: "The secrets file goes with
\* **every** terminal write").
SecretsGo ==
  st.status \in Finished \cup {"purged"} /\ rp.pc \notin {"ended", "cancelled"} /\ secrets =>
    conf.ephemeral /\ conf.outputs /\ st.ran
=============================================================================

---------------------------- MODULE DispatcherLock ----------------------------
(***************************************************************************)
(* One dispatcher per host (dispatcher.DispatcherLock): the flock, the      *)
(* heartbeat, the lock file's body that names the holder and its build, and *)
(* what a dispatcher that finds the lock held does about it, while packages *)
(* are shipped, jobs accepted, and dispatchers wedge, crash and run out of  *)
(* work.                                                                   *)
(*                                                                         *)
(* A read of the heartbeat, a read of the body, a try of the flock and a    *)
(* write of either file are a step each.  A signal is sent in one step and  *)
(* takes effect in a later one.                                            *)
(***************************************************************************)
EXTENDS Integers, FiniteSets

CONSTANTS
  Procs,       \* the dispatcher processes that may be started
  Builds,      \* commits a package may have
  NoProc,      \* nobody
  MaxWedged,   \* bound: how many dispatchers may wedge
  MaxCrashes,  \* bound: how many may be killed from outside
  MaxShips,    \* bound: how often a package is shipped
  Timely       \* what is assumed of the timing, a subset of Timings

\* What can be assumed to happen before anybody looks:
\*  "adopt": nobody reads the body while a newcomer with the flock has yet to
\*     write its own;
\*  "evict": no newcomer's first beat falls between another's reading of a stale
\*     heartbeat and its reading of the body it is to evict by;
\*  "release": nobody tries the lock while its holder, done, is letting it go;
\*  "death": a signalled process is gone before the signaller's last try.
Timings == {"adopt", "evict", "release", "death"}

ASSUME NoProcAssumption == NoProc \notin Procs
ASSUME TimelyAssumption == Timely \subseteq Timings
ASSUME LockBoundsAssumption == MaxWedged \in Nat /\ MaxCrashes \in Nat /\ MaxShips \in Nat

VARIABLES
  pc,         \* where each dispatcher process is
  build,      \* the commit it started from
  seen,       \* the holder whose body it read when it found the lock held
  signalled,  \* has it been sent a SIGTERM or a SIGKILL
  wedged,     \* has it stopped beating and working
  lock,       \* the process whose flock it is
  body,       \* the process the lock file names
  fresh,      \* is the heartbeat less than HEARTBEAT_STALE_S old
  pkg,        \* config.pkg_commit, of the package on disk
  ephemeral,  \* config.ephemeral, which never changes: a rental
  work,       \* is a job queued
  crashes,    \* how many were killed from outside
  ships       \* how often a package was shipped

lockVars == <<pc, build, seen, signalled, wedged, lock, body, fresh, pkg, ephemeral, work,
          crashes, ships>>
files == <<lock, body, fresh>>
procs == <<build, seen, signalled, wedged>>
world == <<pkg, ephemeral, work, crashes, ships>>

\* Not started; about to try the flock; with the flock, the first beat, an
\* empty body; in its loop; leaving it; refused, with the body read; waiting for
\* a holder it asked to stand down, or killed; past the last try of either wait;
\* about to evict; gone.
PCs == {"off", "opened", "won", "beaten", "truncated", "serving", "leaving",
        "lost", "judging", "asked", "asked in vain", "waiting", "waited in vain",
        "evicting", "gone"}

LockTypeOK ==
  /\ pc \in [Procs -> PCs]
  /\ build \in [Procs -> Builds]
  /\ seen \in [Procs -> Procs \cup {NoProc}]
  /\ signalled \in [Procs -> BOOLEAN] /\ wedged \in [Procs -> BOOLEAN]
  /\ lock \in Procs \cup {NoProc} /\ body \in Procs \cup {NoProc}
  /\ fresh \in BOOLEAN /\ work \in BOOLEAN /\ ephemeral \in BOOLEAN /\ pkg \in Builds
  /\ crashes \in 0..MaxCrashes /\ ships \in 0..MaxShips
  /\ lock # NoProc => pc[lock] \in {"won", "beaten", "truncated", "serving", "leaving"}
  /\ \A p \in Procs : pc[p] = "serving" => lock = p /\ body = p

Alive(p) == pc[p] \notin {"off", "gone"}

\* Mutant: a holder that beats is good enough.
AnyBuildWillDo(p) == FALSE

\* _version.is_other_build of the commit a body records.
IsAnotherBuild(p) == seen[p] # NoProc => build[seen[p]] # build[p]

\* _signalable_pgid: the process that wrote the body is still there.
Signalable(q) == q \in {p \in Procs : Alive(p)}

\* _signal_holder
Signal(q) == signalled' = [p \in Procs |-> signalled[p] \/ (p = q /\ Signalable(q))]

Goto(p, where) == pc' = [pc EXCEPT ![p] = where]

-----------------------------------------------------------------------------
\* spawn_detached_dispatcher; running_pkg_commit is read as it starts.
Spawn(p) ==
  /\ pc[p] = "off"
  /\ Goto(p, "opened")
  /\ build' = [build EXCEPT ![p] = pkg]
  /\ UNCHANGED <<seen, signalled, wedged, files>>

\* bootstrap.start_dispatcher, and the preempt command.
Start(p) == Spawn(p) /\ UNCHANGED world

\* __main__.cmd_enqueue: the job is accepted, then a dispatcher is started.
EnqueueAndStart(p) == Spawn(p) /\ work' = TRUE /\ UNCHANGED <<pkg, ephemeral, crashes, ships>>

\* bootstrap.ensure_build: another package on disk.
Ship(b) ==
  /\ ships < MaxShips /\ b # pkg
  /\ pkg' = b /\ ships' = ships + 1
  /\ UNCHANGED <<pc, procs, files, ephemeral, work, crashes>>

-----------------------------------------------------------------------------
\* acquire: the first try of the flock.
TryLock(p) ==
  /\ pc[p] = "opened"
  /\ "release" \in Timely /\ lock # NoProc => pc[lock] # "leaving"
  /\ lock' = IF lock = NoProc THEN p ELSE lock
  /\ Goto(p, IF lock = NoProc THEN "won" ELSE "lost")
  /\ UNCHANGED <<procs, body, fresh, world>>

\* lock_holder: who it is.
ReadHolder(p) ==
  /\ pc[p] = "lost"
  /\ "adopt" \in Timely /\ lock # NoProc => pc[lock] \notin {"won", "beaten", "truncated"}
  /\ seen' = [seen EXCEPT ![p] = body]
  /\ Goto(p, "judging")
  /\ UNCHANGED <<build, signalled, wedged, files, world>>

\* A fresh holder of this build is left alone, and so is one that may not be
\* signalled.
LeaveAlone(p) ==
  /\ pc[p] = "judging" /\ fresh
  /\ ~IsAnotherBuild(p) \/ ~Signalable(seen[p])
  /\ Goto(p, "gone")
  /\ UNCHANGED <<procs, files, world>>

\* _ask_to_stand_down: a fresh holder of another build gets a SIGTERM.
Ask(p) ==
  /\ pc[p] = "judging" /\ fresh
  /\ IsAnotherBuild(p) /\ Signalable(seen[p])
  /\ Signal(seen[p])
  /\ Goto(p, "asked")
  /\ UNCHANGED <<build, seen, wedged, files, world>>

FindStale(p) ==
  /\ pc[p] = "judging" /\ ~fresh
  /\ Goto(p, "evicting")
  /\ UNCHANGED <<procs, files, world>>

\* _evict_stale_holder: a SIGKILL for whoever the body names now.
Evict(p) ==
  /\ pc[p] = "evicting"
  /\ Signal(body)
  /\ Goto(p, "waiting")
  /\ UNCHANGED <<build, seen, wedged, files, world>>

\* _take_over, when a try succeeds.
TakeOver(p) ==
  /\ pc[p] \in {"asked", "waiting"} /\ lock = NoProc
  /\ lock' = p
  /\ Goto(p, "won")
  /\ UNCHANGED <<procs, body, fresh, world>>

\* Mutant: it stops waiting without having tried.
RefusedUntried(p) == "death" \in Timely /\ lock # NoProc => ~signalled[lock]

\* _try_flock, refused for the last time before the deadline.
Refused(p) ==
  /\ lock # NoProc
  /\ "death" \in Timely => ~signalled[lock]

\* _take_over sleeps after its last try, and returns without another.
LastTry(p) ==
  /\ Refused(p)
  /\ \/ pc[p] = "asked" /\ Goto(p, "asked in vain")
     \/ pc[p] = "waiting" /\ Goto(p, "waited in vain")
  /\ UNCHANGED <<procs, files, world>>

\* Mutant: the SIGKILL goes to whoever holds the lock by now.
HandoffOverReread(p) ==
  /\ pc[p] = "asked in vain"
  /\ Signal(body) /\ Goto(p, "waiting")
  /\ UNCHANGED <<build, seen, wedged, files, world>>

\* _still_held_by: the one that was asked and would not go gets a SIGKILL;
\* anybody else who has the lock by now is left alone.
HandoffOver(p) ==
  /\ pc[p] = "asked in vain"
  /\ \/ body = seen[p] /\ Signal(seen[p]) /\ Goto(p, "waiting")
     \/ body # seen[p] /\ Goto(p, "gone") /\ UNCHANGED signalled
  /\ UNCHANGED <<build, seen, wedged, files, world>>

GiveUp(p) ==
  /\ pc[p] = "waited in vain"
  /\ Goto(p, "gone")
  /\ UNCHANGED <<procs, files, world>>

-----------------------------------------------------------------------------
\* _adopt: a beat first ...
FirstBeat(p) ==
  /\ pc[p] = "won"
  /\ "evict" \in Timely => \A q \in Procs : pc[q] # "evicting"
  /\ fresh' = TRUE
  /\ Goto(p, "beaten")
  /\ UNCHANGED <<procs, lock, body, world>>

\* ... then the body, over an emptied file.
Truncate(p) ==
  /\ pc[p] = "beaten"
  /\ body' = NoProc
  /\ Goto(p, "truncated")
  /\ UNCHANGED <<procs, lock, fresh, world>>

WriteBody(p) ==
  /\ pc[p] = "truncated"
  /\ body' = p
  /\ Goto(p, "serving")
  /\ UNCHANGED <<procs, lock, fresh, world>>

\* The loop: passes until nothing is queued, or running (see HostQueue).
Serve(p) ==
  /\ pc[p] = "serving" /\ ~wedged[p] /\ work
  /\ work' = FALSE
  /\ UNCHANGED <<pc, procs, files, pkg, ephemeral, crashes, ships>>

\* idle_and_not_ephemeral found nothing to do: the loop is left ...
FindIdle(p) ==
  /\ pc[p] = "serving" /\ ~wedged[p] /\ ~work /\ ~ephemeral
  /\ Goto(p, "leaving")
  /\ UNCHANGED <<procs, files, world>>

Leave(p) ==
  /\ Goto(p, "gone")
  /\ lock' = IF lock = p THEN NoProc ELSE lock
  /\ UNCHANGED <<procs, body, fresh>>

\* ... and the heartbeat stopped, and then the lock released.
Release(p) == pc[p] = "leaving" /\ Leave(p) /\ UNCHANGED world

\* The signal takes effect.
Die(p) == Alive(p) /\ signalled[p] /\ Leave(p) /\ UNCHANGED world

Crash(p) ==
  /\ Alive(p) /\ crashes < MaxCrashes
  /\ Leave(p)
  /\ crashes' = crashes + 1
  /\ UNCHANGED <<pkg, ephemeral, work, ships>>

\* The whole process hangs, its heartbeat thread included.
Wedge(p) ==
  /\ pc[p] = "serving" /\ ~wedged[p]
  /\ Cardinality({q \in Procs : wedged[q]}) < MaxWedged
  /\ wedged' = [wedged EXCEPT ![p] = TRUE]
  /\ UNCHANGED <<pc, build, seen, signalled, files, world>>

\* HEARTBEAT_STALE_S without a beat: nobody has the lock who beats, _beat_loop.
GoStale ==
  /\ fresh
  /\ lock # NoProc => pc[lock] = "won" \/ wedged[lock]
  /\ fresh' = FALSE
  /\ UNCHANGED <<pc, procs, lock, body, world>>

-----------------------------------------------------------------------------
\* A host with a package on it and no dispatcher, now or ever before.
LockInit ==
  /\ pc = [p \in Procs |-> "off"] /\ pkg \in Builds
  /\ build = [p \in Procs |-> pkg]
  /\ seen = [p \in Procs |-> NoProc]
  /\ signalled = [p \in Procs |-> FALSE] /\ wedged = [p \in Procs |-> FALSE]
  /\ lock = NoProc /\ body = NoProc /\ fresh = FALSE
  /\ ephemeral \in BOOLEAN /\ work = FALSE /\ crashes = 0 /\ ships = 0

Acquiring(p) ==
  \/ TryLock(p) \/ ReadHolder(p) \/ LeaveAlone(p) \/ Ask(p) \/ FindStale(p) \/ Evict(p)
  \/ TakeOver(p) \/ LastTry(p) \/ HandoffOver(p) \/ GiveUp(p) \/ FirstBeat(p) \/ Truncate(p) \/ WriteBody(p)

Running(p) == Serve(p) \/ FindIdle(p) \/ Release(p) \/ Die(p)

LockNext ==
  \/ \E p \in Procs : Start(p) \/ EnqueueAndStart(p) \/ Acquiring(p) \/ Running(p) \/ Crash(p) \/ Wedge(p)
  \/ \E b \in Builds : Ship(b)
  \/ GoStale

LockSpec == LockInit /\ [][LockNext]_lockVars

\* A dispatcher goes on with what it is doing, and a signal takes effect; that
\* anybody starts one, or that a heartbeat goes stale, is not assumed.
FairLockSpec == LockSpec /\ \A p \in Procs : WF_lockVars(Acquiring(p)) /\ WF_lockVars(Running(p))

-----------------------------------------------------------------------------
\* acquire, _still_held_by and _adopt: a dispatcher is signalled only if it has
\* wedged or the one that signals it is of another build; never the healthy
\* newcomer that has just won the lock.
SparesTheHealthy ==
  [][\A p \in Procs : signalled'[p] /\ ~signalled[p] =>
       wedged[p] \/ \E q \in Procs : pc'[q] # pc[q] /\ build[q] # build[p]]_lockVars

\* Nothing on a host starts another dispatcher for one that has wedged, or was
\* killed from outside.
Unharmed == crashes = 0 /\ \A p \in Procs : ~wedged[p]

\* spawn_detached_dispatcher is enough after an enqueue: whichever dispatcher
\* has the lock, leaves it, or takes it over, the accepted job is dispatched.
AcceptedIsServed == work ~> (~work \/ ~Unharmed)

\* acquire and _is_another_build: once a dispatcher is started from the package
\* on disk, the one of another build that has the lock does not keep it, unless
\* the newcomer is killed from outside.
ReplacesOtherBuilds ==
  \A p \in Procs : (pc[p] = "opened" /\ build[p] = pkg)
                     ~> (pkg # build[p] \/ lock = NoProc \/ build[lock] = pkg \/ crashes > 0)
=============================================================================

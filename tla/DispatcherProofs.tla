--------------------------- MODULE DispatcherProofs ---------------------------
(***************************************************************************)
(* What one dispatcher leaves to the next.  What a rental takes with it    *)
(* when it ends (Drain), for every number of jobs and of dispatchers       *)
(* killed, in a drain or out of it: the proofs need that a runner claims   *)
(* before a successor dispatcher starts and, for the outputs, that the     *)
(* last tries at them are not cut short.  And whom a dispatcher signals    *)
(* (DispatcherLock), for any number of dispatchers and builds, from one    *)
(* assumption on the timing: no newcomer's first beat falls between the    *)
(* stale reading of a heartbeat and that of the body.                      *)
(***************************************************************************)
EXTENDS Drain, DispatcherLock, TLAPS

DrainSteps == {"retry", "mark", "mirror", "terminate"}

\* A dispatcher that is up has an entry for whatever runs, or is about to.
Counted ==
  disp # "down" => \A j \in Jobs : j \in spawned \/ status[j] = "running" => j \in running

\* Nothing runs, or is about to, while the marker is there; the pass that could
\* start something has seen it.
MarkerStops ==
  /\ draining => spawned = {} /\ \A j \in Jobs : status[j] # "running"
  /\ draining /\ disp = "launch" => goingAway

\* The marker is there until the provider has refused, and the provider is asked
\* only by the dispatcher that put it there.
MarkerStays ==
  /\ host # "up" => draining
  /\ disp \in DrainSteps => host = "up"

\* Past the last tries nothing is pending.
TriesOver ==
  WholeRetries /\ (disp \in {"mirror", "terminate"} \/ host # "up") =>
    \A j \in Jobs : outputs[j] # "pending"

DrainInv == TypeOK /\ Counted /\ MarkerStops /\ MarkerStays /\ TriesOver

-----------------------------------------------------------------------------
\* A job's own steps start nothing while the marker is there.
LEMMA JobDrain ==
  ASSUME DrainInv, NEW j \in Jobs, Job(j)
  PROVE  DrainInv'
  <1> USE DEF DrainInv
  <1>1. UNCHANGED <<running, draining, goingAway, disp, host, deaths>> /\ host # "gone"
    BY DEF Job, Enqueue, Cancel, Claim, RunnerEnds, RunnerPreempted
  <1>2. TypeOK'
    <2> USE <1>1 DEF TypeOK
    <2>1. CASE Enqueue(j) \/ Cancel(j)
      BY <2>1 DEF Enqueue, Cancel
    <2>2. CASE Claim(j)
      BY <2>2 DEF Claim
    <2>3. CASE RunnerPreempted(j)
      BY <2>3 DEF RunnerPreempted
    <2>4. CASE \E confirmed \in BOOLEAN : RunnerEnds(j, confirmed)
      BY <2>4 DEF RunnerEnds
    <2> QED
      BY <2>1, <2>2, <2>3, <2>4 DEF Job
  <1>3. \A k \in Jobs : /\ k \in spawned' => k \in spawned
                        /\ status'[k] = "running" => status[k] = "running" \/ k \in spawned
    BY DEF TypeOK, Job, Enqueue, Cancel, Claim, RunnerEnds, RunnerPreempted
  <1>4. Counted'
    BY <1>1, <1>3 DEF Counted
  <1>5. MarkerStops'
    BY <1>1, <1>2, <1>3 DEF MarkerStops, TypeOK
  <1>6. MarkerStays'
    BY <1>1 DEF MarkerStays
  <1>7. TriesOver'
    <2> SUFFICES ASSUME WholeRetries, disp \in {"mirror", "terminate"} \/ host # "up"
                 PROVE  \A k \in Jobs : outputs'[k] # "pending"
      BY <1>1 DEF TriesOver
    <2>1. draining
      BY DEF TypeOK, MarkerStays
    <2>2. outputs' = outputs
      BY <2>1 DEF MarkerStops, Job, Enqueue, Cancel, Claim, RunnerEnds, RunnerPreempted
    <2> QED
      BY <2>2 DEF TriesOver
  <1> QED
    BY <1>2, <1>4, <1>5, <1>6, <1>7

\* A dispatcher that starts adopts; no runner is still to claim.
LEMMA StartsDrain ==
  ASSUME PromptClaim, DrainInv, DispatcherStarts
  PROVE  DrainInv'
  <1>1. /\ UNCHANGED <<jobvars, draining, goingAway, host, deaths>> /\ disp' = "pass"
        /\ spawned = {} /\ running' = {j \in Jobs : status[j] = "running"}
    BY DEF DispatcherStarts
  <1> QED
    BY <1>1 DEF DrainInv, TypeOK, Counted, MarkerStops, MarkerStays, TriesOver, DrainSteps, jobvars

\* A pass begins: it keeps the entries of what runs, and reads the marker.
LEMMA BeginPassDrain ==
  ASSUME DrainInv, BeginPass
  PROVE  DrainInv'
  <1>1. /\ UNCHANGED <<jobvars, draining, host, deaths>> /\ disp = "pass" /\ disp' = "launch"
        /\ goingAway' = draining /\ running' = {j \in running : j \in spawned \/ status[j] = "running"}
    BY DEF BeginPass
  <1> QED
    BY <1>1 DEF DrainInv, TypeOK, Counted, MarkerStops, MarkerStays, TriesOver, DrainSteps, jobvars

\* What is launched has an entry, and nothing is with the marker there.
LEMMA LaunchDrain ==
  ASSUME DrainInv, LaunchReady
  PROVE  DrainInv'
  <1>1. /\ UNCHANGED <<status, outputs, draining, goingAway, host, deaths>>
        /\ disp = "launch" /\ disp' = "idle"
    BY DEF LaunchReady
  <1>2. CASE MayLaunch /\ Queued # {}
    <2>1. PICK j \in Queued : spawned' = spawned \cup {j} /\ running' = {j}
      BY <1>2 DEF LaunchReady
    <2>2. j \in Jobs /\ running = {} /\ ~draining
      BY <1>1, <1>2 DEF Queued, MayLaunch, DrainInv, MarkerStops
    <2> QED
      BY <1>1, <2>1, <2>2 DEF DrainInv, TypeOK, Counted, MarkerStops, MarkerStays, TriesOver, DrainSteps
  <1>3. CASE ~(MayLaunch /\ Queued # {})
    <2>1. UNCHANGED <<spawned, running>>
      BY <1>3 DEF LaunchReady
    <2> QED
      BY <1>1, <2>1 DEF DrainInv, TypeOK, Counted, MarkerStops, MarkerStays, TriesOver, DrainSteps
  <1> QED
    BY <1>2, <1>3

\* The marker is put on an idle host, where nothing runs or is about to.
LEMMA IdleDrain ==
  ASSUME DrainInv, StayUp \/ StartDrain
  PROVE  DrainInv'
  <1>1. UNCHANGED <<jobvars, running, goingAway, host, deaths>> /\ disp = "idle"
    BY DEF StayUp, StartDrain
  <1>2. CASE StayUp
    BY <1>1, <1>2
       DEF StayUp, DrainInv, TypeOK, Counted, MarkerStops, MarkerStays, TriesOver, DrainSteps, jobvars
  <1>3. CASE StartDrain
    <2>1. /\ draining' = TRUE /\ disp' = "retry" /\ host = "up" /\ running = {}
          /\ spawned = {} /\ \A j \in Jobs : status[j] # "running"
      BY <1>1, <1>3 DEF StartDrain, IsIdle, DrainInv, Counted, TypeOK
    <2> QED
      BY <1>1, <2>1 DEF DrainInv, TypeOK, Counted, MarkerStops, MarkerStays, TriesOver, DrainSteps, jobvars
  <1> QED
    BY <1>2, <1>3

\* What is pending while nothing runs is tried, and marked where that fails.
LEMMA RetryDrain ==
  ASSUME DrainInv, Retries
  PROVE  DrainInv'
  <1>1. /\ UNCHANGED <<status, spawned, running, draining, goingAway, host, deaths>>
        /\ disp \in {"retry", "mark"} /\ disp' \in {"retry", "mark", "mirror"} /\ draining
        /\ host = "up"
    BY DEF Retries, RetryOutput, TriesEnd, MarkLost, RetryOver, DrainInv, TypeOK, MarkerStays,
           DrainSteps, jobvars
  <1>2. outputs' \in [Jobs -> {"none", "pending", "uploaded", "lost"}]
    BY DEF Retries, RetryOutput, TriesEnd, MarkLost, RetryOver, DrainInv, TypeOK, jobvars
  <1>3. ASSUME WholeRetries, disp' = "mirror" PROVE \A j \in Jobs : outputs'[j] # "pending"
    <2>1. outputs' = outputs /\ Pending = {}
      BY <1>1, <1>3 DEF Retries, RetryOutput, TriesEnd, MarkLost, RetryOver, jobvars
    <2> QED
      BY <1>1, <2>1 DEF Pending, DrainInv, MarkerStops
  <1> QED
    BY <1>1, <1>2, <1>3 DEF DrainInv, TypeOK, Counted, MarkerStops, MarkerStays, TriesOver, DrainSteps

\* The rest of a drain, and every way it ends.
LEMMA EndDrain ==
  ASSUME DrainInv, MirrorStates \/ Terminate \/ TerminateFails \/ DispatcherKilled \/ HostStops
  PROVE  DrainInv'
  <1> USE DEF DrainInv, TypeOK, Counted, MarkerStops, MarkerStays, TriesOver, DrainSteps, jobvars
  <1>1. CASE MirrorStates
    BY <1>1 DEF MirrorStates
  <1>2. CASE Terminate
    BY <1>2 DEF Terminate
  <1>3. CASE TerminateFails
    BY <1>3 DEF TerminateFails
  <1>4. CASE DispatcherKilled
    BY <1>4, BoundsAssumption DEF DispatcherKilled
  <1>5. CASE HostStops
    BY <1>5 DEF HostStops
  <1> QED
    BY <1>1, <1>2, <1>3, <1>4, <1>5

LEMMA DrainStep ==
  ASSUME PromptClaim, DrainInv, [Next]_vars
  PROVE  DrainInv'
  <1>1. CASE UNCHANGED vars
    BY <1>1 DEF vars, DrainInv, TypeOK, Counted, MarkerStops, MarkerStays, TriesOver
  <1>2. CASE Passes
    BY <1>2, StartsDrain, BeginPassDrain, LaunchDrain, IdleDrain, RetryDrain, EndDrain DEF Passes, Drains
  <1> QED
    BY <1>1, <1>2, JobDrain, EndDrain DEF Next

LEMMA InitDrain ==
  ASSUME Init
  PROVE  DrainInv
  <1>1. TypeOK
    <2>1. deaths \in 0..MaxDeaths
      BY BoundsAssumption DEF Init
    <2>2. draining \in BOOLEAN /\ goingAway \in BOOLEAN
      BY Zenon DEF Init
    <2>3. /\ status \in [Jobs -> {"absent", "queued", "running", "over"}]
          /\ outputs \in [Jobs -> {"none", "pending", "uploaded", "lost"}]
          /\ spawned \subseteq Jobs /\ running \subseteq Jobs
          /\ disp = "down" /\ host = "up"
      BY DEF Init
    <2> QED
      BY <2>1, <2>2, <2>3 DEF TypeOK
  <1>2. Counted /\ MarkerStops
    BY DEF Init, Counted, MarkerStops
  <1>3. MarkerStays /\ TriesOver
    BY DEF Init, MarkerStays, TriesOver, DrainSteps
  <1> QED
    BY <1>1, <1>2, <1>3 DEF DrainInv

\* maybe_terminate and the marker: no attempt goes with the host, whoever was
\* killed, and wherever, on the way.
THEOREM NothingRunsAtTheEnd ==
  ASSUME PromptClaim
  PROVE  Spec => []NoAttemptLost
  <1>1. DrainInv => NoAttemptLost
    BY DEF DrainInv, MarkerStops, MarkerStays, NoAttemptLost
  <1> QED
    BY <1>1, InitDrain, DrainStep, PTL DEF Spec

\* retry_unconfirmed_outputs: nothing goes with the host that is not known to be
\* uploaded or lost, if the last tries are not cut short.
THEOREM NothingPendsAtTheEnd ==
  ASSUME PromptClaim, WholeRetries
  PROVE  Spec => []OutputsAccountedFor
  <1>1. DrainInv => OutputsAccountedFor
    BY DEF DrainInv, TriesOver, OutputsAccountedFor
  <1> QED
    BY <1>1, InitDrain, DrainStep, PTL DEF Spec

-----------------------------------------------------------------------------
(* The lock, whose state is not the drain's.                               *)

\* From the flock to its release.
Holding == {"won", "beaten", "truncated", "serving", "leaving"}

\* Who is on the way to serving, or serves, has the flock.
HoldersHold == \A p \in Procs : pc[p] \in Holding => lock = p

\* Who is named was started, and what the body says of a living process is that
\* it serves or has served and has yet to let the lock go.
NamedIsKnown ==
  /\ body # NoProc => pc[body] \in {"serving", "leaving", "gone"}
  /\ \A p \in Procs : seen[p] # NoProc => pc[seen[p]] # "off"

\* A heartbeat goes stale under a newcomer that has yet to beat, or a wedged one.
StaleIsWedged == ~fresh /\ lock # NoProc => pc[lock] = "won" \/ wedged[lock]

\* Who asked another to stand down is of another build.
AskedOthers ==
  \A p \in Procs :
    pc[p] \in {"asked", "asked in vain"} => seen[p] # NoProc /\ build[seen[p]] # build[p]

\* Who evicts does so by a heartbeat that is stale still.
EvictsTheStale == \A p \in Procs : pc[p] = "evicting" => ~fresh

LockInv ==
  LockTypeOK /\ HoldersHold /\ NamedIsKnown /\ StaleIsWedged /\ AskedOthers /\ EvictsTheStale

\* The first dispatcher is yet to be started.
LEMMA InitLock == ASSUME LockInit PROVE LockInv
<1>1. LockTypeOK
  <2>1. crashes \in 0..MaxCrashes /\ ships \in 0..MaxShips
    BY NoProcAssumption, LockBoundsAssumption DEF LockInit
  <2>2. /\ pc \in [Procs -> PCs] /\ build \in [Procs -> Builds]
        /\ seen \in [Procs -> Procs \cup {NoProc}]
        /\ signalled \in [Procs -> BOOLEAN] /\ wedged \in [Procs -> BOOLEAN]
        /\ pkg \in Builds /\ ephemeral \in BOOLEAN
    BY DEF LockInit, PCs
  <2> QED  BY <2>1, <2>2 DEF LockInit, LockTypeOK
<1>2. NamedIsKnown  BY DEF LockInit, NamedIsKnown
<1>3. HoldersHold /\ AskedOthers /\ EvictsTheStale
  BY DEF LockInit, HoldersHold, Holding, AskedOthers, EvictsTheStale
<1>4. StaleIsWedged  BY DEF LockInit, StaleIsWedged
<1> QED  BY <1>1, <1>2, <1>3, <1>4 DEF LockInv

\* A dispatcher is started, by hand or by an enqueue.
LEMMA StartsLock ==
  ASSUME LockInv, NEW p \in Procs, Spawn(p), pkg' \in Builds, work' \in BOOLEAN,
         UNCHANGED <<ephemeral, crashes, ships, pkg>>
  PROVE  LockInv'
<1> USE NoProcAssumption, LockBoundsAssumption DEF LockInv, Spawn, Goto, procs, files
<1>1. LockTypeOK'  BY DEF LockTypeOK, PCs
<1>2. HoldersHold'  BY DEF LockTypeOK, HoldersHold, Holding
<1>3. NamedIsKnown'  BY DEF LockTypeOK, NamedIsKnown
<1>4. StaleIsWedged' BY DEF LockTypeOK, StaleIsWedged
<1>5. AskedOthers'  BY DEF LockTypeOK, AskedOthers, NamedIsKnown
<1>6. EvictsTheStale' BY DEF LockTypeOK, EvictsTheStale
<1> QED  BY <1>1, <1>2, <1>3, <1>4, <1>5, <1>6

\* A dispatcher on its way to the lock.
LEMMA AcquiringLock ==
  ASSUME LockInv, "evict" \in Timely, NEW p \in Procs, Acquiring(p)
  PROVE  LockInv'
<1> USE NoProcAssumption, LockBoundsAssumption DEF LockInv, Goto, procs, files, world
<1>1. CASE TryLock(p) \/ TakeOver(p)
  <2> USE <1>1 DEF TryLock, TakeOver
  <2>1. LockTypeOK'  BY DEF LockTypeOK, PCs, HoldersHold, Holding
  <2>2. HoldersHold'  BY DEF LockTypeOK, HoldersHold, Holding
  <2>3. NamedIsKnown'  BY DEF LockTypeOK, NamedIsKnown
  <2>4. StaleIsWedged' BY DEF LockTypeOK, StaleIsWedged
  <2>5. AskedOthers'  BY DEF LockTypeOK, AskedOthers
  <2>6. EvictsTheStale'  BY DEF LockTypeOK, EvictsTheStale
  <2> QED  BY <2>1, <2>2, <2>3, <2>4, <2>5, <2>6
<1>2. CASE FirstBeat(p) \/ Truncate(p) \/ WriteBody(p)
  <2> USE <1>2 DEF FirstBeat, Truncate, WriteBody
  <2>1. LockTypeOK'
    <3>1. lock = p /\ \A q \in Procs : pc'[q] = "serving" => q = p
      BY DEF LockTypeOK, HoldersHold, Holding
    <3>2. CASE FirstBeat(p)  BY <3>1, <3>2 DEF LockTypeOK, PCs
    <3>3. CASE Truncate(p)  BY <3>1, <3>3 DEF LockTypeOK, PCs
    <3>4. CASE WriteBody(p)  BY <3>1, <3>4 DEF LockTypeOK, PCs
    <3> QED  BY <3>2, <3>3, <3>4
  <2>2. HoldersHold'  BY DEF LockTypeOK, HoldersHold, Holding
  <2>3. NamedIsKnown'  BY DEF LockTypeOK, NamedIsKnown
  <2>4. StaleIsWedged' BY DEF LockTypeOK, StaleIsWedged, HoldersHold, Holding
  <2>5. AskedOthers' BY DEF LockTypeOK, AskedOthers
  <2>6. EvictsTheStale'  BY DEF LockTypeOK, EvictsTheStale
  <2> QED  BY <2>1, <2>2, <2>3, <2>4, <2>5, <2>6
<1>3. CASE ReadHolder(p) \/ LeaveAlone(p) \/ Ask(p) \/ FindStale(p)
           \/ Evict(p) \/ LastTry(p) \/ HandoffOver(p) \/ GiveUp(p)
  <2> USE DEF ReadHolder, LeaveAlone, Ask, FindStale, Evict,
              LastTry, HandoffOver, GiveUp
  <2>1. /\ UNCHANGED <<files, build, wedged, world>>
        /\ pc[p] \notin Holding \cup {"off", "gone"}
        /\ seen' = seen \/ (ReadHolder(p) /\ seen' = [seen EXCEPT ![p] = body])
    <3>1. UNCHANGED <<files, build, wedged, world>>  BY <1>3
    <3>2. pc[p] \in {"lost", "judging", "evicting", "asked", "waiting", "asked in vain",
                     "waited in vain"}
      BY <1>3
    <3>3. seen' = seen \/ (ReadHolder(p) /\ seen' = [seen EXCEPT ![p] = body])
      BY <1>3
    <3> QED  BY <3>1, <3>2, <3>3 DEF Holding
  <2>2. PICK x \in PCs \ (Holding \cup {"off"}) : pc' = [pc EXCEPT ![p] = x]
    BY <1>3 DEF Holding, PCs
  <2>3. LockTypeOK'
    <3>1. pc' \in [Procs -> PCs] /\ seen' \in [Procs -> Procs \cup {NoProc}]
      BY <2>1, <2>2 DEF LockTypeOK
    <3>2. \A q \in Procs : pc'[q] \in Holding <=> pc[q] \in Holding /\ pc'[q] = pc[q]
      BY <2>1, <2>2 DEF LockTypeOK
    <3>3. /\ lock # NoProc => pc'[lock] \in Holding
          /\ \A q \in Procs : pc'[q] = "serving" => lock = q /\ body = q
      BY <3>2, <2>1, <2>2 DEF LockTypeOK, Holding
    <3>4. signalled' \in [Procs -> BOOLEAN]
      BY <1>3 DEF LockTypeOK, Signal
    <3> QED
      BY <2>1, <3>1, <3>3, <3>4 DEF LockTypeOK, Holding
  <2>4. HoldersHold' /\ StaleIsWedged'
    BY <2>1, <2>2 DEF LockTypeOK, HoldersHold, StaleIsWedged, Holding
  <2>5. NamedIsKnown'
    BY <2>1, <2>2 DEF LockTypeOK, NamedIsKnown, Holding, ReadHolder
  <2>6. AskedOthers'
    <3>1. x \in {"asked", "asked in vain"} =>
            seen' = seen /\ seen[p] # NoProc /\ build[seen[p]] # build[p]
      BY <1>3, <2>2 DEF AskedOthers, IsAnotherBuild, Signalable, LockTypeOK
    <3> QED  BY <2>1, <2>2, <3>1 DEF LockTypeOK, AskedOthers, ReadHolder
  <2>7. EvictsTheStale'
    <3>1. x = "evicting" => ~fresh
      BY <1>3, <2>2 DEF LockTypeOK
    <3> QED  BY <2>1, <2>2, <3>1 DEF LockTypeOK, EvictsTheStale
  <2> QED  BY <2>3, <2>4, <2>5, <2>6, <2>7
<1> QED  BY <1>1, <1>2, <1>3 DEF Acquiring

\* A dispatcher that releases the lock, or dies.
LEMMA LeavingLock ==
  ASSUME LockInv, NEW p \in Procs, Leave(p), pc[p] # "off",
         pkg' \in Builds, work' \in BOOLEAN, ephemeral' \in BOOLEAN,
         crashes' \in 0..MaxCrashes, ships' \in 0..MaxShips
  PROVE  LockInv'
<1> USE NoProcAssumption, LockBoundsAssumption DEF LockInv, Leave, Goto, procs, files
<1>1. LockTypeOK'  BY DEF LockTypeOK, PCs, HoldersHold, Holding
<1>2. HoldersHold'  BY DEF LockTypeOK, HoldersHold, Holding
<1>3. NamedIsKnown'  BY DEF LockTypeOK, NamedIsKnown
<1>4. StaleIsWedged' BY DEF LockTypeOK, StaleIsWedged
<1>5. AskedOthers'  BY DEF LockTypeOK, AskedOthers
<1>6. EvictsTheStale'  BY DEF LockTypeOK, EvictsTheStale
<1> QED  BY <1>1, <1>2, <1>3, <1>4, <1>5, <1>6

\* Passes, wedges, heartbeats that go stale, and packages that are shipped.
LEMMA RestLock ==
  ASSUME LockInv,
         \/ \E p \in Procs : Serve(p) \/ FindIdle(p) \/ Wedge(p)
         \/ GoStale
         \/ \E b \in Builds : Ship(b)
  PROVE LockInv'
<1> USE DEF LockInv
<1>1. CASE (\E p \in Procs : Serve(p)) \/ \E b \in Builds : Ship(b)
  <2>1. /\ UNCHANGED <<pc, procs, files>>
        /\ work' \in BOOLEAN /\ pkg' \in Builds /\ ephemeral' \in BOOLEAN
        /\ crashes' \in 0..MaxCrashes
    BY <1>1 DEF Serve, Ship, LockTypeOK
  <2>2. ships' \in 0..MaxShips
    BY <1>1, NoProcAssumption, LockBoundsAssumption DEF Serve, Ship, LockTypeOK
  <2> QED
    BY <2>1, <2>2
       DEF procs, files, LockTypeOK, HoldersHold, NamedIsKnown, StaleIsWedged,
           AskedOthers, EvictsTheStale
<1>2. ASSUME NEW p \in Procs, FindIdle(p) PROVE LockInv'
  <2> USE <1>2 DEF FindIdle, Goto, procs, files, world
  <2>1. LockTypeOK'  BY NoProcAssumption, LockBoundsAssumption DEF LockTypeOK, PCs
  <2>2. HoldersHold' /\ NamedIsKnown'  BY DEF LockTypeOK, HoldersHold, Holding, NamedIsKnown
  <2>3. StaleIsWedged' BY NoProcAssumption, LockBoundsAssumption DEF LockTypeOK, StaleIsWedged
  <2>4. AskedOthers' /\ EvictsTheStale'  BY DEF LockTypeOK, AskedOthers, EvictsTheStale
  <2> QED  BY <2>1, <2>2, <2>3, <2>4
<1>3. ASSUME NEW p \in Procs, Wedge(p) PROVE LockInv'
  <2> USE <1>3 DEF Wedge, files, world
  <2>1. LockTypeOK' /\ StaleIsWedged' BY DEF LockTypeOK, StaleIsWedged
  <2>2. HoldersHold' /\ NamedIsKnown' /\ AskedOthers' /\ EvictsTheStale'
    BY DEF HoldersHold, NamedIsKnown, AskedOthers, EvictsTheStale
  <2> QED  BY <2>1, <2>2
<1>4. CASE GoStale
  BY <1>4
     DEF GoStale, procs, world, LockTypeOK, HoldersHold, NamedIsKnown,
         StaleIsWedged, AskedOthers, EvictsTheStale
<1> QED  BY <1>1, <1>2, <1>3, <1>4

\* Every step keeps what the lock promises.
LEMMA LockStep ==
  ASSUME LockInv, "evict" \in Timely, [LockNext]_lockVars
  PROVE  LockInv'
<1>0. /\ pkg \in Builds /\ ephemeral \in BOOLEAN /\ work \in BOOLEAN
      /\ crashes \in 0..MaxCrashes /\ ships \in 0..MaxShips
  BY DEF LockInv, LockTypeOK
<1>1. ASSUME NEW p \in Procs, Start(p) \/ EnqueueAndStart(p) PROVE LockInv'
  BY <1>0, <1>1, StartsLock DEF Start, EnqueueAndStart, world
<1>2. ASSUME NEW p \in Procs, Release(p) \/ Die(p) \/ Crash(p) PROVE LockInv'
  <2>1. Leave(p) /\ pc[p] # "off"
    BY <1>2 DEF Release, Die, Crash, Alive
  <2>2. UNCHANGED <<pkg, ephemeral, work, ships>> /\ crashes' \in 0..MaxCrashes
    BY <1>0, <1>2, NoProcAssumption, LockBoundsAssumption DEF Release, Die, Crash, world
  <2> QED  BY <1>0, <2>1, <2>2, LeavingLock
<1>3. CASE UNCHANGED lockVars
  BY <1>3
     DEF lockVars, LockInv, LockTypeOK, HoldersHold, NamedIsKnown, StaleIsWedged, AskedOthers,
         EvictsTheStale
<1>4. ASSUME NEW p \in Procs,
             Start(p) \/ EnqueueAndStart(p) \/ Acquiring(p) \/ Running(p) \/ Crash(p) \/ Wedge(p)
      PROVE  LockInv'
  BY <1>1, <1>2, <1>4, AcquiringLock, RestLock DEF Running
<1>5. CASE GoStale \/ \E b \in Builds : Ship(b)
  BY <1>5, RestLock
<1> QED  BY <1>3, <1>4, <1>5 DEF LockNext

\* Who is signalled is of another build than who signals, or has the lock, has
\* beaten, and has wedged.
LEMMA SparesStep ==
  ASSUME LockInv, [LockNext]_lockVars, NEW p \in Procs,
         signalled'[p], ~signalled[p]
  PROVE  wedged[p] \/ \E q \in Procs : pc'[q] # pc[q] /\ build[q] # build[p]
<1> USE NoProcAssumption, LockBoundsAssumption DEF LockInv, Goto
<1>1. PICK q \in Procs : Ask(q) \/ Evict(q) \/ HandoffOver(q)
  BY DEF LockNext, lockVars, Start, EnqueueAndStart, Spawn, Acquiring,
         Running, TryLock, ReadHolder,
         LeaveAlone, FindStale, TakeOver, LastTry, GiveUp, FirstBeat, Truncate, WriteBody,
         Serve, FindIdle, Release, Die, Leave, Crash, Wedge, GoStale, Ship, procs
<1>2. CASE Ask(q)
  BY <1>2 DEF Ask, Signal, Signalable, IsAnotherBuild, LockTypeOK
<1>3. CASE HandoffOver(q)
  BY <1>3 DEF HandoffOver, Signal, AskedOthers, LockTypeOK
<1>4. CASE Evict(q)
  <2>1. p = body /\ Alive(p)
    BY <1>4 DEF Evict, Signal, Signalable, LockTypeOK
  <2>2. lock = p /\ pc[p] # "won"
    BY <2>1 DEF NamedIsKnown, Alive, HoldersHold, Holding
  <2> QED
    BY <1>4, <2>2 DEF Evict, EvictsTheStale, StaleIsWedged
<1> QED  BY <1>1, <1>2, <1>3, <1>4

\* No dispatcher signals one of its own build that is not wedged, whatever dies,
\* hangs or is shipped (_evict_stale_holder, _ask_to_stand_down).
THEOREM HealthyAreSpared ==
  ASSUME "evict" \in Timely
  PROVE  LockSpec => SparesTheHealthy
<1>1. LockInit => LockInv  BY InitLock
<1>2. LockInv /\ [LockNext]_lockVars => LockInv'  BY LockStep
<1>3. LockInv /\ [LockNext]_lockVars =>
        [\A p \in Procs : signalled'[p] /\ ~signalled[p] =>
           wedged[p] \/ \E q \in Procs : pc'[q] # pc[q] /\ build[q] # build[p]]_lockVars
  BY SparesStep
<1> QED  BY <1>1, <1>2, <1>3, PTL DEF LockSpec, SparesTheHealthy
=============================================================================

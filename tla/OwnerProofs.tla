------------------------------ MODULE OwnerProofs ------------------------------
(***************************************************************************)
(* Two results, for any number of machines and any restarts of their       *)
(* dispatchers: a machine which serves a queue and renews its claim keeps  *)
(* it, provided that its every heartbeat renews and that claims are not    *)
(* made at once; and a runner never ends another attempt than its own,     *)
(* provided that a look and the write after it are close.                  *)
(***************************************************************************)
EXTENDS Owner, TLAPS

-----------------------------------------------------------------------------
(* What the steps make of their parts keeps its type.                      *)

\* The dispatcher that is off is one.
LEMMA OffType == Off \in DispState
BY OwnerAssumption DEF Off, DispState

\* A job that is queued again is a job.
LEMMA RequeuedType ==
  ASSUME job \in JobState PROVE Requeued \in JobState
BY OwnerAssumption DEF Requeued, JobState, Attempts

\* Going to write is going from any state to the same one.
LEMMA ToWriteType ==
  ASSUME disp \in [Machines -> DispState], NEW m \in Machines, NEW b \in BOOLEAN, ToWrite(m, b)
  PROVE  disp' \in [Machines -> DispState]
BY OffType DEF ToWrite, Off, DispState

\* What a written record makes of the dispatchers.
LEMMA WrittenType ==
  ASSUME disp \in [Machines -> DispState], NEW m \in Machines
  PROVE  Written(m, "adopt") \in [Machines -> DispState]
BY OffType DEF Written, Off, DispState

\* A dispatcher with another value of its type in one of its fields.
LEMMA FieldType ==
  ASSUME NEW d \in DispState
  PROVE  /\ \A pc \in {"off", "watch", "write", "adopt", "serve"} :
              [d EXCEPT !.pc = pc] \in DispState
         /\ \A q \in 0..Stale : [d EXCEPT !.quiet = q] \in DispState
         /\ \A w \in 0..ClaimWait : [d EXCEPT !.waited = w] \in DispState
         /\ \A b \in BOOLEAN : [d EXCEPT !.moved = b] \in DispState
         /\ \A e \in {0} \cup Attempts : [d EXCEPT !.entry = e] \in DispState
         /\ \A w \in {"none", "requeue", "queued", "running"} : [d EXCEPT !.due = w] \in DispState
BY DEF DispState

\* A watcher that starts to count again, or counts on.
LEMMA WatcherType ==
  ASSUME NEW d \in DispState
  PROVE  /\ [d EXCEPT !.moved = FALSE, !.quiet = 0] \in DispState
         /\ d.quiet < Stale /\ d.waited < ClaimWait =>
              [d EXCEPT !.quiet = @ + 1, !.waited = @ + 1] \in DispState
<1>1. [d EXCEPT !.moved = FALSE, !.quiet = 0] = [[d EXCEPT !.moved = FALSE] EXCEPT !.quiet = 0]
  OBVIOUS
<1>2. 0 \in 0..Stale
  BY OwnerAssumption
<1>3. [d EXCEPT !.moved = FALSE, !.quiet = 0] \in DispState
  BY <1>1, <1>2, FieldType
<1>4. ASSUME d.quiet < Stale, d.waited < ClaimWait
      PROVE  [d EXCEPT !.quiet = @ + 1, !.waited = @ + 1] \in DispState
  <2>1. d.quiet + 1 \in 0..Stale /\ d.waited + 1 \in 0..ClaimWait
    BY <1>4, OwnerAssumption DEF DispState
  <2>2. [d EXCEPT !.quiet = @ + 1, !.waited = @ + 1]
          = [[d EXCEPT !.quiet = d.quiet + 1] EXCEPT !.waited = d.waited + 1]
    BY DEF DispState
  <2> QED  BY <2>1, <2>2, FieldType
<1> QED  BY <1>3, <1>4

\* The runners, after one of them has moved on or has gone.
LEMMA RunnersType ==
  ASSUME runners \subseteq RunnerState, NEW x \in runners
  PROVE  /\ Gone(x) => runners' \subseteq RunnerState
         /\ \A pc \in {"started", "looked", "running", "ending"} :
              Becomes(x, pc) => runners' \subseteq RunnerState
BY DEF Gone, Becomes, RunnerState

-----------------------------------------------------------------------------
(* Type correctness.                                                       *)

LEMMA InitType == Init => TypeOK
BY OffType, OwnerAssumption DEF Init, TypeOK, JobState, Attempts

\* One step per action of Next.
LEMMA NextType == TypeOK /\ [Next]_vars => TypeOK'
<1> SUFFICES ASSUME TypeOK, [Next]_vars PROVE TypeOK'
  OBVIOUS
<1> USE OwnerAssumption DEF TypeOK
<1>1. ASSUME NEW m \in Machines, Start(m) PROVE TypeOK'
  <2>1. CASE Replaced(m) /\ age < LongGone
    <3>1. disp' = [disp EXCEPT ![m] = [disp[m] EXCEPT !.pc = "watch"]]
      BY <1>1, <2>1 DEF Start
    <3>2. disp' \in [Machines -> DispState]
      BY <3>1, FieldType
    <3> QED  BY <1>1, <3>2 DEF Start
  <2>2. CASE ~(Replaced(m) /\ age < LongGone)
    <3>1. ToWrite(m, Replaced(m)) /\ Replaced(m) \in BOOLEAN
      BY <1>1, <2>2 DEF Start, Replaced
    <3> QED  BY <1>1, <3>1, ToWriteType DEF Start
  <2> QED  BY <2>1, <2>2
<1>2. ASSUME NEW m \in Machines, Look(m) PROVE TypeOK'
  <2>1. CASE Replaced(m)
    <3>1. [disp[m] EXCEPT !.moved = FALSE, !.quiet = 0] \in DispState
      BY WatcherType
    <3>2. disp' = [disp EXCEPT ![m] = [disp[m] EXCEPT !.moved = FALSE, !.quiet = 0]]
      BY <1>2, <2>1 DEF Look
    <3> QED  BY <1>2, <3>1, <3>2 DEF Look
  <2>2. CASE ~Replaced(m)
    BY <1>2, <2>2, ToWriteType DEF Look
  <2> QED  BY <2>1, <2>2
<1>3. ASSUME NEW m \in Machines, WatchOver(m) PROVE TypeOK'
  BY <1>3, ToWriteType, OffType DEF WatchOver
<1>4. ASSUME NEW m \in Machines, WriteRecord(m) PROVE TypeOK'
  BY <1>4, WrittenType DEF WriteRecord
<1>5. ASSUME NEW m \in Machines, Renew(m) PROVE TypeOK'
  <2>1. \A n \in Machines :
           [disp[n] EXCEPT !.moved = disp[n].moved \/ disp[n].pc = "watch"] \in DispState
    <3>1. ASSUME NEW n \in Machines
          PROVE  disp[n] \in DispState /\ (disp[n].moved \/ disp[n].pc = "watch") \in BOOLEAN
      BY DEF DispState
    <3> QED  BY <3>1, FieldType
  <2>2. disp' = [n \in Machines |->
                   [disp[n] EXCEPT !.moved = disp[n].moved \/ disp[n].pc = "watch"]]
    BY <1>5 DEF Renew
  <2>3. disp' \in [Machines -> DispState]
    BY <2>1, <2>2
  <2> QED  BY <1>5, <2>3, OwnerAssumption DEF Renew
<1>6. CASE Tick
  <2>1. disp' \in [Machines -> DispState]
    BY <1>6, WatcherType DEF Tick
  <2>2. age' = IF age < LongGone THEN age + 1 ELSE age
    BY <1>6 DEF Tick
  <2>3. age' \in 0..LongGone
    BY <2>2
  <2> QED  BY <1>6, <2>1, <2>3 DEF Tick
<1>7. ASSUME NEW m \in Machines, Pass(m) PROVE TypeOK'
  <2>1. CASE StandDown(m)
    BY <2>1, OffType DEF StandDown
  <2>2. CASE AdoptOrphans(m)
    <3>1. PICK e \in {0} \cup Attempts, w \in {"none", "requeue", "queued", "running"} :
            disp' = [disp EXCEPT ![m].pc = "serve", ![m].entry = e, ![m].due = w]
      <4>1. job.attempt \in Attempts
        BY DEF JobState
      <4> QED  BY <2>2, <4>1 DEF AdoptOrphans
    <3>2. disp' = [disp EXCEPT ![m] =
                     [[[disp[m] EXCEPT !.pc = "serve"] EXCEPT !.entry = e] EXCEPT !.due = w]]
      BY <3>1
    <3>3. disp' \in [Machines -> DispState]
      BY <3>2, FieldType
    <3> QED  BY <2>2, <3>3 DEF AdoptOrphans
  <2>3. CASE RequeueOtherBoots(m)
    BY <2>3, FieldType DEF RequeueOtherBoots
  <2>4. CASE Reap(m)
    <3>1. PICK w \in {"none", "requeue", "queued", "running"} :
            disp' = [disp EXCEPT ![m].entry = 0, ![m].due = w]
      BY <2>4 DEF Reap, JobState
    <3>2. disp' = [disp EXCEPT ![m] = [[disp[m] EXCEPT !.entry = 0] EXCEPT !.due = w]]
            /\ 0 \in {0} \cup Attempts
      BY <3>1
    <3>3. disp' \in [Machines -> DispState]
      BY <3>2, FieldType
    <3> QED  BY <2>4, <3>3 DEF Reap
  <2>7. CASE WriteDue(m)
    <3>1. disp' \in [Machines -> DispState]
      BY <2>7, FieldType DEF WriteDue
    <3>2. job' \in JobState
      BY <2>7, RequeuedType DEF WriteDue, JobState
    <3> QED  BY <2>7, <3>1, <3>2 DEF WriteDue
  <2>5. CASE Launch(m)
    BY <2>5 DEF Launch, DispState, JobState, RunnerState
  <2>6. CASE LeaveIdle(m)
    BY <2>6, OffType DEF LeaveIdle
  <2> QED  BY <1>7, <2>1, <2>2, <2>3, <2>4, <2>5, <2>6, <2>7 DEF Pass
<1>8. ASSUME NEW x \in runners, Runner(x) PROVE TypeOK'
  <2>1. runners' \subseteq RunnerState
    BY <1>8, RunnersType DEF Runner, RunnerLooks, RunnerClaims, RunnerStandsDown,
                             RunnerIsEnding, RunnerEnds
  <2>2. job' \in JobState
    BY <1>8 DEF Runner, RunnerLooks, RunnerClaims, RunnerStandsDown, RunnerIsEnding,
                RunnerEnds, JobState, RunnerState
  <2> QED  BY <1>8, <2>1, <2>2 DEF Runner, RunnerLooks, RunnerClaims, RunnerStandsDown,
                                    RunnerIsEnding, RunnerEnds
<1>9. ASSUME NEW m \in Machines, MachineDies(m) \/ DispatcherDies(m) PROVE TypeOK'
  BY <1>9, OffType DEF MachineDies, DispatcherDies
<1>10. CASE UNCHANGED vars
  BY <1>10 DEF vars
<1> QED  BY <1>1, <1>2, <1>3, <1>4, <1>5, <1>6, <1>7, <1>8, <1>9, <1>10 DEF Next, Claiming

\* Every state of the record, the dispatchers, the runners and the job has its type.
THEOREM TypeCorrect == Spec => []TypeOK
<1> QED  BY InitType, NextType, PTL DEF Spec

-----------------------------------------------------------------------------
(* The inductive invariant.                                                *)

Serves(m) == m \in Steady /\ Serving(m) /\ record = m

\* One machine at most is between its last look and its write.
OneWriter ==
  \A m, n \in Machines : disp[m].pc = "write" /\ disp[n].pc = "write" => m = n

\* Whoever is about to write replaces no steady machine that serves.
ReplacesNobody ==
  \A m, n \in Machines : disp[m].pc = "write" /\ Serves(n) => m = n

\* A watcher has seen no more quiet than there has been.
QuietSeen ==
  \A m \in Machines : disp[m].pc = "watch" /\ ~disp[m].moved => disp[m].quiet <= age

\* A steady machine that serves has renewed its claim in the last heartbeat or in this one.
Fresh == \A m \in Machines : Serves(m) => age <= 1

\* Whoever starts to watch has seen nothing yet.
OffIsQuiet == \A m \in Machines : disp[m].pc = "off" => disp[m].quiet = 0

ClaimInv == OneWriter /\ ReplacesNobody /\ QuietSeen /\ Fresh /\ OffIsQuiet

TimingAssumption == "claims" \in Assumed /\ Stale >= 2

\* Who has nobody's record, or one that has been quiet for two heartbeats, may
\* go to write it.
LEMMA ToWriteKeeps ==
  ASSUME TypeOK, ClaimInv, TimingAssumption,
         NEW m \in Machines, NEW b \in BOOLEAN, ToWrite(m, b), UNCHANGED <<record, age>>,
         ~Replaced(m) \/ age >= 2
  PROVE  ClaimInv'
<1>1. \A n \in Machines \ {m} : disp[n].pc # "write" /\ disp'[n] = disp[n]
  BY DEF ToWrite, Alone, TimingAssumption, TypeOK
<1>2. /\ disp'[m].pc = "write"
  BY DEF ToWrite, Off, TypeOK
<1>3. \A n \in Machines \ {m} : ~Serves(n)
  BY OwnerAssumption DEF Replaced, ClaimInv, Fresh, Serves, TypeOK
<1>4. \A n \in Machines \ {m} : Serves(n)' <=> Serves(n)
  BY <1>1 DEF Serves, Serving
<1>5. ~Serves(m)'
  BY <1>2 DEF Serves, Serving
<1>6. OneWriter'
  BY <1>1, <1>2 DEF OneWriter
<1>7. ReplacesNobody'
  BY <1>3, <1>4, <1>5 DEF ReplacesNobody
<1>8. QuietSeen'
  BY <1>1, <1>2 DEF QuietSeen, ClaimInv
<1>9. Fresh'
  BY <1>3, <1>4, <1>5 DEF Fresh
<1>10. OffIsQuiet'
  BY <1>1, <1>2 DEF OffIsQuiet, ClaimInv
<1> QED  BY <1>6, <1>7, <1>8, <1>9, <1>10 DEF ClaimInv

\* The steps that change neither the record nor its age, and of the dispatchers
\* at most one, which goes off or goes on serving.
PlainStep ==
  /\ UNCHANGED <<record, age>>
  /\ \A n \in Machines : \/ disp'[n] = disp[n]
                         \/ disp'[n].pc = "off" /\ disp'[n].quiet = 0
                         \/ Serving(n) /\ disp'[n].pc \in {"adopt", "serve"}

LEMMA PlainStepKeeps ==
  ASSUME ClaimInv, PlainStep PROVE ClaimInv'
<1>1. \A n \in Machines : Serves(n)' => Serves(n)
  BY DEF PlainStep, Serves, Serving
<1>2. \A n \in Machines : disp'[n].pc \in {"watch", "write"} => disp'[n] = disp[n]
  BY DEF PlainStep
<1>3. OneWriter'
  BY <1>2 DEF OneWriter, ClaimInv
<1>4. ReplacesNobody'
  BY <1>1, <1>2 DEF ReplacesNobody, ClaimInv
<1>5. QuietSeen'
  BY <1>2 DEF QuietSeen, ClaimInv, PlainStep
<1>6. Fresh'
  BY <1>1 DEF Fresh, ClaimInv, PlainStep
<1>7. OffIsQuiet'
  BY DEF OffIsQuiet, ClaimInv, PlainStep
<1> QED  BY <1>3, <1>4, <1>5, <1>6, <1>7 DEF ClaimInv

\* What a dispatcher that serves does with the queue, what the runners do and
\* what goes down are such steps.
LEMMA OthersArePlain ==
  ASSUME TypeOK,
         \/ \E m \in Machines : Pass(m) \/ MachineDies(m) \/ DispatcherDies(m)
         \/ \E x \in runners : Runner(x)
         \/ UNCHANGED vars
  PROVE  PlainStep
<1> USE DEF PlainStep, TypeOK
<1>1. ASSUME NEW m \in Machines, Pass(m) PROVE PlainStep
  <2>1. CASE StandDown(m) \/ LeaveIdle(m)
    BY <2>1 DEF StandDown, LeaveIdle, Off
  <2>2. CASE AdoptOrphans(m)
    BY <2>2 DEF AdoptOrphans, Serving, DispState
  <2>3. CASE RequeueOtherBoots(m) \/ WriteDue(m)
    BY <2>3 DEF RequeueOtherBoots, WriteDue, Serving, DispState
  <2>4. CASE Reap(m) \/ Launch(m)
    BY <2>4 DEF Reap, Launch, Serving, DispState
  <2> QED  BY <1>1, <2>1, <2>2, <2>3, <2>4 DEF Pass
<1>2. ASSUME NEW m \in Machines, MachineDies(m) \/ DispatcherDies(m) PROVE PlainStep
  BY <1>2 DEF MachineDies, DispatcherDies, Off
<1>3. ASSUME NEW x \in runners, Runner(x) PROVE PlainStep
  BY <1>3 DEF Runner, RunnerLooks, RunnerClaims, RunnerStandsDown, RunnerIsEnding, RunnerEnds
<1>4. CASE UNCHANGED vars
  BY <1>4 DEF vars
<1> QED  BY <1>1, <1>2, <1>3, <1>4

\* The invariant, with one step per action that claims or keeps time.
LEMMA NextClaim ==
  ASSUME TypeOK, ClaimInv, TimingAssumption, [Next]_vars PROVE ClaimInv'
<1>1. ASSUME NEW m \in Machines, Start(m) PROVE ClaimInv'
  <2>1. CASE Replaced(m) /\ age < LongGone
    <3>1. /\ disp'[m].pc = "watch" /\ disp'[m].quiet = 0 /\ UNCHANGED <<record, age>>
          /\ \A n \in Machines \ {m} : disp'[n] = disp[n]
      BY <1>1, <2>1 DEF Start, ClaimInv, OffIsQuiet, TypeOK, DispState
    <3>2. \A n \in Machines : Serves(n)' => Serves(n)
      BY <3>1 DEF Serves, Serving
    <3>3. OneWriter' /\ ReplacesNobody' /\ OffIsQuiet' /\ Fresh'
      BY <3>1, <3>2 DEF ClaimInv, OneWriter, ReplacesNobody, OffIsQuiet, Fresh
    <3>4. QuietSeen'
      BY <3>1 DEF ClaimInv, QuietSeen, TypeOK
    <3> QED  BY <3>3, <3>4 DEF ClaimInv
  <2>2. CASE ~(Replaced(m) /\ age < LongGone)
    <3>1. ToWrite(m, Replaced(m)) /\ UNCHANGED <<record, age>> /\ Replaced(m) \in BOOLEAN
      BY <1>1, <2>2 DEF Start, Replaced
    <3>2. ~Replaced(m) \/ age >= 2
      BY <2>2, OwnerAssumption DEF TimingAssumption, TypeOK
    <3> QED  BY <3>1, <3>2, ToWriteKeeps
  <2> QED  BY <2>1, <2>2
<1>2. ASSUME NEW m \in Machines, Look(m) PROVE ClaimInv'
  <2>1. CASE Replaced(m)
    <3>1. /\ disp'[m].pc = "watch" /\ disp'[m].quiet = 0 /\ UNCHANGED <<record, age>>
          /\ \A n \in Machines \ {m} : disp'[n] = disp[n]
      BY <1>2, <2>1 DEF Look, TypeOK, DispState
    <3>2. \A n \in Machines : Serves(n)' => Serves(n)
      BY <3>1 DEF Serves, Serving
    <3>3. OneWriter' /\ ReplacesNobody' /\ OffIsQuiet' /\ Fresh'
      BY <3>1, <3>2 DEF ClaimInv, OneWriter, ReplacesNobody, OffIsQuiet, Fresh
    <3>4. QuietSeen'
      BY <3>1 DEF ClaimInv, QuietSeen, TypeOK
    <3> QED  BY <3>3, <3>4 DEF ClaimInv
  <2>2. CASE ~Replaced(m)
    BY <1>2, <2>2, ToWriteKeeps DEF Look
  <2> QED  BY <2>1, <2>2
<1>3. ASSUME NEW m \in Machines, WatchOver(m) PROVE ClaimInv'
  <2>1. CASE disp[m].quiet >= Stale /\ ToWrite(m, TRUE)
    <3>1. age >= 2
      <4>1. disp[m].quiet <= age
        BY <1>3 DEF WatchOver, ClaimInv, QuietSeen
      <4>2. disp[m].quiet \in Nat /\ age \in Nat /\ Stale \in Nat
        BY OwnerAssumption DEF TypeOK, DispState
      <4> QED  BY <2>1, <4>1, <4>2 DEF TimingAssumption
    <3> QED  BY <1>3, <2>1, <3>1, ToWriteKeeps DEF WatchOver
  <2>2. CASE disp' = [disp EXCEPT ![m] = Off]
    <3>1. PlainStep
      BY <1>3, <2>2 DEF WatchOver, PlainStep, Off, TypeOK
    <3> QED  BY <3>1, PlainStepKeeps
  <2> QED  BY <1>3, <2>1, <2>2 DEF WatchOver
<1>4. ASSUME NEW m \in Machines, WriteRecord(m) PROVE ClaimInv'
  <2>1. /\ record' = m /\ age' = 0
        /\ disp'[m].pc = "adopt"
        /\ \A n \in Machines \ {m} : /\ disp'[n].pc = disp[n].pc
                                     /\ disp'[n].quiet = disp[n].quiet
                                     /\ disp[n].pc = "watch" => disp'[n].moved
    BY <1>4 DEF WriteRecord, Written, Off, TypeOK, DispState
  <2>2. \A n \in Machines : disp'[n].pc # "write"
    BY <1>4, <2>1 DEF WriteRecord, ClaimInv, OneWriter
  <2>3. OneWriter' /\ ReplacesNobody'
    BY <2>2 DEF OneWriter, ReplacesNobody
  <2>4. QuietSeen' /\ OffIsQuiet'
    BY <2>1 DEF QuietSeen, OffIsQuiet, ClaimInv
  <2>5. Fresh'
    BY <2>1 DEF Fresh
  <2> QED  BY <2>3, <2>4, <2>5 DEF ClaimInv
<1>5. ASSUME NEW m \in Machines, Renew(m) PROVE ClaimInv'
  <2>1. /\ record' = record /\ age' = 0
        /\ \A n \in Machines : /\ disp'[n].pc = disp[n].pc
                               /\ disp'[n].quiet = disp[n].quiet
                               /\ disp[n].pc = "watch" => disp'[n].moved
    BY <1>5 DEF Renew, TypeOK, DispState
  <2>2. \A n \in Machines : Serves(n)' <=> Serves(n)
    BY <2>1 DEF Serves, Serving
  <2>3. OneWriter' /\ ReplacesNobody'
    BY <2>1, <2>2 DEF OneWriter, ReplacesNobody, ClaimInv
  <2>4. QuietSeen' /\ OffIsQuiet' /\ Fresh'
    BY <2>1 DEF QuietSeen, OffIsQuiet, Fresh, ClaimInv
  <2> QED  BY <2>3, <2>4 DEF ClaimInv
<1>6. CASE Tick
  <2>0. age' = IF age < LongGone THEN age + 1 ELSE age
    BY <1>6 DEF Tick
  <2>1. /\ record' = record
        /\ \A n \in Machines : /\ disp'[n].pc = disp[n].pc
                               /\ disp[n].pc # "watch" => disp'[n] = disp[n]
                               /\ disp[n].pc = "watch" => disp'[n].quiet = disp[n].quiet + 1
    BY <1>6 DEF Tick, TypeOK, DispState
  <2>2. \A n \in Machines : Serves(n)' <=> Serves(n)
    BY <2>1 DEF Serves, Serving
  <2>3. OneWriter' /\ ReplacesNobody' /\ OffIsQuiet'
    BY <2>1, <2>2 DEF OneWriter, ReplacesNobody, OffIsQuiet, ClaimInv
  <2>4. Fresh'
    <3>1. ASSUME NEW n \in Machines, Serves(n) PROVE age' <= 1
      <4>1. age = 0
        BY <1>6, <3>1 DEF Tick, TimingAssumption, Serves
      <4> QED  BY <2>0, <4>1
    <3> QED  BY <2>2, <3>1 DEF Fresh
  <2>5. QuietSeen'
    <3>1. ASSUME NEW n \in Machines, disp[n].pc = "watch" PROVE disp'[n].quiet <= age'
      <4>1. disp[n].quiet <= age /\ disp[n].quiet < Stale
        BY <1>6, <3>1 DEF Tick, ClaimInv, QuietSeen
      <4>2. disp[n].quiet \in Nat /\ age \in Nat /\ Stale \in Nat /\ LongGone \in Nat
        BY OwnerAssumption DEF TypeOK, DispState
      <4> QED  BY <2>0, <2>1, <3>1, <4>1, <4>2, OwnerAssumption
    <3> QED  BY <2>1, <3>1 DEF QuietSeen
  <2> QED  BY <2>3, <2>4, <2>5 DEF ClaimInv
<1>7. CASE \/ \E m \in Machines : Pass(m) \/ MachineDies(m) \/ DispatcherDies(m)
           \/ \E x \in runners : Runner(x)
           \/ UNCHANGED vars
  BY <1>7, OthersArePlain, PlainStepKeeps
<1> QED  BY <1>1, <1>2, <1>3, <1>4, <1>5, <1>6, <1>7 DEF Next, Claiming

\* Nobody serves, or has claimed anything, at the start.
LEMMA InitClaim == Init => ClaimInv
BY DEF Init, Off, ClaimInv, OneWriter, ReplacesNobody, QuietSeen, Fresh, OffIsQuiet, Serves, Serving

\* No step of anybody's replaces who serves: the record changes in a claim's write
\* only, and whoever makes one replaces nobody.
LEMMA NextReplacesNobody ==
  ASSUME TypeOK, ClaimInv, [Next]_vars
  PROVE  \A m \in Steady : Serving(m) /\ record = m => record' = m
<1> SUFFICES ASSUME NEW m \in Machines, Serves(m) PROVE record' = m
  BY OwnerAssumption DEF Serves
<1>1. ASSUME NEW n \in Machines, WriteRecord(n) PROVE record' = m
  BY <1>1 DEF WriteRecord, ClaimInv, ReplacesNobody
<1>2. ASSUME NEW n \in Machines, ~WriteRecord(n),
             Claiming(n) \/ Renew(n) \/ Pass(n) \/ MachineDies(n) \/ DispatcherDies(n)
      PROVE  record' = m
  BY <1>2 DEF Serves, Claiming, Start, Look, WatchOver, Renew, Pass, StandDown, AdoptOrphans,
              RequeueOtherBoots, Reap, WriteDue, Launch, LeaveIdle, MachineDies, DispatcherDies
<1>3. ASSUME NEW x \in runners, Runner(x) PROVE record' = m
  BY <1>3 DEF Serves, Runner, RunnerLooks, RunnerClaims, RunnerStandsDown, RunnerIsEnding,
              RunnerEnds
<1>4. CASE Tick \/ UNCHANGED vars
  BY <1>4 DEF Serves, Tick, vars
<1> QED  BY <1>1, <1>2, <1>3, <1>4 DEF Next

\* A machine whose dispatcher serves the queue and renews its claim in every
\* heartbeat is never replaced, however many others start beside it
\* (owner.claim, renew), when two claims are not made at once.
THEOREM TheLiveKeepTheirQueue ==
  ASSUME TimingAssumption PROVE Spec => LiveIsNotReplaced
<1>1. TypeOK /\ ClaimInv /\ [Next]_vars => ClaimInv'
  BY NextClaim
<1>2. TypeOK /\ ClaimInv /\ [Next]_vars
        => [\A m \in Steady : Serving(m) /\ record = m => record' = m]_vars
  BY NextReplacesNobody
<1> QED  BY InitType, NextType, InitClaim, <1>1, <1>2, PTL DEF Spec, LiveIsNotReplaced

-----------------------------------------------------------------------------
(* That a runner ends its own attempt, whatever has become of the job in   *)
(* the meantime.                                                           *)

\* At its work, or between its last look and the write that ends the job.
AtWork(x) == x.pc \in {"running", "ending"}

\* Before the first claim is written there is nothing that it could replace.
FirstClaimFirst == record = None => runners = {} /\ \A m \in Machines : ~Serving(m)

\* Who goes to write as one who replaces nobody finds the record as it was.
WriterIsRight ==
  \A m \in Machines : disp[m].pc = "write" /\ ~disp[m].took => record \in {m, None}

\* The machine of a dispatcher that is about to write of a job still has the queue.
DuesInTime == \A m \in Machines : disp[m].due # "none" => record = m /\ disp[m].entry = 0

\* The machine of a runner that is about to end its job still has the queue.
EndsInTime == \A x \in runners : x.pc = "ending" => record = x.on

\* No runner is ahead of the job, and none works on an attempt that waits.
NoneAhead ==
  /\ \A x \in runners : x.attempt <= job.attempt
  /\ \A x \in runners : AtWork(x) /\ job.status = "queued" => x.attempt < job.attempt

\* A running attempt is run on the machine that its job names, if anywhere.
RunsWhereItSays ==
  \A x \in runners : AtWork(x) /\ x.attempt = job.attempt /\ job.status = "running" => job.by = x.on

\* A runner whose attempt has been replaced is on a machine that has been, too.
ReplacedWithItsMachine ==
  \A x \in runners : AtWork(x) /\ x.attempt < job.attempt => record # x.on

\* What the owner's dispatcher has launched or adopted is the job's attempt.
EntryIsOfTheJob ==
  \A m \in Machines : record = m /\ Serving(m) /\ disp[m].entry # 0 => job.attempt = disp[m].entry

\* An attempt that is about to be failed as dead stays so until the write.
DeadStayDead ==
  \A m \in Machines : disp[m].due = "running" =>
    \/ job.status = "done"
    \/ job.status = "running" /\ \A x \in RunnersOf(m) : AtWork(x) => x.attempt # job.attempt

\* "window" and the length of a watch are not needed here.
EndAssumption == {"claims", "looks", "stays"} \subseteq Assumed

\* What concerns the claims, the runners and their job, and the dispatchers' writes.
ClaimsInOrder == OneWriter /\ FirstClaimFirst /\ WriterIsRight /\ DuesInTime
WorkInOrder == EndsInTime /\ NoneAhead /\ RunsWhereItSays /\ ReplacedWithItsMachine
DuesInOrder == EntryIsOfTheJob /\ DeadStayDead

\* Who goes to write does so alone, and knows whether it replaces anybody.
LEMMA ToWriteInOrder ==
  ASSUME TypeOK, ClaimsInOrder, EndAssumption,
         NEW m \in Machines, NEW b \in BOOLEAN, ToWrite(m, b), UNCHANGED <<record, runners>>,
         b \/ ~Replaced(m)
  PROVE  ClaimsInOrder'
<1>1. \A n \in Machines \ {m} : disp[n].pc # "write" /\ disp'[n] = disp[n]
  BY DEF ToWrite, Alone, EndAssumption, TypeOK
<1>2. disp'[m].pc = "write" /\ disp'[m].took = b
  BY DEF ToWrite, Off, TypeOK
<1>3. OneWriter'
  BY <1>1, <1>2 DEF OneWriter
<1>4. FirstClaimFirst'
  BY <1>1, <1>2 DEF ClaimsInOrder, FirstClaimFirst, Serving
<1>5. WriterIsRight'
  BY <1>1, <1>2 DEF WriterIsRight, Replaced
<1>6. DuesInTime'
  <2>1. disp'[m].due = "none"
    BY DEF ToWrite, Off, TypeOK
  <2> QED  BY <1>1, <2>1 DEF DuesInTime, ClaimsInOrder
<1> QED  BY <1>3, <1>4, <1>5, <1>6 DEF ClaimsInOrder

\* The steps that write no record and send nobody to write one, and that start
\* something, or look for a write, only where the queue has been claimed.
QuietStep ==
  /\ record' = record
  /\ \A n \in Machines : /\ disp'[n].pc = "write" => disp[n].pc = "write" /\ disp'[n].took = disp[n].took
                         /\ Serving(n)' => Serving(n)
                         /\ \/ disp'[n].due = "none"
                            \/ disp'[n].due = disp[n].due /\ disp'[n].entry = disp[n].entry
                            \/ record = n /\ disp'[n].entry = 0
  /\ runners' # {} => runners # {} \/ \E n \in Machines : Serving(n)

LEMMA QuietStepInOrder ==
  ASSUME ClaimsInOrder, QuietStep PROVE ClaimsInOrder'
<1>1. OneWriter'
  BY DEF ClaimsInOrder, OneWriter, QuietStep
<1>2. FirstClaimFirst'
  BY DEF ClaimsInOrder, FirstClaimFirst, QuietStep
<1>3. WriterIsRight'
  BY DEF ClaimsInOrder, WriterIsRight, QuietStep
<1>4. DuesInTime'
  BY DEF ClaimsInOrder, DuesInTime, QuietStep
<1> QED  BY <1>1, <1>2, <1>3, <1>4 DEF ClaimsInOrder

\* All but the claims are such steps.
LEMMA OthersAreQuiet ==
  ASSUME TypeOK, ClaimsInOrder,
         \/ \E m \in Machines : Renew(m) \/ Pass(m) \/ MachineDies(m) \/ DispatcherDies(m)
         \/ \E x \in runners : Runner(x)
         \/ Tick \/ UNCHANGED vars
  PROVE  QuietStep
<1> USE DEF QuietStep, Serving
<1>1. ASSUME NEW m \in Machines, Renew(m) PROVE QuietStep
  BY <1>1 DEF Renew, TypeOK, DispState
<1>2. ASSUME NEW m \in Machines, Pass(m) PROVE QuietStep
  <2>1. CASE StandDown(m) \/ LeaveIdle(m)
    BY <2>1 DEF StandDown, LeaveIdle, Off, TypeOK
  <2>2. CASE AdoptOrphans(m)
    <3>1. record = m
      BY <2>2 DEF AdoptOrphans, Replaced, ClaimsInOrder, FirstClaimFirst
    <3>2. disp'[m].due # "none" => disp'[m].entry = 0
      BY <2>2 DEF AdoptOrphans, TypeOK, DispState
    <3> QED  BY <2>2, <3>1, <3>2 DEF AdoptOrphans, TypeOK, DispState
  <2>3. CASE RequeueOtherBoots(m)
    <3>1. record = m
      BY <2>3 DEF RequeueOtherBoots, Replaced, ClaimsInOrder, FirstClaimFirst
    <3> QED  BY <2>3, <3>1 DEF RequeueOtherBoots, TypeOK, DispState
  <2>4. CASE Reap(m)
    <3>1. record = m
      BY <2>4 DEF Reap, Replaced, ClaimsInOrder, FirstClaimFirst
    <3> QED  BY <2>4, <3>1 DEF Reap, TypeOK, DispState
  <2>5. CASE WriteDue(m)
    BY <2>5 DEF WriteDue, TypeOK, DispState
  <2>6. CASE Launch(m)
    BY <2>6 DEF Launch, Free, TypeOK, DispState
  <2> QED  BY <1>2, <2>1, <2>2, <2>3, <2>4, <2>5, <2>6 DEF Pass
<1>3. ASSUME NEW m \in Machines, MachineDies(m) \/ DispatcherDies(m) PROVE QuietStep
  BY <1>3 DEF MachineDies, DispatcherDies, Off, TypeOK
<1>4. ASSUME NEW x \in runners, Runner(x) PROVE QuietStep
  BY <1>4 DEF Runner, RunnerLooks, RunnerClaims, RunnerStandsDown, RunnerIsEnding, RunnerEnds
<1>5. CASE Tick
  <2>1. \A n \in Machines : /\ disp'[n].pc = disp[n].pc /\ disp'[n].took = disp[n].took
                           /\ disp'[n].due = disp[n].due /\ disp'[n].entry = disp[n].entry
    BY <1>5 DEF Tick, TypeOK, DispState
  <2> QED  BY <1>5, <2>1 DEF Tick
<1>6. CASE UNCHANGED vars
  BY <1>6 DEF vars
<1> QED  BY <1>1, <1>2, <1>3, <1>4, <1>5, <1>6

LEMMA NextClaimsInOrder ==
  ASSUME TypeOK, ClaimsInOrder, EndAssumption, [Next]_vars PROVE ClaimsInOrder'
<1>1. ASSUME NEW m \in Machines, Start(m) PROVE ClaimsInOrder'
  <2>1. CASE Replaced(m) /\ age < LongGone
    <3>1. QuietStep
      BY <1>1, <2>1 DEF Start, QuietStep, Serving, TypeOK, DispState
    <3> QED  BY <3>1, QuietStepInOrder
  <2>2. CASE ~(Replaced(m) /\ age < LongGone)
    <3>1. ToWrite(m, Replaced(m)) /\ UNCHANGED <<record, runners>> /\ Replaced(m) \in BOOLEAN
      BY <1>1, <2>2 DEF Start, Replaced
    <3> QED  BY <3>1, ToWriteInOrder
  <2> QED  BY <2>1, <2>2
<1>2. ASSUME NEW m \in Machines, Look(m) PROVE ClaimsInOrder'
  <2>1. CASE Replaced(m)
    <3>1. /\ disp'[m].pc = "watch" /\ disp'[m].due = disp[m].due /\ disp'[m].entry = disp[m].entry
          /\ \A n \in Machines \ {m} : disp'[n] = disp[n]
      BY <1>2, <2>1 DEF Look, TypeOK, DispState
    <3>2. QuietStep
      BY <1>2, <3>1 DEF Look, QuietStep, Serving
    <3> QED  BY <3>2, QuietStepInOrder
  <2>2. CASE ~Replaced(m)
    BY <1>2, <2>2, ToWriteInOrder DEF Look
  <2> QED  BY <2>1, <2>2
<1>3. ASSUME NEW m \in Machines, WatchOver(m) PROVE ClaimsInOrder'
  <2>1. CASE ToWrite(m, TRUE)
    BY <1>3, <2>1, ToWriteInOrder DEF WatchOver
  <2>2. CASE disp' = [disp EXCEPT ![m] = Off]
    <3>1. QuietStep
      BY <1>3, <2>2 DEF WatchOver, QuietStep, Serving, Off, TypeOK
    <3> QED  BY <3>1, QuietStepInOrder
  <2> QED  BY <1>3, <2>1, <2>2 DEF WatchOver
<1>4. ASSUME NEW m \in Machines, WriteRecord(m) PROVE ClaimsInOrder'
  <2>1. record' = m /\ m # None
    BY <1>4, OwnerAssumption DEF WriteRecord
  <2>2. disp'[m].pc = "adopt" /\ \A n \in Machines \ {m} : disp'[n].pc = disp[n].pc
    BY <1>4 DEF WriteRecord, Written, Off, TypeOK, DispState
  <2>3. \A n \in Machines : disp'[n].pc # "write"
    BY <1>4, <2>2 DEF WriteRecord, ClaimsInOrder, OneWriter
  <2>4. \A n \in Machines : disp'[n].due = "none"
    <3>1. disp'[m].due = "none"
      BY <1>4 DEF WriteRecord, Written, Off, TypeOK
    <3>2. \A n \in Machines \ {m} : disp'[n].due = disp[n].due
      BY <1>4 DEF WriteRecord, Written, TypeOK, DispState
    <3> QED  BY <1>4, <3>1, <3>2 DEF WriteRecord, EndAssumption
  <2> QED  BY <2>1, <2>3, <2>4
           DEF ClaimsInOrder, OneWriter, FirstClaimFirst, WriterIsRight, DuesInTime
<1>5. CASE \/ \E m \in Machines : Renew(m) \/ Pass(m) \/ MachineDies(m) \/ DispatcherDies(m)
           \/ \E x \in runners : Runner(x)
           \/ Tick \/ UNCHANGED vars
  BY <1>5, OthersAreQuiet, QuietStepInOrder
<1> QED  BY <1>1, <1>2, <1>3, <1>4, <1>5 DEF Next, Claiming

\* The steps that leave the job, and no runner but such as was there already and
\* does what it did.
IdleStep ==
  /\ UNCHANGED <<record, job>>
  /\ runners' \subseteq runners

LEMMA IdleStepInOrder ==
  ASSUME WorkInOrder, IdleStep PROVE WorkInOrder'
BY DEF WorkInOrder, IdleStep, EndsInTime, NoneAhead, RunsWhereItSays, ReplacedWithItsMachine, AtWork

\* A job that is queued again leaves behind it only runners on machines that
\* have been replaced.
LEMMA RequeueInOrder ==
  ASSUME TypeOK, ClaimsInOrder, WorkInOrder, NEW m \in Machines,
         record = m, job.status = "running", job.by # m,
         job' = Requeued, UNCHANGED <<record, runners>>
  PROVE  WorkInOrder'
<1>1. record = m
  OBVIOUS
<1>2. EndsInTime'
  BY DEF WorkInOrder, EndsInTime
<1>3. \A x \in runners : x.attempt \in Nat /\ x.attempt <= job.attempt /\ job.attempt \in Nat
  BY OwnerAssumption DEF WorkInOrder, NoneAhead, TypeOK, RunnerState, JobState, Attempts
<1>4. \A x \in runners : AtWork(x) => record # x.on
  BY <1>1, <1>3 DEF WorkInOrder, RunsWhereItSays, ReplacedWithItsMachine
<1>5. CASE job.attempt <= MaxRestarts
  <2>1. job'.status = "queued" /\ job'.attempt = job.attempt + 1
    BY <1>5 DEF Requeued
  <2>2. \A x \in runners : x.attempt < job'.attempt
    BY <1>3, <2>1
  <2>3. \A x \in runners : x.attempt <= job'.attempt
    BY <1>3, <2>1
  <2> QED  BY <1>2, <1>4, <2>1, <2>2, <2>3
           DEF WorkInOrder, NoneAhead, RunsWhereItSays, ReplacedWithItsMachine, AtWork
<1>6. CASE ~(job.attempt <= MaxRestarts)
  <2>1. job'.status = "done" /\ job'.attempt = job.attempt
    BY <1>6 DEF Requeued, TypeOK, JobState
  <2> QED  BY <1>2, <2>1
           DEF WorkInOrder, NoneAhead, RunsWhereItSays, ReplacedWithItsMachine, AtWork
<1> QED  BY <1>5, <1>6

\* A job that is done, whatever ends it, says nothing of its runners.
LEMMA DoneInOrder ==
  ASSUME TypeOK, WorkInOrder, job' = job \/ job' = [job EXCEPT !.status = "done"],
         record' = record, runners' \subseteq runners
  PROVE  WorkInOrder'
<1>1. job'.attempt = job.attempt /\ (job' = job \/ job'.status = "done")
  BY DEF TypeOK, JobState
<1> QED  BY <1>1
         DEF WorkInOrder, EndsInTime, NoneAhead, RunsWhereItSays, ReplacedWithItsMachine, AtWork

\* A runner that moves on is the same one at another point.
LEMMA BecomesAnother ==
  ASSUME NEW x \in RunnerState, NEW pc, Becomes(x, pc)
  PROVE  \E y : /\ runners' = (runners \ {x}) \cup {y}
                /\ y.on = x.on /\ y.attempt = x.attempt /\ y.pc = pc
<1>1. LET y == [x EXCEPT !.pc = pc]
      IN  /\ runners' = (runners \ {x}) \cup {y}
          /\ y.on = x.on /\ y.attempt = x.attempt /\ y.pc = pc
  BY DEF Becomes, RunnerState
<1> QED  BY <1>1

LEMMA PassInOrder ==
  ASSUME TypeOK, ClaimsInOrder, WorkInOrder, NEW m \in Machines, Pass(m)
  PROVE  WorkInOrder'
<1>1. CASE StandDown(m) \/ AdoptOrphans(m) \/ RequeueOtherBoots(m) \/ Reap(m) \/ LeaveIdle(m)
  BY <1>1, IdleStepInOrder
     DEF StandDown, AdoptOrphans, RequeueOtherBoots, Reap, LeaveIdle, IdleStep
<1>4. CASE WriteDue(m)
  <2>1. record = m
    BY <1>4 DEF WriteDue, ClaimsInOrder, DuesInTime
  <2>2. CASE job.status = "running" /\ job.by # m /\ disp[m].due = "requeue"
    BY <1>4, <2>1, <2>2, RequeueInOrder DEF WriteDue
  <2>3. CASE ~(job.status = "running" /\ job.by # m /\ disp[m].due = "requeue")
    BY <1>4, <2>3, DoneInOrder DEF WriteDue
  <2> QED  BY <2>2, <2>3
<1>5. CASE Launch(m)
  <2> DEFINE y == [on |-> m, attempt |-> job.attempt, pc |-> "started"]
  <2>1. runners' = runners \cup {y} /\ y.attempt = job.attempt /\ y.pc = "started"
    BY <1>5 DEF Launch
  <2>2. UNCHANGED <<record, job>> /\ job.attempt <= job.attempt
    <3>1. job.attempt \in Nat
      BY OwnerAssumption DEF TypeOK, JobState, Attempts
    <3> QED  BY <1>5, <3>1 DEF Launch
  <2> HIDE DEF y
  <2> QED  BY <2>1, <2>2
           DEF WorkInOrder, EndsInTime, NoneAhead, RunsWhereItSays, ReplacedWithItsMachine, AtWork
<1> QED  BY <1>1, <1>4, <1>5 DEF Pass

\* What a runner does.  The one that claims the job does so for the attempt that
\* waits, and nobody works on that; the one that ends it has looked.
LEMMA RunnerInOrder ==
  ASSUME TypeOK, ClaimsInOrder, WorkInOrder, NEW x \in runners, Runner(x)
  PROVE  WorkInOrder'
<1>0. x \in RunnerState
  BY DEF TypeOK
<1>1. CASE RunnerLooks(x)
  <2>1. CASE Replaced(x.on)
    BY <1>1, <2>1, IdleStepInOrder DEF RunnerLooks, Gone, IdleStep
  <2>2. CASE ~Replaced(x.on)
    <3>1. PICK y : /\ runners' = (runners \ {x}) \cup {y}
                   /\ y.on = x.on /\ y.attempt = x.attempt /\ y.pc = "looked"
      BY <1>0, <1>1, <2>2, BecomesAnother DEF RunnerLooks
    <3> QED  BY <1>1, <3>1 DEF RunnerLooks, WorkInOrder, EndsInTime, NoneAhead, RunsWhereItSays,
                               ReplacedWithItsMachine, AtWork
  <2> QED  BY <2>1, <2>2
<1>2. CASE RunnerClaims(x)
  <2>1. CASE job.status = "queued" /\ job.attempt = x.attempt
    <3>0. job.attempt \in Nat
      BY OwnerAssumption DEF TypeOK, JobState, Attempts
    <3>1. PICK y : /\ runners' = (runners \ {x}) \cup {y}
                   /\ y.on = x.on /\ y.attempt = x.attempt /\ y.pc = "running"
      BY <1>0, <1>2, <2>1, BecomesAnother DEF RunnerClaims
    <3>2. /\ job'.status = "running" /\ job'.attempt = job.attempt /\ job'.by = x.on
          /\ record' = record
      BY <1>2, <2>1 DEF RunnerClaims, TypeOK, JobState
    <3>3. \A z \in runners : AtWork(z) => z.attempt < job.attempt /\ z.attempt \in Nat
      BY <2>1, OwnerAssumption DEF WorkInOrder, NoneAhead, TypeOK, RunnerState, Attempts
    <3>4. EndsInTime' /\ NoneAhead'
      BY <2>1, <3>1, <3>2 DEF WorkInOrder, EndsInTime, NoneAhead
    <3>5. \A z \in runners' : AtWork(z) => z = y \/ (z \in runners /\ z.attempt < job.attempt)
      BY <3>1, <3>3
    <3>6. RunsWhereItSays' /\ ReplacedWithItsMachine'
      <4>1. \A z \in runners : AtWork(z) => z.attempt # job.attempt
        BY <3>0, <3>3
      <4>2. ~(y.attempt < job.attempt)
        BY <3>0, <2>1, <3>1
      <4> QED  BY <2>1, <3>1, <3>2, <4>1, <4>2
               DEF WorkInOrder, RunsWhereItSays, ReplacedWithItsMachine, AtWork
    <3> QED  BY <3>4, <3>6 DEF WorkInOrder
  <2>2. CASE ~(job.status = "queued" /\ job.attempt = x.attempt)
    BY <1>2, <2>2, IdleStepInOrder DEF RunnerClaims, Gone, IdleStep
  <2> QED  BY <2>1, <2>2
<1>3. CASE RunnerStandsDown(x)
  BY <1>3, IdleStepInOrder DEF RunnerStandsDown, Gone, IdleStep
<1>4. CASE RunnerIsEnding(x)
  <2>1. PICK y : /\ runners' = (runners \ {x}) \cup {y}
                 /\ y.on = x.on /\ y.attempt = x.attempt /\ y.pc = "ending"
    BY <1>0, <1>4, BecomesAnother DEF RunnerIsEnding
  <2>2. record = x.on /\ AtWork(x) /\ UNCHANGED <<record, job>>
    BY <1>4 DEF RunnerIsEnding, Replaced, ClaimsInOrder, FirstClaimFirst, AtWork
  <2>3. EndsInTime'
    BY <2>1, <2>2 DEF WorkInOrder, EndsInTime
  <2>4. NoneAhead' /\ RunsWhereItSays' /\ ReplacedWithItsMachine'
    BY <2>1, <2>2 DEF WorkInOrder, NoneAhead, RunsWhereItSays, ReplacedWithItsMachine, AtWork
  <2> QED  BY <2>3, <2>4 DEF WorkInOrder
<1>5. CASE RunnerEnds(x)
  BY <1>5, DoneInOrder DEF RunnerEnds, Gone
<1> QED  BY <1>1, <1>2, <1>3, <1>4, <1>5 DEF Runner

\* A claim that is written takes the queue from nobody between its look and its
\* end, and gives none back to a machine with a runner from before.
LEMMA WriteRecordInOrder ==
  ASSUME TypeOK, ClaimsInOrder, WorkInOrder, EndAssumption, NEW m \in Machines, WriteRecord(m)
  PROVE  WorkInOrder'
<1>1. record' = m /\ UNCHANGED <<runners, job>>
  BY DEF WriteRecord
<1>2. EndsInTime'
  BY <1>1 DEF WriteRecord, EndAssumption, EndsInTime
<1>3. NoneAhead' /\ RunsWhereItSays'
  BY <1>1 DEF WorkInOrder, NoneAhead, RunsWhereItSays
<1>4. ReplacedWithItsMachine'
  <2>1. CASE disp[m].took
    BY <1>1, <2>1 DEF WriteRecord, EndAssumption, RunnersOf, ReplacedWithItsMachine
  <2>2. CASE ~disp[m].took
    <3>1. record = m \/ runners = {}
      BY <2>2 DEF WriteRecord, ClaimsInOrder, WriterIsRight, FirstClaimFirst
    <3> QED  BY <1>1, <3>1 DEF WorkInOrder, ReplacedWithItsMachine
  <2> QED  BY <2>1, <2>2
<1> QED  BY <1>2, <1>3, <1>4 DEF WorkInOrder

LEMMA NextWorkInOrder ==
  ASSUME TypeOK, ClaimsInOrder, WorkInOrder, EndAssumption, [Next]_vars PROVE WorkInOrder'
<1>1. CASE \E m \in Machines : Start(m) \/ Look(m) \/ WatchOver(m) \/ Renew(m)
                                \/ MachineDies(m) \/ DispatcherDies(m)
  <2>1. IdleStep
    BY <1>1 DEF IdleStep, Start, Look, WatchOver, Renew, MachineDies, DispatcherDies
  <2> QED  BY <2>1, IdleStepInOrder
<1>2. CASE Tick \/ UNCHANGED vars
  BY <1>2, IdleStepInOrder DEF IdleStep, Tick, vars
<1> QED  BY <1>1, <1>2, PassInOrder, RunnerInOrder, WriteRecordInOrder DEF Next, Claiming

\* The steps that leave the job's attempt and send no dispatcher to write, and after
\* which nobody is newly at work.
TameStep ==
  /\ record' = record /\ job'.attempt = job.attempt
  /\ job' = job \/ job'.status = "done" \/ job.status = "queued"
  /\ \A n \in Machines :
       /\ record = n /\ Serving(n)' /\ disp'[n].entry # 0 =>
            \/ Serving(n) /\ disp'[n].entry = disp[n].entry
            \/ disp'[n].entry = job.attempt
       /\ disp'[n].due = "running" => disp[n].due = "running"
  /\ \A x \in runners' : \/ ~AtWork(x)
                         \/ job.status = "queued"
                         \/ \E y \in runners : y.on = x.on /\ y.attempt = x.attempt /\ AtWork(y)

LEMMA TameStepInOrder ==
  ASSUME DuesInOrder, TameStep PROVE DuesInOrder'
<1>1. EntryIsOfTheJob'
  BY DEF DuesInOrder, EntryIsOfTheJob, TameStep
<1>2. DeadStayDead'
  <2> SUFFICES ASSUME NEW m \in Machines, disp'[m].due = "running"
               PROVE  \/ job'.status = "done"
                      \/ /\ job'.status = "running"
                         /\ \A x \in RunnersOf(m)' : AtWork(x) => x.attempt # job'.attempt
    BY DEF DeadStayDead, AtWork
  <2>1. \/ job.status = "done"
        \/ job.status = "running" /\ \A x \in RunnersOf(m) : AtWork(x) => x.attempt # job.attempt
    BY DEF DuesInOrder, DeadStayDead, TameStep
  <2> QED  BY <2>1 DEF TameStep, RunnersOf
<1> QED  BY <1>1, <1>2 DEF DuesInOrder

LEMMA NextDuesInOrder ==
  ASSUME TypeOK, ClaimsInOrder, DuesInOrder, EndAssumption, [Next]_vars PROVE DuesInOrder'
<1> USE DEF TypeOK
<1>1. ASSUME NEW m \in Machines, Start(m) \/ Look(m) \/ WatchOver(m) PROVE DuesInOrder'
  <2>1. /\ ~Serving(m)' /\ disp'[m].due \in {"none", disp[m].due}
        /\ \A n \in Machines \ {m} : disp'[n] = disp[n]
    <3>1. CASE \E b \in BOOLEAN : ToWrite(m, b)
      BY <3>1 DEF ToWrite, Off, Serving
    <3>2. CASE disp' = [disp EXCEPT ![m] = Off]
      BY <3>2 DEF Off, Serving
    <3>3. CASE disp' = [disp EXCEPT ![m].pc = "watch"]
      BY <3>3 DEF Serving, DispState
    <3>4. CASE disp[m].pc = "watch" /\ disp' = [disp EXCEPT ![m].moved = FALSE, ![m].quiet = 0]
      BY <3>4 DEF Serving, DispState
    <3> QED  BY <1>1, <3>1, <3>2, <3>3, <3>4 DEF Start, Look, WatchOver, Replaced
  <2>2. UNCHANGED <<record, job, runners>>
    BY <1>1 DEF Start, Look, WatchOver
  <2>3. TameStep
    BY <2>1, <2>2 DEF TameStep, Serving
  <2> QED  BY <2>3, TameStepInOrder
<1>2. ASSUME NEW m \in Machines, WriteRecord(m) PROVE DuesInOrder'
  <2>1. /\ record' = m /\ UNCHANGED <<job, runners>>
        /\ disp'[m].entry = 0 /\ disp'[m].due = "none"
        /\ \A n \in Machines \ {m} : disp'[n].due = disp[n].due
    BY <1>2 DEF WriteRecord, Written, Off, DispState
  <2>2. \A n \in Machines : disp'[n].due = "none"
    BY <1>2, <2>1 DEF WriteRecord, EndAssumption
  <2> QED  BY <2>1, <2>2 DEF DuesInOrder, EntryIsOfTheJob, DeadStayDead
<1>3. ASSUME NEW m \in Machines, Renew(m) \/ StandDown(m) \/ LeaveIdle(m)
                                  \/ MachineDies(m) \/ DispatcherDies(m)
      PROVE  DuesInOrder'
  <2>1. /\ UNCHANGED <<record, job>> /\ runners' \subseteq runners
        /\ \A n \in Machines : \/ disp'[n] = Off
                               \/ /\ disp'[n].pc = disp[n].pc /\ disp'[n].due = disp[n].due
                                  /\ disp'[n].entry = disp[n].entry
    BY <1>3 DEF Renew, StandDown, LeaveIdle, MachineDies, DispatcherDies, DispState
  <2>2. TameStep
    BY <2>1 DEF TameStep, Serving, Off
  <2> QED  BY <2>2, TameStepInOrder
<1>4. ASSUME NEW m \in Machines, AdoptOrphans(m) PROVE DuesInOrder'
  <2>1. /\ UNCHANGED <<record, job, runners>>
        /\ disp'[m].entry \in {0, job.attempt}
        /\ disp'[m].due = "running" =>
             job.status = "running" /\ \A x \in RunnersOf(m) : AtWork(x) => x.attempt # job.attempt
        /\ \A n \in Machines \ {m} : disp'[n] = disp[n]
    BY <1>4 DEF AdoptOrphans, DispState, AtWork
  <2>2. EntryIsOfTheJob'
    BY <2>1 DEF DuesInOrder, EntryIsOfTheJob, Serving
  <2>3. DeadStayDead'
    BY <2>1 DEF DuesInOrder, DeadStayDead, RunnersOf, AtWork
  <2> QED  BY <2>2, <2>3 DEF DuesInOrder
<1>5. ASSUME NEW m \in Machines, RequeueOtherBoots(m) PROVE DuesInOrder'
  <2>1. TameStep
    BY <1>5 DEF RequeueOtherBoots, TameStep, Serving, DispState
  <2> QED  BY <2>1, TameStepInOrder
<1>6. ASSUME NEW m \in Machines, Reap(m) PROVE DuesInOrder'
  <2>1. job.attempt = disp[m].entry
    BY <1>6 DEF Reap, Free, Replaced, ClaimsInOrder, FirstClaimFirst, DuesInOrder, EntryIsOfTheJob
  <2>2. /\ UNCHANGED <<record, job, runners>> /\ disp'[m].entry = 0
        /\ disp'[m].due = "running" => job.status = "running"
        /\ \A x \in RunnersOf(m) : x.attempt # job.attempt
        /\ \A n \in Machines \ {m} : disp'[n] = disp[n]
    BY <1>6, <2>1 DEF Reap, DispState
  <2>3. EntryIsOfTheJob'
    BY <2>2 DEF DuesInOrder, EntryIsOfTheJob, Serving
  <2>4. DeadStayDead'
    BY <2>2 DEF DuesInOrder, DeadStayDead, RunnersOf, AtWork
  <2> QED  BY <2>3, <2>4 DEF DuesInOrder
<1>7. ASSUME NEW m \in Machines, WriteDue(m) PROVE DuesInOrder'
  <2>1. record = m /\ disp[m].entry = 0 /\ \A n \in Machines \ {m} : disp[n].due = "none"
    BY <1>7 DEF WriteDue, ClaimsInOrder, DuesInTime
  <2>2. /\ record' = record /\ disp'[m].entry = 0 /\ disp'[m].due = "none"
        /\ \A n \in Machines \ {m} : disp'[n] = disp[n]
    BY <1>7, <2>1 DEF WriteDue, DispState
  <2> QED  BY <2>1, <2>2 DEF DuesInOrder, EntryIsOfTheJob, DeadStayDead
<1>8. ASSUME NEW m \in Machines, Launch(m) PROVE DuesInOrder'
  <2>1. \A x \in runners' : AtWork(x) => x \in runners
    BY <1>8 DEF Launch, AtWork
  <2>2. TameStep
    BY <1>8, <2>1 DEF Launch, TameStep, Serving, DispState
  <2> QED  BY <2>2, TameStepInOrder
<1>9. ASSUME NEW x \in runners, Runner(x) PROVE DuesInOrder'
  <2>1. UNCHANGED <<record, disp>>
    BY <1>9 DEF Runner, RunnerLooks, RunnerClaims, RunnerStandsDown, RunnerIsEnding, RunnerEnds
  <2>2. /\ job'.attempt = job.attempt
        /\ job' = job \/ job'.status = "done" \/ job.status = "queued"
    BY <1>9 DEF Runner, RunnerLooks, RunnerClaims, RunnerStandsDown, RunnerIsEnding, RunnerEnds,
                JobState
  <2>3. \A z \in runners' : \/ ~AtWork(z)
                            \/ job.status = "queued"
                            \/ \E y \in runners : y.on = z.on /\ y.attempt = z.attempt /\ AtWork(y)
    BY <1>9 DEF Runner, RunnerLooks, RunnerClaims, RunnerStandsDown, RunnerIsEnding, RunnerEnds,
                Gone, Becomes, AtWork, RunnerState
  <2>4. TameStep
    BY <2>1, <2>2, <2>3 DEF TameStep, Serving
  <2> QED  BY <2>4, TameStepInOrder
<1>10. CASE Tick
  <2>1. \A n \in Machines : /\ disp'[n].pc = disp[n].pc /\ disp'[n].due = disp[n].due
                            /\ disp'[n].entry = disp[n].entry
    BY <1>10 DEF Tick, DispState
  <2>2. TameStep
    BY <1>10, <2>1 DEF Tick, TameStep, Serving
  <2> QED  BY <2>2, TameStepInOrder
<1>11. CASE UNCHANGED vars
  BY <1>11, TameStepInOrder DEF vars, TameStep, Serving
<1> QED  BY <1>1, <1>2, <1>3, <1>4, <1>5, <1>6, <1>7, <1>8, <1>9, <1>10, <1>11
         DEF Next, Claiming, Pass

LEMMA InitInOrder == Init => ClaimsInOrder /\ WorkInOrder /\ DuesInOrder
BY DEF Init, Off, ClaimsInOrder, OneWriter, FirstClaimFirst, WriterIsRight, DuesInTime, Serving,
       WorkInOrder, EndsInTime, NoneAhead, RunsWhereItSays, ReplacedWithItsMachine, DuesInOrder,
       EntryIsOfTheJob, DeadStayDead

\* A runner between its look and its last write has the machine that the record
\* names, so its attempt has not been replaced and the job names its machine.
LEMMA EndsTheRightOne ==
  ASSUME TypeOK, WorkInOrder
  PROVE  \A x \in runners : RunnerEnds(x) /\ job.status = "running" =>
                              job.by = x.on /\ job.attempt = x.attempt
<1> SUFFICES ASSUME NEW x \in runners, RunnerEnds(x), job.status = "running"
             PROVE  job.by = x.on /\ job.attempt = x.attempt
  OBVIOUS
<1>1. AtWork(x) /\ record = x.on
  BY DEF RunnerEnds, AtWork, WorkInOrder, EndsInTime
<1>2. x.attempt <= job.attempt /\ ~(x.attempt < job.attempt)
  BY <1>1 DEF WorkInOrder, NoneAhead, ReplacedWithItsMachine
<1>3. x.attempt \in Nat /\ job.attempt \in Nat
  BY OwnerAssumption DEF TypeOK, RunnerState, JobState, Attempts
<1>4. job.attempt = x.attempt
  BY <1>2, <1>3
<1> QED  BY <1>1, <1>4 DEF WorkInOrder, RunsWhereItSays

\* What a dispatcher is about to write of, no runner of the same machine works on:
\* the machine still has the queue, so what is queued again is another's, and what is
\* failed waits or is as dead as it was found.
LEMMA WritesOfTheDead ==
  ASSUME TypeOK, ClaimsInOrder, WorkInOrder, DuesInOrder,
         NEW m \in Machines, WriteDue(m), job' # job,
         NEW x \in RunnersOf(record), x.pc \in {"running", "ending"}
  PROVE  x.attempt # job.attempt
<1>1. record = m /\ x \in runners /\ x.on = m /\ AtWork(x)
  BY DEF WriteDue, ClaimsInOrder, DuesInTime, RunnersOf, AtWork
<1>2. CASE disp[m].due = "requeue"
  <2>1. job.status = "running" /\ job.by # m
    BY <1>2 DEF WriteDue
  <2> QED  BY <1>1, <2>1 DEF WorkInOrder, RunsWhereItSays
<1>3. CASE disp[m].due = "queued"
  <2>1. job.status = "queued"
    BY <1>3 DEF WriteDue
  <2>2. x.attempt < job.attempt /\ x.attempt \in Nat /\ job.attempt \in Nat
    BY <1>1, <2>1, OwnerAssumption
       DEF WorkInOrder, NoneAhead, TypeOK, RunnerState, JobState, Attempts
  <2> QED  BY <2>2
<1>4. CASE disp[m].due = "running"
  <2>1. job.status = "running"
    BY <1>4 DEF WriteDue
  <2> QED  BY <1>1, <1>4, <2>1 DEF DuesInOrder, DeadStayDead
<1> QED  BY <1>2, <1>3, <1>4 DEF WriteDue, TypeOK, DispState

\* The write that ends a job ends the attempt that its writer ran, and a dispatcher's
\* write spares what its machine works on, for any number of machines, of takeovers
\* and of restarts (JobRunner._end, jobs.finish, _mark_runner_died): when a
\* look and the write after it are close, and no machine gets the queue back while
\* a runner of its own from before is at work.
THEOREM RunnersEndTheirOwn ==
  ASSUME EndAssumption PROVE Spec => EndsItsOwn
<1>1. TypeOK /\ ClaimsInOrder /\ [Next]_vars => ClaimsInOrder'
  BY NextClaimsInOrder
<1>2. TypeOK /\ ClaimsInOrder /\ WorkInOrder /\ [Next]_vars => WorkInOrder'
  BY NextWorkInOrder
<1>3. TypeOK /\ ClaimsInOrder /\ DuesInOrder /\ [Next]_vars => DuesInOrder'
  BY NextDuesInOrder
<1>4. TypeOK /\ ClaimsInOrder /\ WorkInOrder /\ DuesInOrder /\ [Next]_vars =>
        [/\ \A x \in runners : RunnerEnds(x) /\ job.status = "running" =>
                               job.by = x.on /\ job.attempt = x.attempt
         /\ \A m \in Machines : WriteDue(m) /\ job' # job =>
              \A x \in RunnersOf(record) : x.pc \in {"running", "ending"} => x.attempt # job.attempt]_vars
  BY EndsTheRightOne, WritesOfTheDead
<1> QED  BY InitType, NextType, InitInOrder, <1>1, <1>2, <1>3, <1>4, PTL DEF Spec, EndsItsOwn
=============================================================================

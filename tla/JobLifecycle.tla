----------------------------- MODULE JobLifecycle -----------------------------
(***************************************************************************)
(* What a host promises whoever submitted a job, with no dispatcher, runner *)
(* or process in sight: the attempts of a job are numbered, begun one after *)
(* another and never twice; a job somebody is cancelling does not come      *)
(* back; a job that is over stays over.  HostQueue implements this.         *)
(***************************************************************************)
EXTENDS Integers

CONSTANTS Jobs

VARIABLES
  status,   \* "absent", "queued", "running" or "over"
  attempt,  \* the number of the attempt waiting, running, or last run
  doomed    \* has a cancel been asked of the running attempt

vars == <<status, attempt, doomed>>

TypeOK ==
  /\ status \in [Jobs -> {"absent", "queued", "running", "over"}]
  /\ attempt \in [Jobs -> Nat]
  /\ doomed \in [Jobs -> BOOLEAN]

Init ==
  /\ status = [j \in Jobs |-> "absent"]
  /\ attempt = [j \in Jobs |-> 0]
  /\ doomed = [j \in Jobs |-> FALSE]

Accept(j) ==
  /\ status[j] = "absent"
  /\ status' = [status EXCEPT ![j] = "queued"]
  /\ attempt' = [attempt EXCEPT ![j] = 1]
  /\ UNCHANGED doomed

Begin(j) ==
  /\ status[j] = "queued"
  /\ status' = [status EXCEPT ![j] = "running"]
  /\ UNCHANGED <<attempt, doomed>>

Doom(j) ==
  /\ status[j] = "running"
  /\ doomed' = [doomed EXCEPT ![j] = TRUE]
  /\ UNCHANGED <<status, attempt>>

\* Preempted, or its host restarted: the next attempt waits its turn.
Again(j) ==
  /\ status[j] = "running" /\ ~doomed[j]
  /\ status' = [status EXCEPT ![j] = "queued"]
  /\ attempt' = [attempt EXCEPT ![j] = @ + 1]
  /\ UNCHANGED doomed

Over(j) ==
  /\ status[j] \in {"queued", "running"}
  /\ status' = [status EXCEPT ![j] = "over"]
  /\ doomed' = [doomed EXCEPT ![j] = FALSE]
  /\ UNCHANGED attempt

Next == \E j \in Jobs : Accept(j) \/ Begin(j) \/ Doom(j) \/ Again(j) \/ Over(j)

Spec == Init /\ [][Next]_vars
=============================================================================

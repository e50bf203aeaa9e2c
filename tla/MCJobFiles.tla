----------------------------- MODULE MCJobFiles -----------------------------
(* JobFiles for TLC.                                                       *)
EXTENDS JobFiles

\* Every policy, each of scratch, mirror, kept outputs and a rental with and
\* without the others it interacts with.  A rental refuses a job that keeps outputs.
MCConfs ==
  {c \in Conf :
     \/ c.outputs /\ ~c.keeps /\ c.mirror /\ ~c.scratch /\ ~c.ephemeral
     \/ c.outputs /\ ~c.keeps /\ c.mirror /\ ~c.scratch /\ c.policy = "on_success"
     \/ c.outputs /\ ~c.keeps /\ ~c.mirror /\ ~c.ephemeral /\ ~c.scratch /\ c.policy = "on_success"
     \/ c.outputs /\ c.mirror /\ ~c.ephemeral /\ c.scratch /\ c.policy = "always"
     \/ ~c.outputs /\ c.keeps /\ c.mirror /\ ~c.ephemeral /\ ~c.scratch /\ c.policy = "always"}
=============================================================================

-------------------------- MODULE MCDaemonLifecycle --------------------------
(* Instances of DaemonLifecycle for TLC. *)
EXTENDS DaemonLifecycle

CONSTANTS r1, r2  \* reports of CLI hooks
=============================================================================

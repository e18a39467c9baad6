---------------------------- MODULE MCScheduler ----------------------------
(* Scheduler with two users, TASK_TTY, TASK_SYS and TASK_HD, for TLC. *)
EXTENDS Scheduler, TLC

MCpriority == (0 :> 2) @@ (1 :> 1) @@ (2 :> 3) @@ (3 :> 2) @@ (4 :> 2)
=============================================================================

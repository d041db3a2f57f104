---------------------------- MODULE MCScheduler ----------------------------
(* Four task addresses: idle, aegisbox-init and two that are created,       *)
(* destroyed and created again.                                             *)
EXTENDS Scheduler

CONSTANTS idle, init, a, b

MCTasks == {idle, init, a, b}
MCBoot == <<idle, init>>
MCPriority == [t \in MCTasks |-> IF t = init THEN 100 ELSE 0]
=============================================================================

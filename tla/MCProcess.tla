------------------------------ MODULE MCProcess ------------------------------
(***************************************************************************)
(* ProcessTable with idle, the console, PID 1's task and a few addresses   *)
(* that task_create() hands out in any order.                              *)
(***************************************************************************)
EXTENDS ProcessTable, TLC

CONSTANTS idle, console, init, none, t1, t2, initd, manager, aegisd, routerd

MCTasks == {idle, console, init, t1, t2}
FewTasks == {idle, console, init, t1}
MCResident == {idle, console}
ControlPlane == {initd, manager, aegisd}
MoreServices == {initd, manager, aegisd, routerd}
NoSignals == {}
KillOnly == {9}
AllSignals == {9, 18, 19}
OrderlyModes == {"POWEROFF"}
InvalidMode == {"INVALID"}
Addresses == Permutations({t1, t2})
=============================================================================

--------------------------------- MODULE Cpu ---------------------------------
(***************************************************************************)
(* What the rest of the kernel may assume of kernel/core/scheduler.c: who  *)
(* owns the CPU and which task memory is in use.  The order of the task    *)
(* list is not part of the promise: a yield hands the CPU to some READY    *)
(* task, and to idle only when no other task is READY.                     *)
(***************************************************************************)
EXTENDS Integers

CONSTANTS
    Tasks,      \* heap addresses a task_t can occupy
    Idle,       \* the task given to scheduler_set_idle_task()
    Resident,   \* tasks nobody destroys: idle and the kernel console
    NoTask      \* the NULL task pointer

VARIABLES
    task_state,     \* task_t.state; "FREE" is memory that holds no task
    current_task

cpuVars == <<task_state, current_task>>

TaskState == {"FREE", "READY", "RUNNING", "DEAD"}

(* The tasks a yield may hand the CPU to when the task states are st. *)
Candidates(st) ==
    LET ready == {t \in Tasks \ {current_task} : st[t] = "READY"}
    IN  IF ready \ {Idle} # {} THEN ready \ {Idle} ELSE ready

(* scheduler_yield() with the task states as they are in st *)
Switch(st) ==
    \/ /\ Candidates(st) = {}
       /\ task_state' = st
       /\ UNCHANGED current_task
    \/ \E next \in Candidates(st) :
        /\ task_state' = [st EXCEPT ![current_task] = IF @ = "RUNNING" THEN "READY" ELSE @,
                                    ![next] = "RUNNING"]
        /\ current_task' = next

(* scheduler_run() *)
Run ==
    /\ current_task = NoTask
    /\ \E t \in Tasks :
        /\ task_state[t] = "READY"
        /\ task_state' = [task_state EXCEPT ![t] = "RUNNING"]
        /\ current_task' = t

(* task_create() *)
Create(t) ==
    /\ current_task # NoTask
    /\ task_state[t] = "FREE"
    /\ task_state' = [task_state EXCEPT ![t] = "READY"]
    /\ UNCHANGED current_task

(* The task states after task_destroy(t): the caller is only marked, a task *)
(* that is not in the list is left alone, any other is freed.               *)
Destroyed(st, t) ==
    IF t = current_task THEN [st EXCEPT ![t] = "DEAD"]
    ELSE IF st[t] = "FREE" THEN st
    ELSE [st EXCEPT ![t] = "FREE"]

Destroy(t) ==
    /\ current_task # NoTask
    /\ t \notin Resident
    /\ task_state' = Destroyed(task_state, t)
    /\ UNCHANGED current_task

Yield ==
    /\ current_task # NoTask
    /\ Switch(task_state)

(* process_exit(), kthread_exit() *)
Exit ==
    /\ current_task \notin Resident \cup {NoTask}
    /\ Switch([task_state EXCEPT ![current_task] = "DEAD"])

CpuInit ==
    /\ task_state \in [Tasks -> {"FREE", "READY"}]
    /\ task_state[Idle] = "READY"
    /\ current_task = NoTask

CpuNext ==
    \/ Run
    \/ \E t \in Tasks : Create(t) \/ Destroy(t)
    \/ Yield
    \/ Exit

CpuSpec == CpuInit /\ [][CpuNext]_cpuVars
=============================================================================

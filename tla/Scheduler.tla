------------------------------ MODULE Scheduler ------------------------------
(***************************************************************************)
(* The cooperative round-robin scheduler of kernel/core/scheduler.c.       *)
(*                                                                         *)
(* A task is named by the heap address of its task_t, so an address that   *)
(* task_destroy() has freed may be handed out again by task_create().      *)
(* Syscalls run to completion with IRQs masked and the timer IRQ never     *)
(* switches tasks, so one action is one whole call made by current_task.   *)
(***************************************************************************)
EXTENDS Integers, Sequences

CONSTANTS
    Tasks,      \* heap addresses a task_t can occupy
    Idle,       \* the task given to scheduler_set_idle_task()
    Resident,   \* tasks nobody destroys: idle and the kernel console
    BootTasks,  \* the task list when kernel_main() calls scheduler_run()
    Priority,   \* priority of the boot tasks
    NoTask,     \* the NULL task pointer
    MaxCreate   \* bound on the number of task_create() calls after boot

ASSUME TasksAssumption ==
    /\ NoTask \notin Tasks
    /\ Idle \in Resident
    /\ Resident \subseteq Tasks
    /\ MaxCreate \in Nat

ASSUME BootAssumption ==
    /\ BootTasks \in Seq(Tasks)
    /\ \E i \in 1..Len(BootTasks) : BootTasks[i] = Idle
    /\ \A i, j \in 1..Len(BootTasks) : BootTasks[i] = BootTasks[j] => i = j
    /\ Priority \in [Tasks -> Nat]

VARIABLES
    task_list,      \* task_list_head and the next pointers, in list order
    task_state,     \* task_t.state; "FREE" is memory that holds no task
    current_task,
    panicked,       \* a PANIC() of the scheduler was reached
    created         \* next_tid: the number of tasks created since boot

schedVars == <<task_list, task_state, current_task, panicked, created>>

TaskState == {"FREE", "READY", "RUNNING", "DEAD"}

InList(t) == \E i \in 1..Len(task_list) : task_list[i] = t

Ready == {t \in Tasks : InList(t) /\ task_state[t] = "READY"}

-----------------------------------------------------------------------------
(* The search of scheduler_yield(): start behind prev, wrap at the tail.   *)

PositionOf(t) == CHOOSE i \in 1..Len(task_list) : task_list[i] = t

(* How many cursor advances it takes to get from prev to t. *)
Distance(prev, t) ==
    LET p == PositionOf(prev)
        q == PositionOf(t)
    IN  IF q > p THEN q - p ELSE q - p + Len(task_list)

(* Mutant: the search starts at the list head instead of behind prev. *)
Nearest_FromHead(prev, S) ==
    CHOOSE t \in S : \A u \in S : PositionOf(t) <= PositionOf(u)

Nearest(prev, S) ==
    CHOOSE t \in S : \A u \in S : Distance(prev, t) <= Distance(prev, u)

(* Mutant: idle competes like any other task. *)
Successor_IdleIsOrdinary(prev) ==
    LET ready == Ready \ {prev}
    IN  IF ready # {} THEN Nearest(prev, ready) ELSE NoTask

(* Mutant: idle is skipped but never kept as the fallback. *)
Successor_NoFallback(prev) ==
    LET ordinary == Ready \ {prev, Idle}
    IN  IF ordinary # {} THEN Nearest(prev, ordinary) ELSE NoTask

(* The task scheduler_yield() switches to; NoTask when it would return. *)
Successor(prev) ==
    LET ready == Ready \ {prev}
        ordinary == ready \ {Idle}
    IN  IF ordinary # {} THEN Nearest(prev, ordinary)
        ELSE IF Idle \in ready THEN Idle
        ELSE NoTask

(* Mutant: prev becomes READY whatever its state was. *)
SwitchFrom_PrevAlwaysReady(st) ==
    LET next == Successor(current_task)
    IN  /\ next # NoTask
        /\ task_state' = [st EXCEPT ![current_task] = "READY", ![next] = "RUNNING"]
        /\ current_task' = next
        /\ UNCHANGED panicked

(* scheduler_yield() with the task states as they are in st. *)
SwitchFrom(st) ==
    LET next == Successor(current_task)
    IN  IF next = NoTask
        THEN /\ panicked' = (panicked \/ st[current_task] = "DEAD")
             /\ task_state' = st
             /\ UNCHANGED current_task
        ELSE /\ task_state' = [st EXCEPT
                    ![current_task] = IF @ = "RUNNING" THEN "READY" ELSE @,
                    ![next] = "RUNNING"]
             /\ current_task' = next
             /\ UNCHANGED panicked

-----------------------------------------------------------------------------
Init ==
    /\ task_list = BootTasks
    /\ task_state = [t \in Tasks |->
            IF \E i \in 1..Len(BootTasks) : BootTasks[i] = t
            THEN "READY" ELSE "FREE"]
    /\ current_task = NoTask
    /\ panicked = FALSE
    /\ created = 0

(* scheduler_pick_first_ready() and the switch into the first task. *)
SchedulerRun ==
    /\ current_task = NoTask
    /\ \E t \in Ready :
        /\ \A u \in Ready : Priority[t] >= Priority[u]
        /\ \A u \in Ready : Priority[t] = Priority[u]
                                => PositionOf(t) <= PositionOf(u)
        /\ current_task' = t
        /\ task_state' = [task_state EXCEPT ![t] = "RUNNING"]
    /\ UNCHANGED <<task_list, panicked, created>>

(* task_create(): kmalloc() returns any address that holds no task. *)
TaskCreate(t) ==
    /\ current_task # NoTask
    /\ created < MaxCreate
    /\ task_state[t] = "FREE"
    /\ task_state' = [task_state EXCEPT ![t] = "READY"]
    /\ task_list' = Append(task_list, t)
    /\ created' = created + 1
    /\ UNCHANGED <<current_task, panicked>>

(* task_destroy() of a task other than the caller: unlink it and free it. *)
Unlinked(t) ==
    LET p == PositionOf(t)
    IN  [i \in 1..(Len(task_list) - 1) |->
            IF i < p THEN task_list[i] ELSE task_list[i + 1]]

(* Mutant: a task that is not running is only marked, like the running one. *)
TaskDestroyOther_OnlyMarks(t) ==
    /\ current_task # NoTask
    /\ t \notin Resident \cup {current_task}
    /\ InList(t)
    /\ task_state' = [task_state EXCEPT ![t] = "DEAD"]
    /\ UNCHANGED <<task_list, current_task, panicked, created>>

TaskDestroyOther(t) ==
    /\ current_task # NoTask
    /\ t # current_task
    /\ t \notin Resident
    /\ InList(t)
    /\ task_list' = Unlinked(t)
    /\ task_state' = [task_state EXCEPT ![t] = "FREE"]
    /\ UNCHANGED <<current_task, panicked, created>>

(* Mutant: task_destroy() frees the running task and its kernel stack. *)
TaskDestroySelf_Frees ==
    /\ current_task \notin Resident \cup {NoTask}
    /\ task_list' = Unlinked(current_task)
    /\ task_state' = [task_state EXCEPT ![current_task] = "FREE"]
    /\ UNCHANGED <<current_task, panicked, created>>

(* task_destroy() of the caller only marks it; it runs on until it yields. *)
TaskDestroySelf ==
    /\ current_task \notin Resident \cup {NoTask}
    /\ task_state[current_task] = "RUNNING"
    /\ task_state' = [task_state EXCEPT ![current_task] = "DEAD"]
    /\ UNCHANGED <<task_list, current_task, panicked, created>>

SchedulerYield ==
    /\ current_task # NoTask
    /\ SwitchFrom(task_state)
    /\ UNCHANGED <<task_list, created>>

(* process_exit(), kthread_exit(): task_destroy(current), scheduler_yield(). *)
ExitCurrent ==
    /\ current_task \notin Resident \cup {NoTask}
    /\ SwitchFrom([task_state EXCEPT ![current_task] = "DEAD"])
    /\ UNCHANGED <<task_list, created>>

Next ==
    /\ ~panicked
    /\ \/ SchedulerRun
       \/ \E t \in Tasks : TaskCreate(t) \/ TaskDestroyOther(t)
       \/ TaskDestroySelf
       \/ SchedulerYield
       \/ ExitCurrent

Spec == Init /\ [][Next]_schedVars

(* Every native program and the console sit in a loop that ends in a yield, *)
(* and aegisbox-init starts the scheduler: neither stops on its own.        *)
FairSpec == Spec /\ WF_schedVars(SchedulerRun) /\ WF_schedVars(SchedulerYield)

-----------------------------------------------------------------------------
(* The variables have the types scheduler.c gives them. *)
TypeOK ==
    /\ task_list \in Seq(Tasks)
    /\ task_state \in [Tasks -> TaskState]
    /\ current_task \in Tasks \cup {NoTask}
    /\ panicked \in BOOLEAN
    /\ created \in 0..MaxCreate

(* task_list holds no pointer twice and holds exactly the tasks whose       *)
(* memory is allocated, so no walk of the list in scheduler_yield() touches *)
(* memory that task_destroy() freed.                                        *)
ListMatchesMemory ==
    /\ \A i, j \in 1..Len(task_list) : task_list[i] = task_list[j] => i = j
    /\ \A t \in Tasks : InList(t) <=> task_state[t] # "FREE"

(* The CPU has one owner: after scheduler_run() current_task is allocated,  *)
(* is RUNNING (or DEAD, between task_destroy(current) and its last yield),  *)
(* and no other task is marked RUNNING.                                     *)
OneRunningTask ==
    /\ current_task # NoTask => task_state[current_task] \in {"RUNNING", "DEAD"}
    /\ \A t \in Tasks : task_state[t] = "RUNNING" => t = current_task

(* PANIC("dead task yielded with no ready successor") is unreachable: the   *)
(* idle task is always READY when something else gives up the CPU.          *)
NoDeadEndYield == ~panicked

(* kernel_idle_task relies on it: the scheduler does not hand the CPU to    *)
(* idle while another task is READY (scheduler_yield()'s idle_fallback).    *)
IdleIsLastResort ==
    [][(current_task \notin {Idle, NoTask} /\ current_task' = Idle)
            => Ready \subseteq {Idle}]_schedVars

(* A task that was marked DEAD never runs again; its memory can only be     *)
(* freed.  process_exit() panics if a dead process is resumed.              *)
DeadStaysDead ==
    [][\A t \in Tasks : task_state[t] = "DEAD"
            => task_state'[t] \in {"DEAD", "FREE"}]_schedVars

(* Round robin starves nobody: with finitely many task_create() calls, a    *)
(* READY ordinary task gets the CPU or is destroyed.                        *)
NoStarvation ==
    \A t \in Tasks \ {Idle} : (task_state[t] = "READY") ~> (task_state[t] # "READY")

(* The list, the tids and the panic flag hidden, scheduler.c implements the *)
(* CPU that the process layer is written against: every step hands the CPU  *)
(* to a READY task, creates or destroys one task, or leaves it all alone.   *)
CPU == INSTANCE Cpu
ImplementsCpu == CPU!CpuSpec
=============================================================================

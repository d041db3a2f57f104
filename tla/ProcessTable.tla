---------------------------- MODULE ProcessTable ----------------------------
(***************************************************************************)
(* The life of a native process, across the parts of the kernel that keep  *)
(* a record of it: proc_table (process.c), the task (scheduler.c, as the   *)
(* abstract Cpu), the ELF runtime slot (elf_loader.c), the feature's       *)
(* live_pid and descriptor (userland.c) and the supervisor's entry.        *)
(*                                                                         *)
(* A syscall runs to completion with IRQs masked, so every action is one   *)
(* whole syscall of the process that owns the CPU; other processes run     *)
(* only after it yields or exits.  Programs are arbitrary: any process may *)
(* make any call the kernel permits, in any order.                         *)
(***************************************************************************)
EXTENDS Cpu, SupervisorTable

CONSTANTS
    InitName,       \* the feature bound to PID 1
    Manager,        \* "service-manager"
    Daemon,         \* "aegisd"
    InitTask,       \* the task aegisbox-init runs in, later PID 1's
    Console,        \* the resident aegis-console task
    ProcMax,        \* MAX_PROCESSES
    RuntimeMax,     \* AEGIS_ELF_RUNTIME_MAX
    DescriptorMax,  \* AEGIS_USERLAND_PROCESS_MAX
    Signals,        \* the signals programs send with SYS_KILL
    Modes,          \* the modes programs pass to SYS_SHUTDOWN
    MaxPid,         \* bound on the number of process_initialise_record() calls
    MaxTick         \* bound on the clock

ASSUME ProcessAssumption ==
    /\ {InitName, Manager, Daemon} \subseteq Services
    /\ {Idle, Console} \subseteq Resident
    /\ Resident \subseteq Tasks
    /\ InitTask \in Tasks \ Resident
    /\ NoTask \notin Tasks
    /\ {ProcMax, RuntimeMax, DescriptorMax, MaxPid, MaxTick} \subseteq Nat \ {0}
    /\ Signals \subseteq {9, 15, 18, 19}
    /\ Modes \subseteq {"POWEROFF", "REBOOT", "INVALID"}

VARIABLES
    proc,           \* proc_table
    next_pid,
    live_pid,       \* aegis_userland_feature_t.live_pid; 0 is none
    descriptors,    \* features that have an entry in user_processes
    runtime_used,   \* ids of the runtime_slots in use
    sup,            \* the supervisor's table
    clock,          \* service_supervisor_clock_ticks()
    released,       \* interactive_console_is_released()
    requested,      \* g_requested of power.c
    halted          \* PSCI SYSTEM_OFF or SYSTEM_RESET was called

procVars == <<proc, next_pid, live_pid, descriptors, runtime_used>>
powerVars == <<released, requested, halted>>
vars == <<cpuVars, procVars, sup, clock, powerVars>>

Slots == 1..ProcMax
Runtimes == 1..RuntimeMax

EmptyProc == [state |-> "EMPTY", pid |-> 0, ppid |-> 0, name |-> InitName,
              task |-> NoTask, slot |-> 0]

Used == {i \in Slots : proc[i].state # "EMPTY"}

First(S) == CHOOSE x \in S : \A y \in S : x <= y

(* process_current(): the first entry in use that points to current_task *)
Caller(i) ==
    LET mine == {j \in Used : proc[j].task = current_task}
    IN  ~halted /\ mine # {} /\ i = First(mine)

-----------------------------------------------------------------------------
(* launch_native_pid1(): aegisbox-init's own task becomes PID 1; the        *)
(* console task has been created.                                           *)
Init ==
    /\ task_state = [t \in Tasks |-> IF t = InitTask THEN "RUNNING"
                                     ELSE IF t \in Resident THEN "READY" ELSE "FREE"]
    /\ current_task = InitTask
    /\ proc = [i \in Slots |->
                IF i = 1 THEN [state |-> "RUNNING", pid |-> 1, ppid |-> 0,
                               name |-> InitName, task |-> InitTask, slot |-> 1]
                ELSE EmptyProc]
    /\ next_pid = 2
    /\ live_pid = [f \in Services |-> IF f = InitName THEN 1 ELSE 0]
    /\ descriptors = {InitName}
    /\ runtime_used = {1}
    /\ sup = EmptyTable
    /\ clock = 1
    /\ released = FALSE
    /\ requested = FALSE
    /\ halted = FALSE

(* Mutant: sys_spawn() does not refuse a feature that has a live process. *)
SpawnGuard_IgnoresLivePid(i, f) ==
    /\ Caller(i)
    /\ Known(sup, f) => RestartAllowed(sup, f, clock)
    /\ Runtimes \ runtime_used # {}
    /\ Used # Slots
    /\ next_pid <= MaxPid

(* sys_spawn() up to the point where it has an image and a table entry *)
SpawnGuard(i, f) ==
    /\ Caller(i)
    /\ live_pid[f] = 0
    /\ Known(sup, f) => RestartAllowed(sup, f, clock)
    /\ Runtimes \ runtime_used # {}
    /\ Used # Slots
    /\ next_pid <= MaxPid

(* task_create() finds no memory: the entry and the slot are given back,    *)
(* the pid is not.                                                          *)
SpawnNoTask(i, f) ==
    /\ SpawnGuard(i, f)
    /\ \A t \in Tasks : task_state[t] # "FREE"
    /\ next_pid' = next_pid + 1
    /\ UNCHANGED <<cpuVars, proc, live_pid, descriptors, runtime_used, sup, clock, powerVars>>

Child(i, f, t) == [state |-> "RUNNING", pid |-> next_pid, ppid |-> proc[i].pid,
                   name |-> f, task |-> t, slot |-> First(Runtimes \ runtime_used)]

SpawnTables(child, st) ==
    /\ proc' = [proc EXCEPT ![First(Slots \ Used)] = [child EXCEPT !.state = st]]
    /\ next_pid' = next_pid + 1
    /\ live_pid' = [live_pid EXCEPT ![child.name] = child.pid]
    /\ runtime_used' = runtime_used \cup {child.slot}

HasDescriptor(f) == f \in descriptors \/ Cardinality(descriptors) < DescriptorMax

SpawnOk(i, f, t) ==
    /\ SpawnGuard(i, f)
    /\ task_state[t] = "FREE"
    /\ HasDescriptor(f) /\ HasRoom(sup, f)
    /\ SpawnTables(Child(i, f, t), "RUNNING")
    /\ task_state' = [task_state EXCEPT ![t] = "READY"]
    /\ descriptors' = descriptors \cup {f}
    /\ sup' = LET registered == RegisterStarting(sup, f, next_pid)
              IN  IF Known(sup, f) THEN NoteRestart(registered, f, next_pid, clock)
                  ELSE registered
    /\ UNCHANGED <<current_task, clock, powerVars>>

(* No descriptor or no supervisor entry is left: the child is killed before *)
(* it ran.  It stays a zombie that holds the feature's live_pid.            *)
SpawnKilled(i, f, t) ==
    /\ SpawnGuard(i, f)
    /\ task_state[t] = "FREE"
    /\ ~(HasDescriptor(f) /\ HasRoom(sup, f))
    /\ SpawnTables(Child(i, f, t), "ZOMBIE")
    /\ descriptors' = IF HasDescriptor(f) THEN descriptors \cup {f} ELSE descriptors
    /\ UNCHANGED <<cpuVars, sup, clock, powerVars>>

(* sys_service_ready() with the caller's own name *)
ServiceReady(i) ==
    /\ Caller(i)
    /\ live_pid' = [live_pid EXCEPT ![proc[i].name] = proc[i].pid]
    /\ sup' = IF proc[i].pid # 1 THEN MarkRunning(sup, proc[i].name, proc[i].pid) ELSE sup
    /\ UNCHANGED <<cpuVars, proc, next_pid, descriptors, runtime_used, clock, powerVars>>

(* Mutants of process_exit(): the children keep their dead parent; the exit *)
(* is not published; the entry is not marked.                               *)
ProcessExit_LeavesOrphans(i) ==
    /\ Caller(i)
    /\ proc' = [proc EXCEPT ![i].state = "ZOMBIE"]
    /\ sup' = MarkExit(sup, proc[i].name, proc[i].pid, clock)
    /\ Exit
    /\ UNCHANGED <<next_pid, live_pid, descriptors, runtime_used, clock, powerVars>>

ProcessExit_Unpublished(i) ==
    /\ Caller(i)
    /\ proc' = [j \in Slots |->
                [proc[j] EXCEPT
                    !.state = IF j = i THEN "ZOMBIE" ELSE @,
                    !.ppid = IF j \in Used /\ @ = proc[i].pid THEN 1 ELSE @]]
    /\ Exit
    /\ UNCHANGED <<next_pid, live_pid, descriptors, runtime_used, sup, clock, powerVars>>

(* process_exit(): children go to PID 1, the exit is published to the       *)
(* supervisor, and the CPU is given up for good.                            *)
ProcessExit(i) ==
    /\ Caller(i)
    /\ proc' = [j \in Slots |->
                [proc[j] EXCEPT
                    !.state = IF j = i THEN "ZOMBIE" ELSE @,
                    !.ppid = IF j \in Used /\ @ = proc[i].pid THEN 1 ELSE @]]
    /\ sup' = MarkExit(sup, proc[i].name, proc[i].pid, clock)
    /\ Exit
    /\ UNCHANGED <<next_pid, live_pid, descriptors, runtime_used, clock, powerVars>>

MayKill(i, j) ==
    \/ proc[i].pid = 1
    \/ i = j
    \/ proc[j].ppid = proc[i].pid
    \/ proc[i].name = Manager

(* sys_kill() *)
Kill(i, j, signal) ==
    /\ Caller(i)
    /\ j \in Used
    /\ MayKill(i, j)
    /\ proc' = [proc EXCEPT ![j].state =
                    IF signal \in {9, 15} THEN "ZOMBIE"
                    ELSE IF signal = 19 THEN "STOPPED"
                    ELSE IF @ = "STOPPED" THEN "RUNNING" ELSE @]
    /\ task_state' = IF signal \in {9, 15} THEN Destroyed(task_state, proc[j].task)
                     ELSE task_state
    /\ UNCHANGED <<current_task, next_pid, live_pid, descriptors, runtime_used,
                   sup, clock, powerVars>>

(* Mutants of process_wait(): the task, or the runtime slot, is never freed. *)
Wait_LeaksTask(i, j) ==
    /\ Caller(i) /\ j \in Used /\ proc[j].ppid = proc[i].pid /\ proc[j].state = "ZOMBIE"
    /\ runtime_used' = runtime_used \ {proc[j].slot}
    /\ live_pid' = [live_pid EXCEPT ![proc[j].name] = 0]
    /\ proc' = [proc EXCEPT ![j] = EmptyProc]
    /\ UNCHANGED <<cpuVars, next_pid, descriptors, sup, clock, powerVars>>

Wait_LeaksSlot(i, j) ==
    /\ Caller(i) /\ j \in Used /\ proc[j].ppid = proc[i].pid /\ proc[j].state = "ZOMBIE"
    /\ task_state' = Destroyed(task_state, proc[j].task)
    /\ live_pid' = [live_pid EXCEPT ![proc[j].name] = 0]
    /\ proc' = [proc EXCEPT ![j] = EmptyProc]
    /\ UNCHANGED <<current_task, next_pid, descriptors, runtime_used, sup, clock, powerVars>>

(* process_wait() for entry j, also through process_wait_any().  Each early *)
(* return leaves what was already done.                                     *)
Wait(i, j) ==
    /\ Caller(i)
    /\ j \in Used
    /\ proc[j].ppid = proc[i].pid
    /\ proc[j].state = "ZOMBIE"
    /\ LET slotFreed == proc[j].slot \in runtime_used \ {1}
           noted == slotFreed /\ live_pid[proc[j].name] = proc[j].pid
       IN  /\ task_state' = Destroyed(task_state, proc[j].task)
           /\ runtime_used' = IF slotFreed THEN runtime_used \ {proc[j].slot} ELSE runtime_used
           /\ live_pid' = IF noted THEN [live_pid EXCEPT ![proc[j].name] = 0] ELSE live_pid
           /\ proc' = IF noted THEN [proc EXCEPT ![j] = EmptyProc] ELSE proc
    /\ UNCHANGED <<current_task, next_pid, descriptors, sup, clock, powerVars>>

(* sys_yield(), each round of sys_sleep(), and the loops of idle and the    *)
(* console                                                                  *)
GiveUpCpu ==
    /\ ~halted
    /\ Yield
    /\ UNCHANGED <<procVars, sup, clock, powerVars>>

(* Mutant: sys_console_ready() does not ask for aegisd. *)
ConsoleReady_ManagerOnly(i) ==
    /\ Caller(i)
    /\ proc[i].name = Manager
    /\ sup.svc[Manager].state = "RUNNING"
    /\ released' = TRUE
    /\ UNCHANGED <<cpuVars, procVars, sup, clock, requested, halted>>

(* sys_console_ready() *)
ConsoleReady(i) ==
    /\ Caller(i)
    /\ proc[i].name = Manager
    /\ sup.svc[Manager].state = "RUNNING"
    /\ sup.svc[Daemon].state = "RUNNING"
    /\ released' = TRUE
    /\ UNCHANGED <<cpuVars, procVars, sup, clock, requested, halted>>

(* service_supervisor_begin_shutdown() and system_shutdown_request(): only  *)
(* the first request sends signal 15 to everyone but the requester.         *)
ShutdownRequest(pid) ==
    LET doomed == {j \in Used : proc[j].pid # pid}
    IN  /\ sup' = BeginShutdown(sup)
        /\ requested' = TRUE
        /\ proc' = IF requested THEN proc
                   ELSE [j \in Slots |-> IF j \in doomed
                                         THEN [proc[j] EXCEPT !.state = "ZOMBIE"] ELSE proc[j]]
        /\ task_state' = IF requested THEN task_state
                         ELSE [t \in Tasks |->
                                IF \E j \in doomed : proc[j].task = t
                                THEN Destroyed(task_state, t)[t] ELSE task_state[t]]

(* sys_shutdown(): an unknown mode returns EINVAL after all of that. *)
Shutdown(i, mode) ==
    /\ Caller(i)
    /\ proc[i].pid = 1 \/ proc[i].name = Manager
    /\ ShutdownRequest(proc[i].pid)
    /\ halted' = (mode \in {"POWEROFF", "REBOOT"})
    /\ UNCHANGED <<current_task, next_pid, live_pid, descriptors, runtime_used,
                   clock, released>>

(* poweroff and reboot typed at the released console *)
ConsoleShutdown ==
    /\ ~halted
    /\ current_task = Console
    /\ released
    /\ ShutdownRequest(0)
    /\ halted' = TRUE
    /\ UNCHANGED <<current_task, next_pid, live_pid, descriptors, runtime_used,
                   clock, released>>

Tick ==
    /\ ~halted
    /\ clock < MaxTick
    /\ clock' = clock + 1
    /\ UNCHANGED <<cpuVars, procVars, sup, powerVars>>

Halted == halted /\ UNCHANGED vars

Next ==
    \/ \E i \in Slots :
        \/ \E f \in Services :
            \/ SpawnNoTask(i, f)
            \/ \E t \in Tasks : SpawnOk(i, f, t) \/ SpawnKilled(i, f, t)
        \/ ServiceReady(i)
        \/ ProcessExit(i)
        \/ \E j \in Slots : Wait(i, j) \/ \E signal \in Signals : Kill(i, j, signal)
        \/ ConsoleReady(i)
        \/ \E mode \in Modes : Shutdown(i, mode)
    \/ GiveUpCpu
    \/ ConsoleShutdown
    \/ Tick
    \/ Halted

Spec == Init /\ [][Next]_vars

-----------------------------------------------------------------------------
ProcState == {"EMPTY", "RUNNING", "STOPPED", "ZOMBIE"}

(* Whatever spawns, kills and waits do and wherever they return early, the  *)
(* runtime slots in use are exactly those of the processes in the table,    *)
(* and no two processes share the memory of one.                            *)
SlotsHaveOneOwner ==
    /\ runtime_used = {proc[i].slot : i \in Used}
    /\ \A i, j \in Used : proc[i].slot = proc[j].slot => i = j

(* live_pid, which sys_spawn() trusts to refuse a second instance, is the   *)
(* pid of the one process of that feature still in the table, zombie or     *)
(* not: process_wait() therefore never stops halfway with EPERM.            *)
LivePidNamesTheProcess ==
    \A f \in Services :
        {proc[i].pid : i \in {j \in Used : proc[j].name = f}}
            = (IF live_pid[f] = 0 THEN {} ELSE {live_pid[f]})

(* Without kills: until shutdown each task belongs to one process, lives as *)
(* long as that process runs, is dead while it is a zombie and is freed     *)
(* with it: process_current() is never ambiguous and no stack leaks.        *)
TaskLivesWithItsProcess ==
    requested \/
    /\ {t \in Tasks : task_state[t] # "FREE"} = Resident \cup {proc[i].task : i \in Used}
    /\ \A i, j \in Used : proc[i].task = proc[j].task => i = j
    /\ \A i \in Used : proc[i].state = "ZOMBIE" <=> task_state[proc[i].task] = "DEAD"

(* Without kills: every process but PID 1 has a parent in the table, one    *)
(* that can still wait for it unless PID 1 itself has exited.               *)
EveryChildHasAParent ==
    \A i \in Used : proc[i].pid # 1 =>
        \E j \in Used :
            /\ proc[j].pid = proc[i].ppid
            /\ ~requested => proc[j].pid = 1 \/ proc[j].state = "RUNNING"

(* Without kills: until shutdown, the supervisor believes a service is up   *)
(* or coming up exactly when the process it recorded is running.            *)
SupervisorTracksProcesses ==
    requested \/
    \A f \in Services \ {InitName} :
        sup.svc[f].state \in {"STARTING", "RESTARTING", "RUNNING"}
            <=> \E i \in Used : /\ proc[i].name = f
                               /\ proc[i].pid = sup.svc[f].pid
                               /\ proc[i].state = "RUNNING"

(* "only after both control-plane processes are genuinely running": the     *)
(* console is released only when service-manager and aegisd are in the      *)
(* table, running.                                                          *)
ConsoleWaitsForControlPlane ==
    [][~released /\ released' =>
        \A f \in {Manager, Daemon} :
            \E i \in Used : proc[i].name = f /\ proc[i].state = "RUNNING"]_vars

(* "it is safe to unlink and release the kernel task stack": a wait does    *)
(* not touch the task of another process that is running.                   *)
WaitReleasesOnlyTheDead ==
    [][\A i, j \in Slots : Wait(i, j) =>
        \A k \in Used \ {j} : proc[k].state = "RUNNING" =>
            task_state'[proc[k].task] = task_state[proc[k].task]]_vars
=============================================================================

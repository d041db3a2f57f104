----------------------------- MODULE Supervisor -----------------------------
(***************************************************************************)
(* The restart policy of the native service supervisor over time: which    *)
(* services sys_spawn() lets run again, and when.                          *)
(*                                                                         *)
(* A service has at most one process (sys_spawn() refuses a feature whose  *)
(* live_pid is set).  The process is "none", "alive", or "zombie" until    *)
(* its parent has waited for it.                                           *)
(***************************************************************************)
EXTENDS SupervisorTable, Sequences

CONSTANTS
    MaxPid,     \* bound on the number of processes ever spawned
    MaxTick     \* bound on the clock

ASSUME BoundsAssumption == MaxPid \in Nat /\ MaxTick \in Nat

VARIABLES
    sup,        \* supervised[] and supervisor_state
    process,    \* the process of each service
    next_pid,
    clock,      \* service_supervisor_clock_ticks()
    exits       \* history: the ticks at which each service's process exited

vars == <<sup, process, next_pid, clock, exits>>

(* The architectural counter has been running since power-on: it is not 0  *)
(* when the first service starts.                                          *)
Init ==
    /\ sup = EmptyTable
    /\ process = [n \in Services |-> "none"]
    /\ next_pid = 2
    /\ clock = 1
    /\ exits = [n \in Services |-> <<>>]

(* sys_spawn(): a name the supervisor knows must be allowed to restart. *)
Spawn(n) ==
    LET registered == RegisterStarting(sup, n, next_pid)
    IN  /\ process[n] = "none"
        /\ next_pid <= MaxPid
        /\ Known(sup, n) => RestartAllowed(sup, n, clock)
        /\ HasRoom(sup, n)
        /\ sup' = IF Known(sup, n) THEN NoteRestart(registered, n, next_pid, clock)
                  ELSE registered
        /\ process' = [process EXCEPT ![n] = "alive"]
        /\ next_pid' = next_pid + 1
        /\ UNCHANGED <<clock, exits>>

(* sys_service_ready() called by the service's process *)
ServiceReady(n) ==
    /\ process[n] = "alive"
    /\ sup' = MarkRunning(sup, n, sup.svc[n].pid)
    /\ UNCHANGED <<process, next_pid, clock, exits>>

(* process_exit() of the service's process *)
ProcessExit(n) ==
    /\ process[n] = "alive"
    /\ sup' = MarkExit(sup, n, sup.svc[n].pid, clock)
    /\ process' = [process EXCEPT ![n] = "zombie"]
    /\ exits' = [exits EXCEPT ![n] = Append(@, clock)]
    /\ UNCHANGED <<next_pid, clock>>

(* process_kill() with signal 9 or 15 does not tell the supervisor. *)
ProcessKill(n) ==
    /\ process[n] = "alive"
    /\ process' = [process EXCEPT ![n] = "zombie"]
    /\ UNCHANGED <<sup, next_pid, clock, exits>>

(* process_wait() by the parent clears the feature's live_pid. *)
ProcessWait(n) ==
    /\ process[n] = "zombie"
    /\ process' = [process EXCEPT ![n] = "none"]
    /\ UNCHANGED <<sup, next_pid, clock, exits>>

(* sys_shutdown() and the console's poweroff and reboot *)
Shutdown ==
    /\ sup' = BeginShutdown(sup)
    /\ UNCHANGED <<process, next_pid, clock, exits>>

Tick ==
    /\ clock < MaxTick
    /\ clock' = clock + 1
    /\ UNCHANGED <<sup, process, next_pid, exits>>

Next ==
    \/ \E n \in Services :
        \/ Spawn(n) \/ ServiceReady(n)
        \/ ProcessExit(n) \/ ProcessKill(n) \/ ProcessWait(n)
    \/ Shutdown
    \/ Tick

Spec == Init /\ [][Next]_vars

-----------------------------------------------------------------------------
(* The variables have the types of service_supervisor.h. *)
TypeOK ==
    /\ sup.svc \in [Services -> [state : ServiceState, pid : Nat, failures : Nat,
                                 first : Nat, next : Nat, stopping : BOOLEAN]]
    /\ sup = TableOf(sup.svc, sup.running, sup.faulted, sup.permanent, sup.shutdown)
    /\ sup.running \in Nat
    /\ sup.faulted \in Nat
    /\ sup.permanent \in Nat
    /\ sup.shutdown \in BOOLEAN
    /\ process \in [Services -> {"none", "alive", "zombie"}]
    /\ next_pid \in Nat
    /\ clock \in Nat \ {0}
    /\ exits \in [Services -> Seq(Nat \ {0})]

(* running_count, faulted_count and permanently_faulted_count, which every  *)
(* entry point adjusts by one and floors at zero, always equal the number   *)
(* of services in those states: faulted_count includes the STOPPED ones.    *)
CountersMatchStates ==
    /\ sup.running = Cardinality(InState(sup, "RUNNING"))
    /\ sup.faulted = Cardinality(InState(sup, "FAULTED") \cup InState(sup, "STOPPED"))
    /\ sup.permanent = Cardinality(InState(sup, "STOPPED"))

(* The exits of n that the current failure streak consists of. *)
Streak(n) == {k \in DOMAIN exits[n] : exits[n][k] >= sup.svc[n].first}

LastExit(n) == exits[n][Len(exits[n])]

(* consecutive_failures is the number of real exits since                   *)
(* first_failure_tick, which is itself the tick of an exit and no more than *)
(* restart_window_ticks before the last one.  Kills and restarts in between *)
(* neither add to the streak nor forget it.                                 *)
FailuresAreRecentExits ==
    \A n \in Services : exits[n] # <<>> =>
        /\ \E k \in DOMAIN exits[n] : exits[n][k] = sup.svc[n].first
        /\ sup.svc[n].failures = Cardinality(Streak(n))
        /\ LastExit(n) - sup.svc[n].first <= RestartWindow

(* A service that failed more than max_restarts times within one window has *)
(* no live process, then or ever after (restart_allowed() returns EPERM).   *)
OverBudgetStaysDown ==
    \A n \in Services :
        (MaxRestarts # 0 /\ Cardinality(Streak(n)) > MaxRestarts) => process[n] # "alive"

(* No process of a service starts before base_backoff << (failures - 1)     *)
(* ticks (at most << 6) have passed since the service's last exit, whatever *)
(* was spawned and killed in between.                                       *)
BackoffRespected ==
    [][\A n \in Services :
            (exits[n] # <<>> /\ process[n] # "alive" /\ process'[n] = "alive")
                => clock >= LastExit(n) + Backoff(Cardinality(Streak(n)))]_vars

(* Once shutdown has begun no service that was supervised by then gets a    *)
(* new process (restart_allowed() returns ESHUTDOWN).                       *)
ShutdownStopsRestarts ==
    [][\A n \in Services : (sup.shutdown /\ Known(sup, n))
            => sup'.svc[n].pid = sup.svc[n].pid]_vars
=============================================================================

--------------------------- MODULE SupervisorTable ---------------------------
(***************************************************************************)
(* The supervised[] table and the counters of kernel/core/                 *)
(* service_supervisor.c as a value, and its entry points as operators on   *)
(* that value: sys_spawn() chains three of them in one step.               *)
(*                                                                         *)
(* Left out: fault records and statistics (fault_count, restart_count,     *)
(* total_*, restart_throttled_count), which no branch of the native path   *)
(* reads, and services_running, which is running_count # 0.                *)
(***************************************************************************)
EXTENDS Integers, FiniteSets

CONSTANTS
    Services,       \* names a feature can be supervised under
    ServiceMax,     \* AEGIS_SUPERVISOR_SERVICE_MAX
    MaxRestarts,    \* max_restarts of a new entry
    RestartWindow,  \* restart_window_ticks of a new entry
    BaseBackoff     \* base_backoff_ticks of a new entry

ASSUME SupervisorAssumption ==
    /\ IsFiniteSet(Services)
    /\ ServiceMax \in Nat
    /\ MaxRestarts \in Nat
    /\ RestartWindow \in Nat
    /\ BaseBackoff \in Nat \ {0}

ServiceState == {"EMPTY", "STARTING", "RUNNING", "FAULTED", "RESTARTING", "STOPPED"}

EntryOf(state, pid, failures, first, next, stopping) ==
    [state |-> state, pid |-> pid, failures |-> failures,
     first |-> first, next |-> next, stopping |-> stopping]

NoService == EntryOf("EMPTY", 0, 0, 0, 0, FALSE)

TableOf(svc, running, faulted, permanent, shutdown) ==
    [svc |-> svc, running |-> running, faulted |-> faulted,
     permanent |-> permanent, shutdown |-> shutdown]

(* service_supervisor_init() *)
EmptyTable == TableOf([n \in Services |-> NoService], 0, 0, 0, FALSE)

InState(s, st) == {n \in Services : s.svc[n].state = st}

Known(s, n) == s.svc[n].state # "EMPTY"

(* supervised[] has room for n: it is in the table or the table has a slot. *)
HasRoom(s, n) == Known(s, n) \/ Cardinality({k \in Services : Known(s, k)}) < ServiceMax

(* Every decrement in the code is guarded by the counter being non-zero. *)
LessIf(condition, count) == IF condition /\ count > 0 THEN count - 1 ELSE count

Restarted(state) == IF state \in {"FAULTED", "STOPPED"} THEN "RESTARTING" ELSE "STARTING"

(* Mutant: the counter is not corrected when a service that was killed,     *)
(* and so is still RUNNING in the table, is spawned again.                  *)
RegisterStarting_KeepsCount(s, n, p) ==
    LET e == s.svc[n]
    IN  TableOf([s.svc EXCEPT ![n] =
                    EntryOf(Restarted(e.state), p, e.failures, e.first, e.next, e.stopping)],
                s.running, LessIf(e.state = "FAULTED", s.faulted), s.permanent, s.shutdown)

(* service_supervisor_native_register_starting(), AEGIS_OK *)
RegisterStarting(s, n, p) ==
    LET e == s.svc[n]
    IN  TableOf([s.svc EXCEPT ![n] =
                    IF e.state = "EMPTY" THEN EntryOf("STARTING", p, 0, 0, 0, FALSE)
                    ELSE EntryOf(Restarted(e.state), p, e.failures, e.first, e.next, e.stopping)],
                LessIf(e.state = "RUNNING", s.running),
                LessIf(e.state = "FAULTED", s.faulted),
                s.permanent, s.shutdown)

(* service_supervisor_native_mark_running(); s unchanged on ENOENT *)
MarkRunning(s, n, p) ==
    LET e == s.svc[n]
    IN  IF e.state = "EMPTY" \/ e.pid # p THEN s
        ELSE TableOf([s.svc EXCEPT ![n] =
                        EntryOf("RUNNING", p, e.failures, e.first, e.next, e.stopping)],
                     IF e.state # "RUNNING" THEN s.running + 1 ELSE s.running,
                     LessIf(e.state = "FAULTED", s.faulted),
                     s.permanent, s.shutdown)

Backoff(failures) == BaseBackoff * 2^(IF failures > 6 THEN 6 ELSE failures - 1)

(* Mutant: the failure streak is not restarted when the window has passed. *)
MarkExit_NoWindowReset(s, n, p, now) ==
    LET e == s.svc[n]
        failures == e.failures + 1
        over == MaxRestarts # 0 /\ failures > MaxRestarts
    IN  IF e.state = "EMPTY" \/ e.pid # p THEN s
        ELSE TableOf([s.svc EXCEPT ![n] =
                        EntryOf(IF over THEN "STOPPED" ELSE "FAULTED", p, failures,
                                IF e.first = 0 THEN now ELSE e.first,
                                now + Backoff(failures), e.stopping)],
                     LessIf(e.state = "RUNNING", s.running),
                     s.faulted + 1,
                     IF over THEN s.permanent + 1 ELSE s.permanent, s.shutdown)

(* service_supervisor_native_mark_exit() at tick now; s unchanged on ENOENT *)
MarkExit(s, n, p, now) ==
    LET e == s.svc[n]
        reset == e.first = 0 \/ now - e.first > RestartWindow
        failures == IF reset THEN 1 ELSE e.failures + 1
        over == MaxRestarts # 0 /\ failures > MaxRestarts
    IN  IF e.state = "EMPTY" \/ e.pid # p THEN s
        ELSE TableOf([s.svc EXCEPT ![n] =
                        EntryOf(IF over THEN "STOPPED" ELSE "FAULTED", p, failures,
                                IF reset THEN now ELSE e.first,
                                now + Backoff(failures), e.stopping)],
                     LessIf(e.state = "RUNNING", s.running),
                     s.faulted + 1,
                     IF over THEN s.permanent + 1 ELSE s.permanent, s.shutdown)

(* Mutants: one refusal of service_supervisor_restart_allowed() is missing. *)
RestartAllowed_NoBackoff(s, n, now) ==
    /\ Known(s, n) /\ ~s.shutdown /\ ~s.svc[n].stopping
    /\ s.svc[n].state # "STOPPED"

RestartAllowed_NoBudget(s, n, now) ==
    /\ Known(s, n) /\ ~s.shutdown /\ ~s.svc[n].stopping
    /\ now >= s.svc[n].next

RestartAllowed_IgnoresShutdown(s, n, now) ==
    /\ Known(s, n)
    /\ s.svc[n].state # "STOPPED"
    /\ now >= s.svc[n].next

(* service_supervisor_restart_allowed() returns AEGIS_OK.  Every caller     *)
(* registers with POLICY_RESTART_ON_FAULT, so that test always succeeds.    *)
RestartAllowed(s, n, now) ==
    /\ Known(s, n)
    /\ ~s.shutdown
    /\ ~s.svc[n].stopping
    /\ s.svc[n].state # "STOPPED"
    /\ MaxRestarts # 0 => s.svc[n].failures <= MaxRestarts
    /\ now >= s.svc[n].next

(* service_supervisor_note_restart(); s unchanged on ESHUTDOWN *)
NoteRestart(s, n, p, now) ==
    LET e == s.svc[n]
    IN  IF ~Known(s, n) \/ s.shutdown \/ e.stopping THEN s
        ELSE TableOf([s.svc EXCEPT ![n] =
                        EntryOf("RESTARTING", p, e.failures, e.first, now, e.stopping)],
                     s.running, LessIf(e.state = "FAULTED", s.faulted),
                     s.permanent, s.shutdown)

(* service_supervisor_begin_shutdown() *)
BeginShutdown(s) ==
    TableOf([n \in Services |->
                LET e == s.svc[n]
                IN  EntryOf(e.state, e.pid, e.failures, e.first, e.next,
                            e.stopping \/ Known(s, n))],
            s.running, s.faulted, s.permanent, TRUE)
=============================================================================

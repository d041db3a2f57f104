----------------------------- MODULE KernelCore -----------------------------
(***************************************************************************)
(* The part of kernel_main that runs before there are tasks: interrupts    *)
(* are off and every subsystem is initialised in a fixed order.  Memory is *)
(* seen as the ranges the page allocator must never hand out.              *)
(***************************************************************************)
EXTENDS Integers, Sequences, FiniteSets

CONSTANTS
    RamBase, RamPages,     \* the RAM the board reports
    KernelImage,           \* [base, size] of the linked image, stack included
    DtbPages               \* pages a device tree may take, when there is one

VARIABLES
    online,                \* the subsystems whose init function has returned
    dtb,                   \* where the firmware left a device tree; 0: none
    reserved               \* the ranges [first, end) withheld from allocation

coreVars == <<online, dtb, reserved>>

(* The ranges of kernel_main.c, in pages.                                  *)
StubWindow == [base |-> 262144, size |-> 256]
KernelHeap == [base |-> 270464, size |-> 16384]

Brought(subsystems) == online' = online \union subsystems

(* phys_reserve_range: a range is refused when it is empty of RAM pages,   *)
(* and clipped to the RAM otherwise.                                       *)
ReserveOk(r) ==
    /\ r.base + r.size > RamBase
    /\ r.base < RamBase + RamPages

Clipped(r) ==
    [first |-> IF r.base < RamBase THEN RamBase ELSE r.base,
     end |-> IF r.base + r.size < RamBase + RamPages THEN r.base + r.size ELSE RamBase + RamPages]

Withheld(page) == \E r \in reserved' : r.first <= page /\ page < r.end

(* The lowest page the allocator may hand out starts right after a         *)
(* reserved range, or is the first page of RAM.                            *)
FirstFree ==
    CHOOSE p \in {RamBase} \union {r.end : r \in reserved'} :
        /\ ~Withheld(p)
        /\ \A q \in {RamBase} \union {r.end : r \in reserved'} : Withheld(q) \/ p <= q

platform_init ==
    /\ Brought({"hal", "board", "gic", "physical_memory", "page_tables"})
    /\ UNCHANGED <<dtb, reserved>>

(* memory_bringup_selftest: the device tree is reserved only when there is *)
(* one; then two page allocations, two heap allocations and a mapping are  *)
(* tried and undone.                                                       *)
memory_bringup ==
    /\ "physical_memory" \in online
    /\ LET ranges == {StubWindow, KernelImage, KernelHeap}
                     \union (IF dtb = 0 THEN {} ELSE {[base |-> dtb, size |-> DtbPages]})
       IN  /\ \A r \in ranges : ReserveOk(r)
           /\ reserved' = {Clipped(r) : r \in ranges}
    /\ FirstFree + 1 < RamBase + RamPages
    /\ ~Withheld(FirstFree)
    /\ Brought({"memory", "heap"})
    /\ UNCHANGED dtb

core_init ==
    /\ "memory" \in online
    /\ Brought({"vectors", "timer", "scheduler"})
    /\ UNCHANGED <<dtb, reserved>>

process_and_syscall_init ==
    /\ "scheduler" \in online
    /\ Brought({"process", "syscalls", "rtc"})
    /\ UNCHANGED <<dtb, reserved>>

(* The idle task and the init task; from here on the boot runs in a task.  *)
tasks_start ==
    /\ {"scheduler", "process", "timer"} \subseteq online
    /\ Brought({"idle_task", "init_task"})
    /\ UNCHANGED <<dtb, reserved>>

(* process_table_cleanup_prepare and its self-test: there is no process    *)
(* yet, so the table is clean.                                             *)
process_table_cleanup ==
    /\ "process" \in online
    /\ Brought({"process_table_cleanup"})
    /\ UNCHANGED <<dtb, reserved>>

(* A system call dispatched by the kernel itself reaches the table, and    *)
(* getpid the process table.                                               *)
SyscallSurface == {"process", "syscalls"} \subseteq online
=============================================================================

--------------------------- MODULE PageIsolation ----------------------------
(***************************************************************************)
(* The address spaces of kernel/memory/page_isolation.c: one translation   *)
(* table per process descriptor, in which a few pages of each region are   *)
(* mapped and then read back.  A table is a function from mapped pages to  *)
(* permissions; every entry made here is a user entry.  RAM is ample at    *)
(* boot, so the pages behind tables and mappings are always found.         *)
(***************************************************************************)
EXTENDS ElfLoader

CONSTANTS SpaceMax       \* AEGIS_PAGE_ISOLATION_PROCESS_MAX

VARIABLES
    spaces,              \* one table per descriptor, in order
    isolation            \* the flags of isolation_state that are set

isoVars == <<spaces, isolation>>

IsolationBoot == spaces = <<>> /\ isolation = {}

TextPages(p) == p.text.base .. p.text.base + 1
HeapPages(p) == p.heap.base .. p.heap.base + 1
IpcPages(p) == {p.ipc.base}
StackPages(p) == {p.stack.base + p.stack.size - 1}

(* page_table_map of the regions, in the order of the code: a later        *)
(* mapping of a page replaces an earlier one.                              *)
SpaceOf(p) ==
    [g \in HeapPages(p) \union IpcPages(p) \union StackPages(p) |-> {"user", "write"}]
    @@ [g \in TextPages(p) |-> {"user", "exec"}]

EntryPage(p) == p.entry \div PageUnits
StackPointerPage(p) == p.stack.base + p.stack.size - 1 - (p.sp - 1) \div PageBytes

(* The kernel addresses probed: the image's ends and its stack, and one    *)
(* whose table indices no user mapping shares.                             *)
KernelProbes == KernelImage.base .. KernelImage.base + KernelImage.size

(* iso_prepare_process_space succeeds for a descriptor.                    *)
prepare_process_space(p, t) ==
    /\ p.id # 0
    /\ \A g \in TextPages(p) : t[g] = {"user", "exec"}
    /\ \A g \in HeapPages(p) \union IpcPages(p) \union StackPages(p) : t[g] = {"user", "write"}
    /\ p.guard.base \notin DOMAIN t
    /\ KernelProbes \intersect DOMAIN t = {}
    /\ EntryPage(p) \in DOMAIN t /\ "exec" \in t[EntryPage(p)]
    /\ StackPointerPage(p) \in DOMAIN t /\ "write" \in t[StackPointerPage(p)]

page_isolation_init == spaces' = <<>> /\ isolation' = {"initialised"}

prepare_user_kernel_tables(handoff_preserved) ==
    /\ "initialised" \in isolation
    /\ {"real_multiprocess_launch_ready", "user_kernel_page_permissions_ready"} \subseteq handoff
    /\ handoff_preserved
    /\ Len(descriptors) >= 4
    /\ spaces' = [i \in 1 .. Min({Len(descriptors), SpaceMax}) |-> SpaceOf(descriptors[i])]
    /\ \A i \in DOMAIN spaces' : prepare_process_space(descriptors[i], spaces'[i])
    /\ isolation' = isolation \union {"isolation_ready"}

(* Everything else it asks for was counted while the tables were built.    *)
page_isolation_selftest ==
    /\ "isolation_ready" \in isolation
    /\ Len(spaces) >= 4
    /\ \A t \in ToSet(spaces) :
           /\ Cardinality({g \in DOMAIN t : "exec" \in t[g]}) >= 2
           /\ Cardinality({g \in DOMAIN t : "write" \in t[g]}) >= 4
=============================================================================

-------------------------------- MODULE Files --------------------------------
(***************************************************************************)
(* File descriptors (kernel/core/fd_table.c) over the vnodes of Vfs, as    *)
(* the system calls of several processes use them.  A process number is    *)
(* never used again; one beyond FD_PROCESS_SLOTS has no descriptors.       *)
(***************************************************************************)
EXTENDS Vfs

CONSTANTS
    FdPids,              \* process numbers
    FdSlots,             \* FD_PROCESS_SLOTS: only numbers below it have a row
    FdMax,               \* AEGIS_FD_MAX_PER_PROCESS
    Paths                \* what programs open

ASSUME FilesAssumption == FdMax \in Nat /\ OpenMax \in Nat

VARIABLES
    g_fd,                \* pid -> descriptor index -> vnode slot
    running,             \* the processes that can still make system calls
    suicides             \* the processes that sent themselves a fatal signal

fileVars == <<vfsVars, g_fd, running, suicides>>

HasRow(pid) == pid # 0 /\ pid < FdSlots

NoEntries == <<>>
Without(row, i) == [k \in DOMAIN row \ {i} |-> row[k]]

(* fd_install: the first free index of the row.                            *)
CanInstall(pid) == HasRow(pid) /\ FreeSlots(g_fd[pid], FdMax) # {}

(* Mutant: a vnode that gets no descriptor is not closed.                  *)
sys_open_Leaks(pid, path) ==
    /\ pid \in running /\ CanOpen(path)
    /\ open_vnodes' = VnodeOpened(path)
    /\ g_fd' = IF CanInstall(pid)
               THEN [g_fd EXCEPT ![pid] = Filled(@, Min(FreeSlots(@, FdMax)), OpenSlot)]
               ELSE g_fd
    /\ UNCHANGED <<mounts, files, root_mounted, running, suicides>>

sys_open(pid, path) ==
    /\ pid \in running /\ CanOpen(path)
    /\ IF CanInstall(pid)
       THEN /\ open_vnodes' = VnodeOpened(path)
            /\ g_fd' = [g_fd EXCEPT ![pid] = Filled(@, Min(FreeSlots(@, FdMax)), OpenSlot)]
       ELSE UNCHANGED <<open_vnodes, g_fd>>
    /\ UNCHANGED <<mounts, files, root_mounted, running, suicides>>

(* fd_close; the index may be any number the program passes.               *)
sys_close(pid, i) ==
    /\ pid \in running /\ HasRow(pid) /\ i \in DOMAIN g_fd[pid]
    /\ open_vnodes' = VnodesClosed({g_fd[pid][i]})
    /\ g_fd' = [g_fd EXCEPT ![pid] = Without(@, i)]
    /\ UNCHANGED <<mounts, files, root_mounted, running, suicides>>

fd_close_all(pid) ==
    IF HasRow(pid)
    THEN /\ open_vnodes' = VnodesClosed({g_fd[pid][i] : i \in DOMAIN g_fd[pid]})
         /\ g_fd' = [g_fd EXCEPT ![pid] = NoEntries]
    ELSE UNCHANGED <<open_vnodes, g_fd>>

(* process_exit, or process_kill by another process: the target makes no   *)
(* system call any more.                                                   *)
process_exit(pid) ==
    /\ pid \in running
    /\ fd_close_all(pid)
    /\ running' = running \ {pid}
    /\ UNCHANGED <<mounts, files, root_mounted, suicides>>

(* A process may send the signal to itself: its files are closed, its task *)
(* is marked dead, and it runs on until it gives up the processor.         *)
process_kill(pid) ==
    /\ pid \in running
    /\ fd_close_all(pid)
    /\ suicides' = suicides \union {pid}
    /\ UNCHANGED <<mounts, files, root_mounted, running>>

scheduler_yield(pid) ==
    /\ pid \in running \intersect suicides
    /\ running' = running \ {pid}
    /\ UNCHANGED <<vfsVars, g_fd, suicides>>

(* process_init has zeroed the table; the root is mounted.                 *)
FilesBoot ==
    /\ mounts = << [path |-> <<>>, fs |-> "initramfs"] >>
    /\ open_vnodes = <<>> /\ files = <<>> /\ root_mounted = TRUE
    /\ g_fd = [pid \in FdPids |-> NoEntries]
    /\ running = FdPids /\ suicides = {}

FilesNext ==
    \E pid \in FdPids :
        \/ \E path \in Paths : sys_open(pid, path)
        \/ \E i \in 1 .. FdMax : sys_close(pid, i)
        \/ process_exit(pid) \/ process_kill(pid) \/ scheduler_yield(pid)

FilesSpec == FilesBoot /\ [][FilesNext]_fileVars

-----------------------------------------------------------------------------
Entries == {e \in FdPids \X (1 .. FdMax) : e[2] \in DOMAIN g_fd[e[1]]}
VnodeOf(e) == g_fd[e[1]][e[2]]

(* An open vnode has one descriptor, a descriptor has an open vnode, and a *)
(* process that has ended has none, unless it killed itself and went on    *)
(* opening files: neither a refused fd_install, nor fd_close_all, nor the  *)
(* reuse of vnode slots leaves one behind or shares it.                    *)
VnodesHaveOneOwner ==
    /\ {VnodeOf(e) : e \in Entries} = DOMAIN open_vnodes
    /\ \A d, e \in Entries : VnodeOf(d) = VnodeOf(e) => d = e
    /\ \A e \in Entries : e[1] \in running \union suicides
=============================================================================

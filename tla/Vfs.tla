-------------------------------- MODULE Vfs ---------------------------------
(***************************************************************************)
(* The virtual file system (fs/vfs.c) and the initramfs that is its root   *)
(* (fs/initramfs.c).  A path is the tuple of its components, "/" is <<>>.  *)
(* A table with slots is a function whose domain is the slots in use.      *)
(***************************************************************************)
EXTENDS Integers, Sequences, FiniteSets, SequencesExt, FiniteSetsExt, TLC

CONSTANTS
    MountMax,         \* VFS_MAX_MOUNTS
    OpenMax,          \* VFS_MAX_OPEN
    NativeRustFull    \* the build option AEGISOS_NATIVE_RUST_FULL

VARIABLES
    mounts,           \* mount slot -> [path, fs]
    open_vnodes,      \* vnode slot -> [fs, path], the path below the mount
    files,            \* initramfs: name -> "dir" or "file"
    root_mounted      \* initramfs: mounted

vfsVars == <<mounts, open_vnodes, files, root_mounted>>

InitramfsMax == 256

FreeSlots(table, max) == 1 .. max \ DOMAIN table

Filled(table, slot, value) ==
    [k \in DOMAIN table \union {slot} |-> IF k = slot THEN value ELSE table[k]]

MountPaths == {mounts[i].path : i \in DOMAIN mounts}

VfsBoot ==
    /\ mounts = <<>> /\ open_vnodes = <<>> /\ files = <<>>
    /\ root_mounted = FALSE

vfs_init ==
    /\ mounts' = <<>> /\ open_vnodes' = <<>>
    /\ UNCHANGED <<files, root_mounted>>

(* The mount a path belongs to is the longest one it lies below.           *)
Covering(path) == {i \in DOMAIN mounts : IsPrefix(mounts[i].path, path)}

resolve_mount(path) ==
    CHOOSE i \in Covering(path) :
        \A j \in Covering(path) : Len(mounts[j].path) <= Len(mounts[i].path)

Resolved(path) ==
    LET mp == mounts[resolve_mount(path)]
    IN  [fs |-> mp.fs, path |-> SubSeq(path, Len(mp.path) + 1, Len(path))]

MountedAt(path, fs) ==
    /\ path \notin MountPaths
    /\ FreeSlots(mounts, MountMax) # {}
    /\ mounts' = Filled(mounts, Min(FreeSlots(mounts, MountMax)), [path |-> path, fs |-> fs])

vfs_mount(path, fs) ==
    /\ MountedAt(path, fs)
    /\ UNCHANGED <<open_vnodes, files, root_mounted>>

(* What vfs_open needs; whether the file exists is not asked.              *)
CanOpen(path) == Covering(path) # {} /\ FreeSlots(open_vnodes, OpenMax) # {}

OpenSlot == Min(FreeSlots(open_vnodes, OpenMax))

VnodeOpened(path) == Filled(open_vnodes, OpenSlot, Resolved(path))

VnodesClosed(slots) == Restrict(open_vnodes, DOMAIN open_vnodes \ slots)

(* initramfs_lookup_internal, and initramfs_read of a vnode: a name the    *)
(* archive lacks is an error, a directory reads as empty.                  *)
HasFile(path) == path \in DOMAIN files /\ files[path] = "file"

Readable(vn) == vn.fs = "initramfs" /\ HasFile(vn.path)

mount_empty_root ==
    /\ ~root_mounted
    /\ MountedAt(<<>>, "initramfs")
    /\ files' = <<>> /\ root_mounted' = TRUE
    /\ UNCHANGED open_vnodes

AsDirs(names) == [n \in names |-> "dir"]
AsFiles(names) == [n \in names |-> "file"]

BuiltinUserland ==
    AsDirs({<<"sbin">>})
    @@ AsFiles({<<"sbin", "aegis-init">>, <<"sbin", "service-manager">>, <<"sbin", "aegisd">>})
    @@ IF NativeRustFull
       THEN AsDirs({<<"opt">>, <<"opt", "aegisos">>})
            @@ AsFiles({<<"sbin", "dashboard">>, <<"opt", "aegisos", "rustmyadmin">>})
       ELSE <<>>

ReleaseRootfs ==
    AsDirs({<<"bin">>, <<"sbin">>, <<"etc">>, <<"etc", "aegisos">>, <<"opt">>,
            <<"opt", "rustmyadmin">>, <<"services">>, <<"userland">>, <<"security">>,
            <<"var">>, <<"var", "log">>, <<"var", "lib">>, <<"var", "backups">>})
    @@ AsFiles({<<"bin", "aegis-shell">>, <<"bin", "aegisctl">>, <<"bin", "netctl">>,
                <<"etc", "aegisos.toml">>, <<"etc", "services.toml">>,
                <<"etc", "network.toml">>, <<"etc", "firewall.toml">>,
                <<"etc", "hardening.toml">>, <<"etc", "aegisos", "rust-bridge.manifest">>,
                <<"opt", "rustmyadmin", "INTEGRATION.txt">>})

install_builtin_userland ==
    /\ root_mounted
    /\ <<"sbin", "aegis-init">> \notin DOMAIN files
    /\ files' = files @@ BuiltinUserland
    /\ Cardinality(DOMAIN files') <= InitramfsMax
    /\ UNCHANGED <<mounts, open_vnodes, root_mounted>>

(* A name the archive has already is left as it is.                        *)
install_release_rootfs ==
    /\ root_mounted
    /\ files' = files @@ ReleaseRootfs
    /\ Cardinality(DOMAIN files') <= InitramfsMax
    /\ UNCHANGED <<mounts, open_vnodes, root_mounted>>

(* It opens the three mounts together and closes them again: three vnodes  *)
(* must be free, and none is kept.                                         *)
vfs_bootstrap_selftest ==
    /\ {<<>>, <<"dev">>, <<"proc">>} \subseteq MountPaths
    /\ Cardinality(FreeSlots(open_vnodes, OpenMax)) >= 3
=============================================================================

--------------------------- MODULE BlockRegistry ----------------------------
(***************************************************************************)
(* The block devices and partitions the kernel knows of                    *)
(* (kernel/core/block_storage.c), and what mounting AegisFS on the         *)
(* configuration partition asks of them.  Sizes are in blocks of 512       *)
(* bytes.                                                                  *)
(***************************************************************************)
EXTENDS Integers, Sequences, FiniteSets, SequencesExt

VARIABLES
    devices,             \* [blocks, io]: io when the driver gave operations
    partitions,          \* [name, dev, start, blocks]
    block_flags          \* the registry's flags that are set

blockVars == <<devices, partitions, block_flags>>

DeviceMax == 8
PartitionMax == 16
FlashBlocks == 524288
LayoutBlocks == 460800

FlashLayout ==
    << [name |-> "AEGIS_BOOT", start |-> 2048, blocks |-> 32768],
       [name |-> "AEGIS_ROOT", start |-> 67584, blocks |-> 327680],
       [name |-> "AEGIS_CONFIG", start |-> 395264, blocks |-> 65536] >>

BlockBoot == devices = <<>> /\ partitions = <<>> /\ block_flags = {}

block_storage_init ==
    /\ devices' = <<>> /\ partitions' = <<>> /\ block_flags' = {"initialised"}

(* A driver that finds its disk registers it.                              *)
register_device(blocks) ==
    /\ "initialised" \in block_flags
    /\ blocks > 0 /\ Len(devices) < DeviceMax
    /\ devices' = Append(devices, [blocks |-> blocks, io |-> TRUE])
    /\ block_flags' = block_flags \union {"io_backend_ready"}
    /\ UNCHANGED partitions

(* Device 1 holds the layout; when there is none, one without operations   *)
(* is made up.                                                             *)
LayoutDevices == IF devices = <<>> THEN <<[blocks |-> FlashBlocks, io |-> FALSE]>> ELSE devices

LayoutFits ==
    /\ LayoutDevices[1].blocks >= LayoutBlocks
    /\ Len(partitions) + Len(FlashLayout) <= PartitionMax
    /\ \A p \in ToSet(FlashLayout) : p.start + p.blocks <= LayoutDevices[1].blocks

register_v40_flash_layout ==
    /\ "initialised" \in block_flags
    /\ IF "layout_ready" \in block_flags THEN UNCHANGED blockVars
       ELSE /\ LayoutFits
            /\ devices' = LayoutDevices
            /\ partitions' = partitions \o [i \in DOMAIN FlashLayout |-> FlashLayout[i] @@ [dev |-> 1]]
            /\ block_flags' = block_flags \union {"layout_ready", "persistent_config_ready"}

(* The disk is too small: nothing is registered, and the caller only warns. *)
flash_layout_refused ==
    /\ "initialised" \in block_flags /\ "layout_ready" \notin block_flags
    /\ ~LayoutFits
    /\ UNCHANGED blockVars

block_storage_selftest ==
    /\ {"layout_ready", "persistent_config_ready"} \subseteq block_flags
    /\ {"AEGIS_BOOT", "AEGIS_ROOT", "AEGIS_CONFIG"} \subseteq {p.name : p \in ToSet(partitions)}
    /\ \A i, j \in DOMAIN partitions : i # j =>
           \/ partitions[i].start + partitions[i].blocks <= partitions[j].start
           \/ partitions[j].start + partitions[j].blocks <= partitions[i].start

(* block_storage_read and _write of a partition reach a driver.            *)
PartitionHasIo(name) ==
    \E p \in ToSet(partitions) : p.name = name /\ p.dev \in DOMAIN devices /\ devices[p.dev].io
=============================================================================

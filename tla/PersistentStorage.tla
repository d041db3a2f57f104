-------------------------- MODULE PersistentStorage --------------------------
(***************************************************************************)
(* AEGIS_CONFIG has two users: AegisFS, which appends data towards the end *)
(* of the partition, and the update metadata at a fixed sector.  A boot    *)
(* mounts and tests the filesystem and then calls update_init()            *)
(* (kernel_main.c).                                                        *)
(***************************************************************************)
EXTENDS AegisFs, Update

CONSTANT LbaBound   \* bound: file data that fits on the partition stays below this sector,
                    \* for a device with (TRUE) and without a write cache

ASSUME StorageAssumption == LbaBound \in [BOOLEAN -> Nat]

vars == <<blockVars, fsVars, updateVars>>

Below(f, o, v) == NoRoom(f, o, v) \/ sb.next_free_lba + Len(Image(f, o, v)) <= LbaBound[write_back]

Init == FsInit /\ UpdateInit

(* aegisbox_init_mount_vfs_or_panic() *)
BootFs ==
    /\ Mount \/ MountReadError \/ (\E k \in Steps : Format(k))
          \/ (SelfTest /\ Below(SelfTestFile, 1, SelfTestData))
    /\ UNCHANGED updateVars

(* aegisbox_init_task() goes on *)
BootUpdate ==
    /\ phase = "up"
    /\ UpdateStart
    /\ UNCHANGED fsVars

FileWrite ==
    /\ initialised
    /\ \E f \in Files, o \in 1..MaxSectors, v \in Values : Below(f, o, v) /\ UserWrite(f, o, v)
    /\ UNCHANGED updateVars

UpdateOperation ==
    /\ UpdateCall
    /\ UNCHANGED fsVars

Background ==
    /\ \E l \in Lbas : Destage(l)
    /\ UNCHANGED <<fsVars, updateVars>>

Reboot == PowerLoss /\ UpdateOff

Next == BootFs \/ BootUpdate \/ FileWrite \/ UpdateOperation \/ Background \/ Reboot

Spec == Init /\ [][Next]_vars
=============================================================================

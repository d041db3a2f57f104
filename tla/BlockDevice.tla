----------------------------- MODULE BlockDevice -----------------------------
(***************************************************************************)
(* The AEGIS_CONFIG partition as kernel/core/block_storage.c offers it.    *)
(* cache is what a read returns, disk what survives a loss of power.       *)
(* virtio_blk.c negotiates VIRTIO_BLK_F_FLUSH: the device may then keep    *)
(* completed writes in a cache and store them in any order until a flush   *)
(* completes (write_back).  A write of several sectors that fails, or that *)
(* power cuts short, has written a prefix; one sector is atomic.           *)
(***************************************************************************)
EXTENDS Integers, Sequences

CONSTANTS
    Blocks,         \* the partition's block_count
    CacheModes,     \* whether the device has a volatile write cache: the modes considered
    Faults,         \* requests may fail
    Junk            \* what an unused sector holds

ASSUME BlockAssumption ==
    Blocks \in Nat \ {0} /\ CacheModes \subseteq BOOLEAN /\ Faults \in BOOLEAN

VARIABLES disk, cache, write_back
blockVars == <<disk, cache, write_back>>

Lbas == 0..(Blocks - 1)

(* A sequence of sector writes, no sector twice, applied to contents c *)
To(lba, x) == [lba |-> lba, x |-> x]
Written(c, ws) ==
    [l \in Lbas |-> IF \E j \in DOMAIN ws : ws[j].lba = l
                    THEN ws[CHOOSE j \in DOMAIN ws : ws[j].lba = l].x
                    ELSE c[l]]

(* An operation writes ws and then flushes; it fails after k sectors, or    *)
(* at the flush when k = Len(ws), or not at all when k = Len(ws) + 1.       *)
Outcomes(ws) == IF Faults THEN 0..(Len(ws) + 1) ELSE {Len(ws) + 1}
Succeeds(ws, k) == k = Len(ws) + 1

WriteAndFlush(ws, k) ==
    /\ cache' = Written(cache, SubSeq(ws, 1, IF k < Len(ws) THEN k ELSE Len(ws)))
    /\ disk' = IF Succeeds(ws, k) \/ ~write_back THEN cache' ELSE disk
    /\ UNCHANGED write_back

(* The device stores a cached sector when it likes. *)
Destage(l) ==
    /\ disk[l] # cache[l]
    /\ disk' = [disk EXCEPT ![l] = cache[l]]
    /\ UNCHANGED <<cache, write_back>>

LoseCache ==
    /\ cache' = disk
    /\ UNCHANGED <<disk, write_back>>

BlockInit ==
    /\ disk = [l \in Lbas |-> Junk]
    /\ cache = disk
    /\ write_back \in CacheModes
=============================================================================

------------------------------- MODULE Update --------------------------------
(***************************************************************************)
(* kernel/core/update.c: the A/B update metadata, one sector of            *)
(* AEGIS_CONFIG.  Every operation changes g and then stores it; a store    *)
(* that fails leaves g ahead of the disk until the next one.  A version    *)
(* stands for the version string and the hash that goes with it.           *)
(*                                                                         *)
(* update_init() is called at every boot.  The other operations are the    *)
(* interface of update.h, called in any order.                             *)
(***************************************************************************)
EXTENDS BlockDevice

CONSTANTS
    UpdateLba,      \* UPDATE_METADATA_LBA
    Versions,       \* versions that are staged
    Default,        \* "2.0.0-development"
    NoVersion,      \* the empty string
    MaxAttempts,    \* max_boot_attempts, which no operation changes
    MaxGeneration   \* bound: operations while the generation is below it

ASSUME UpdateAssumption ==
    /\ UpdateLba \in Lbas
    /\ Default \notin Versions /\ NoVersion \notin Versions \cup {Default}
    /\ MaxAttempts \in Nat \ {0} /\ MaxGeneration \in Nat

VARIABLES
    initialised,    \* g.initialised
    g,              \* the other fields of g
    confirmed,      \* the <<slot, version>> pairs whose boot succeeded
    reset           \* update_init() has replaced metadata it could not read

updateVars == <<initialised, g, confirmed, reset>>

A == "A"
B == "B"
NoSlot == "none"

State(generation, active, version, pending, slot, next, rollback, attempts) ==
    [generation |-> generation, active_slot |-> active, active_version |-> version,
     pending |-> pending, pending_slot |-> slot, pending_version |-> next,
     rollback_required |-> rollback, boot_attempts |-> attempts]

Defaults(generation) == State(generation, A, Default, FALSE, NoSlot, NoVersion, FALSE, 0)

(* A sector with the magic, the format and the CRC of update metadata *)
Metadata ==
    [generation : Nat, active_slot : {A, B, NoSlot}, active_version : Versions \cup {Default, NoVersion},
     pending : BOOLEAN, pending_slot : {A, B, NoSlot}, pending_version : Versions \cup {NoVersion},
     rollback_required : BOOLEAN, boot_attempts : Nat]

ASSUME JunkAssumption == Junk \notin Metadata

UpdateInit ==
    /\ initialised = FALSE
    /\ g = Defaults(0)
    /\ confirmed = {<<A, Default>>}
    /\ reset = FALSE

-----------------------------------------------------------------------------
(* store(); Outcomes are 0 and 1, which fail, and 2 *)
Store(x, k) ==
    LET ws == <<To(UpdateLba, x)>>
    IN  /\ k \in Outcomes(ws)
        /\ WriteAndFlush(ws, k)
        /\ g' = x

(* Out of attempts: the pending update is given up. *)
GiveUp(x) ==
    State(x.generation + 1, x.active_slot, x.active_version, FALSE, NoSlot,
          x.pending_version, TRUE, x.boot_attempts)

(* Mutant: the generation on disk is not taken over. *)
Loaded_OldGeneration(x) == [x EXCEPT !.generation = 1]

(* What update_init() takes over from valid metadata *)
Loaded(x) == x

(* update_init() finds no metadata, or cannot read it. *)
InitDefaults(k) ==
    /\ ~initialised
    /\ Faults \/ cache[UpdateLba] \notin Metadata
    /\ Store(Defaults(1), k)
    /\ initialised' = TRUE
    /\ reset' = (reset \/ cache[UpdateLba] \in Metadata)
    /\ UNCHANGED confirmed

(* update_init() finds metadata. *)
InitLoad(k) ==
    LET x == Loaded(cache[UpdateLba])
    IN  /\ ~initialised
        /\ cache[UpdateLba] \in Metadata
        /\ IF x.pending /\ x.boot_attempts >= MaxAttempts
           THEN Store(GiveUp(x), k)
           ELSE k = 0 /\ g' = x /\ UNCHANGED blockVars
        /\ initialised' = TRUE
        /\ UNCHANGED <<confirmed, reset>>

-----------------------------------------------------------------------------
(* An operation of update.h; the bound keeps the generation finite. *)
Called ==
    /\ initialised /\ g.generation < MaxGeneration
    /\ UNCHANGED <<initialised, reset>>

(* update_stage() *)
Stage(slot, v, k) ==
    /\ Called /\ slot # g.active_slot
    /\ Store(State(g.generation + 1, g.active_slot, g.active_version, TRUE, slot, v, FALSE, 0), k)
    /\ UNCHANGED confirmed

(* Mutant: the last attempt does not ask for the rollback. *)
OutOfAttempts_Late(attempts) == attempts > MaxAttempts

OutOfAttempts(attempts) == attempts >= MaxAttempts

(* update_note_boot_attempt() with an update pending *)
NoteBootAttempt(k) ==
    /\ Called /\ g.pending
    /\ Store(State(g.generation + 1, g.active_slot, g.active_version, TRUE, g.pending_slot,
                   g.pending_version, g.rollback_required \/ OutOfAttempts(g.boot_attempts + 1),
                   g.boot_attempts + 1), k)
    /\ UNCHANGED confirmed

(* Mutant: the version that was active keeps its name. *)
Activated_OldVersion ==
    State(g.generation + 1, g.pending_slot, g.active_version, FALSE, NoSlot, NoVersion, FALSE, 0)

Activated ==
    State(g.generation + 1, g.pending_slot, g.pending_version, FALSE, NoSlot, NoVersion, FALSE, 0)

(* update_mark_boot_success() *)
MarkBootSuccess(k) ==
    /\ Called /\ g.pending
    /\ Store(Activated, k)
    /\ confirmed' = confirmed \cup {<<g.pending_slot, g.pending_version>>}

(* update_request_rollback() *)
RequestRollback(k) ==
    /\ Called
    /\ Store(State(g.generation + 1, g.active_slot, g.active_version, FALSE, NoSlot,
                   g.pending_version, TRUE, 0), k)
    /\ UNCHANGED confirmed

UpdateStart == \E k \in 0..2 : InitDefaults(k) \/ InitLoad(k)

UpdateCall ==
    \E k \in 0..2 :
        \/ \E slot \in {A, B}, v \in Versions : Stage(slot, v, k)
        \/ NoteBootAttempt(k) \/ MarkBootSuccess(k) \/ RequestRollback(k)

(* Memory is lost. *)
UpdateOff ==
    /\ initialised' = FALSE
    /\ g' = Defaults(0)
    /\ UNCHANGED <<confirmed, reset>>

(* The other user of the partition writes sectors of its own, which the     *)
(* device may store together with this one.                                 *)
OthersWrite ==
    /\ DOMAIN cache' = Lbas /\ DOMAIN disk' = Lbas
    /\ cache'[UpdateLba] = cache[UpdateLba]
    /\ disk'[UpdateLba] \in {disk[UpdateLba], cache[UpdateLba]}
    /\ UNCHANGED updateVars

(* The metadata on a partition whose other user leaves its sector alone.    *)
UpdateNext ==
    \/ UpdateStart \/ UpdateCall
    \/ OthersWrite
    \/ (\E l \in Lbas : Destage(l)) /\ UNCHANGED updateVars
    \/ LoseCache /\ UpdateOff

UpdateSpec == BlockInit /\ UpdateInit /\ [][UpdateNext]_<<blockVars, updateVars>>

-----------------------------------------------------------------------------
(* What is in memory, and what a boot would find *)
Records == {g} \cup ({disk[UpdateLba], cache[UpdateLba]} \cap Metadata)

(* A pending update that has used up its attempts is marked for rollback,   *)
(* whatever a crash or a failed store lost.                                 *)
ExhaustedMeansRollback ==
    \A x \in Records : x.pending /\ x.boot_attempts >= MaxAttempts => x.rollback_required

(* No slot and version become active, in memory or on disk, before          *)
(* update_mark_boot_success() was called for them.                          *)
ActiveWasConfirmed ==
    \A x \in Records : <<x.active_slot, x.active_version>> \in confirmed

(* Stores that fail, cached stores and crashes never put older metadata on  *)
(* the disk in place of newer, as long as update_init() could read it.      *)
MetadataGoesForward ==
    [][ ~reset' /\ disk[UpdateLba] \in Metadata =>
            /\ disk'[UpdateLba] \in Metadata
            /\ disk'[UpdateLba].generation >= disk[UpdateLba].generation
      ]_<<blockVars, updateVars>>
=============================================================================

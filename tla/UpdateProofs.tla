---------------------------- MODULE UpdateProofs ----------------------------
(***************************************************************************)
(* Proofs about the A/B update metadata, for every number of versions and  *)
(* attempts, with and without a write cache, with stores that fail at      *)
(* either end and power that is lost between any two steps.  They rest on  *)
(* the other user of the partition leaving the metadata's sector alone.    *)
(***************************************************************************)
EXTENDS Update, TLAPS

(* A record that may be in memory or on the disk once the pairs in c have  *)
(* been confirmed.                                                         *)
Good(x, c) ==
    /\ x \in Metadata
    /\ x.pending /\ x.boot_attempts >= MaxAttempts => x.rollback_required
    /\ <<x.active_slot, x.active_version>> \in c

(* What a read returns is no older than what survives, and memory no older *)
(* than what a read returns.                                               *)
InOrder ==
    /\ disk[UpdateLba] \in Metadata =>
           cache[UpdateLba] \in Metadata /\ disk[UpdateLba].generation <= cache[UpdateLba].generation
    /\ initialised /\ cache[UpdateLba] \in Metadata => cache[UpdateLba].generation <= g.generation

UpdateInv ==
    /\ DOMAIN disk = Lbas /\ DOMAIN cache = Lbas
    /\ <<A, Default>> \in confirmed
    /\ Good(g, confirmed)
    /\ disk[UpdateLba] \in Metadata => Good(disk[UpdateLba], confirmed)
    /\ cache[UpdateLba] \in Metadata => Good(cache[UpdateLba], confirmed)
    /\ ~reset => InOrder

-----------------------------------------------------------------------------
LEMMA Fields ==
    ASSUME NEW x \in Metadata
    PROVE  /\ x.generation \in Nat /\ x.boot_attempts \in Nat
           /\ x.active_slot \in {A, B, NoSlot} /\ x.active_version \in Versions \cup {Default, NoVersion}
           /\ x.pending \in BOOLEAN /\ x.rollback_required \in BOOLEAN
           /\ x.pending_slot \in {A, B, NoSlot} /\ x.pending_version \in Versions \cup {NoVersion}
  BY DEF Metadata

(* store() leaves the sector as it was or writes it; what survives is what *)
(* survived or what a read then returns.                                   *)
LEMMA StoreWrites ==
    ASSUME UpdateInv, NEW x, NEW k, Store(x, k)
    PROVE  /\ g' = x
           /\ DOMAIN disk' = Lbas /\ DOMAIN cache' = Lbas
           /\ cache'[UpdateLba] \in {cache[UpdateLba], x}
           /\ disk'[UpdateLba] \in {disk[UpdateLba], cache'[UpdateLba]}
<1> DEFINE ws == <<To(UpdateLba, x)>>
           n == IF k < Len(ws) THEN k ELSE Len(ws)
           done == SubSeq(ws, 1, n)
<1>1. g' = x /\ cache' = Written(cache, done) /\ (disk' = cache' \/ disk' = disk)
  BY DEF Store, WriteAndFlush
<1>2. DOMAIN Written(cache, done) = Lbas
  BY DEF Written
<1>3. Written(cache, done)[UpdateLba] \in {cache[UpdateLba], x}
  <2>1. Len(ws) = 1 /\ ws[1] = To(UpdateLba, x) /\ DOMAIN ws = {1}
    OBVIOUS
  <2>2. k \in {0, 1, 2}
    BY <2>1 DEF Store, Outcomes
  <2>3. n \in {0, 1}
    BY <2>1, <2>2
  <2>4. \A j \in DOMAIN done : done[j].x = x
    BY <2>1, <2>3 DEF To
  <2>5. CASE \E j \in DOMAIN done : done[j].lba = UpdateLba
    <3> HIDE DEF done
    <3>1. Written(cache, done)[UpdateLba] = done[CHOOSE j \in DOMAIN done : done[j].lba = UpdateLba].x
      BY <2>5, UpdateAssumption DEF Written
    <3>2. (CHOOSE j \in DOMAIN done : done[j].lba = UpdateLba) \in DOMAIN done
      BY <2>5
    <3> QED
      BY <3>1, <3>2, <2>4
  <2>6. CASE ~\E j \in DOMAIN done : done[j].lba = UpdateLba
    <3> HIDE DEF done
    <3> QED
      BY <2>6, UpdateAssumption DEF Written
  <2> QED
    BY <2>5, <2>6
<1> QED
  BY <1>1, <1>2, <1>3 DEF UpdateInv

(* Writes to other sectors are steps of OthersWrite.                       *)
LEMMA WritesElsewhere ==
    ASSUME UpdateInv, NEW ws, NEW k, WriteAndFlush(ws, k), UNCHANGED updateVars,
           \A j \in DOMAIN SubSeq(ws, 1, IF k < Len(ws) THEN k ELSE Len(ws)) :
               SubSeq(ws, 1, IF k < Len(ws) THEN k ELSE Len(ws))[j].lba # UpdateLba
    PROVE  OthersWrite
<1> DEFINE done == SubSeq(ws, 1, IF k < Len(ws) THEN k ELSE Len(ws))
<1>1. cache' = Written(cache, done) /\ (disk' = cache' \/ disk' = disk)
  BY DEF WriteAndFlush
<1> HIDE DEF done
<1>2. ~\E j \in DOMAIN done : done[j].lba = UpdateLba
  BY DEF done
<1>3. DOMAIN Written(cache, done) = Lbas /\ Written(cache, done)[UpdateLba] = cache[UpdateLba]
  BY <1>2, UpdateAssumption DEF Written
<1> QED
  BY <1>1, <1>3 DEF OthersWrite, UpdateInv

(* A good record that is not older than what a read returns is stored.     *)
LEMMA StoreKeeps ==
    ASSUME UpdateInv, NEW x, NEW k, Store(x, k), Good(x, confirmed'), confirmed \subseteq confirmed',
           ~reset' => ~reset /\ (disk[UpdateLba] \in Metadata => cache[UpdateLba] \in Metadata)
                      /\ (cache[UpdateLba] \in Metadata => cache[UpdateLba].generation <= x.generation)
    PROVE  UpdateInv'
<1>1. /\ g' = x
      /\ DOMAIN disk' = Lbas /\ DOMAIN cache' = Lbas
      /\ cache'[UpdateLba] \in {cache[UpdateLba], x}
      /\ disk'[UpdateLba] \in {disk[UpdateLba], cache'[UpdateLba]}
  BY StoreWrites
<1>2. Good(g', confirmed') /\ (<<A, Default>> \in confirmed)'
  BY <1>1 DEF Good, UpdateInv
<1>3. \A y : Good(y, confirmed) => y \in Metadata /\ (y.pending /\ y.boot_attempts >= MaxAttempts => y.rollback_required)
                        /\ <<y.active_slot, y.active_version>> \in confirmed'
  BY DEF Good
<1>4. cache'[UpdateLba] \in Metadata => Good(cache'[UpdateLba], confirmed')
  BY <1>1, <1>3 DEF Good, UpdateInv
<1>5. disk'[UpdateLba] \in Metadata => Good(disk'[UpdateLba], confirmed')
  BY <1>1, <1>3, <1>4 DEF Good, UpdateInv
<1>6. ASSUME ~reset' PROVE InOrder'
  <2>1. x \in Metadata /\ x.generation \in Nat
    BY Fields DEF Good
  <2>2. \A y \in Metadata : y.generation \in Nat
    BY Fields
  <2> QED
    BY <1>1, <1>6, <2>1, <2>2 DEF InOrder, UpdateInv
<1> QED
  BY <1>1, <1>2, <1>4, <1>5, <1>6 DEF UpdateInv

LEMMA UpdateInvInit == BlockInit /\ UpdateInit => UpdateInv
<1> SUFFICES ASSUME BlockInit, UpdateInit PROVE UpdateInv
  OBVIOUS
<1>1. DOMAIN disk = Lbas /\ DOMAIN cache = Lbas /\ disk[UpdateLba] = Junk /\ cache[UpdateLba] = Junk
  BY UpdateAssumption DEF BlockInit
<1>2. Good(g, confirmed) /\ <<A, Default>> \in confirmed
  BY UpdateAssumption DEF UpdateInit, Defaults, State, Metadata, Good
<1> QED
  BY <1>1, <1>2, JunkAssumption DEF UpdateInv, InOrder

(* update_init(), with and without metadata it can use.                    *)
LEMMA StartKeeps ==
    ASSUME UpdateInv, NEW k, InitDefaults(k) \/ InitLoad(k)
    PROVE  UpdateInv'
<1>1. CASE InitDefaults(k)
  <2> DEFINE x == Defaults(1)
  <2>1. Store(x, k) /\ confirmed' = confirmed /\ reset' = (reset \/ cache[UpdateLba] \in Metadata)
    BY <1>1 DEF InitDefaults
  <2>2. Good(x, confirmed')
    BY <2>1, UpdateAssumption DEF Defaults, State, Metadata, Good, UpdateInv
  <2>3. ~reset' => ~reset /\ cache[UpdateLba] \notin Metadata /\ disk[UpdateLba] \notin Metadata
    BY <2>1 DEF UpdateInv, InOrder
  <2> HIDE DEF x
  <2> QED
    BY <2>1, <2>2, <2>3, StoreKeeps
<1>2. CASE InitLoad(k)
  <2> DEFINE x == cache[UpdateLba]
             y == GiveUp(x)
  <2>1. /\ x \in Metadata /\ initialised' = TRUE /\ confirmed' = confirmed /\ reset' = reset
        /\ \/ x.pending /\ x.boot_attempts >= MaxAttempts /\ Store(y, k)
           \/ g' = x /\ UNCHANGED blockVars
    BY <1>2 DEF InitLoad, Loaded
  <2>2. Good(x, confirmed)
    BY <2>1 DEF UpdateInv
  <2>3. CASE Store(y, k)
    <3>1. y \in Metadata /\ y.generation = x.generation + 1 /\ y.active_slot = x.active_slot
          /\ y.active_version = x.active_version /\ y.pending = FALSE
      BY <2>1, Fields DEF GiveUp, State, Metadata
    <3>2. x.generation \in Nat /\ x.generation <= y.generation
      BY <2>1, <3>1, Fields
    <3> HIDE DEF y
    <3>3. Good(y, confirmed')
      BY <2>1, <2>2, <3>1 DEF Good
    <3> QED
      BY <2>1, <2>3, <3>2, <3>3, StoreKeeps
  <2>4. CASE g' = x /\ UNCHANGED blockVars
    <3>1. x.generation \in Nat
      BY <2>1, Fields
    <3> QED
      BY <2>1, <2>2, <2>4, <3>1 DEF UpdateInv, InOrder, Good, blockVars
  <2> QED
    BY <2>1, <2>3, <2>4
<1> QED
  BY <1>1, <1>2

(* The operations of update.h: each stores a good record of the next       *)
(* generation.                                                             *)
LEMMA CallKeeps ==
    ASSUME UpdateInv, NEW x, NEW k, Called, Store(x, k), Good(x, confirmed'), x.generation = g.generation + 1,
           confirmed \subseteq confirmed'
    PROVE  UpdateInv'
<1>1. g.generation \in Nat /\ \A y \in Metadata : y.generation \in Nat
  BY Fields DEF UpdateInv, Good
<1>2. reset' = reset /\ initialised
  BY DEF Called
<1>3. ~reset => /\ disk[UpdateLba] \in Metadata => cache[UpdateLba] \in Metadata
                /\ cache[UpdateLba] \in Metadata => cache[UpdateLba].generation <= x.generation
  BY <1>1, <1>2 DEF UpdateInv, InOrder
<1> QED
  BY <1>2, <1>3, StoreKeeps

LEMMA OperationsKeep ==
    ASSUME UpdateInv, UpdateCall
    PROVE  UpdateInv'
<1> USE UpdateAssumption
<1>1. /\ g \in Metadata /\ <<g.active_slot, g.active_version>> \in confirmed
      /\ g.pending /\ g.boot_attempts >= MaxAttempts => g.rollback_required
  BY DEF UpdateInv, Good
<1>2. /\ g.generation \in Nat /\ g.generation + 1 \in Nat
      /\ g.boot_attempts \in Nat /\ g.boot_attempts + 1 \in Nat
      /\ g.active_slot \in {A, B, NoSlot} /\ g.active_version \in Versions \cup {Default, NoVersion}
      /\ g.pending \in BOOLEAN /\ g.rollback_required \in BOOLEAN
      /\ g.pending_slot \in {A, B, NoSlot} /\ g.pending_version \in Versions \cup {NoVersion}
  BY <1>1, Fields
<1>3. ASSUME NEW k, NEW slot \in {A, B}, NEW v \in Versions, Stage(slot, v, k) PROVE UpdateInv'
  <2> DEFINE x == State(g.generation + 1, g.active_slot, g.active_version, TRUE, slot, v, FALSE, 0)
  <2>1. Called /\ Store(x, k) /\ confirmed' = confirmed
    BY <1>3 DEF Stage
  <2>2. x \in Metadata /\ x.generation = g.generation + 1 /\ x.active_slot = g.active_slot
        /\ x.active_version = g.active_version /\ x.boot_attempts = 0
    BY <1>2 DEF State, Metadata
  <2> HIDE DEF x
  <2>3. Good(x, confirmed')
    BY <1>1, <2>1, <2>2 DEF Good
  <2> QED
    BY <2>1, <2>2, <2>3, CallKeeps
<1>4. ASSUME NEW k, NoteBootAttempt(k) PROVE UpdateInv'
  <2> DEFINE rollback == g.rollback_required \/ OutOfAttempts(g.boot_attempts + 1)
             x == State(g.generation + 1, g.active_slot, g.active_version, TRUE, g.pending_slot,
                        g.pending_version, rollback, g.boot_attempts + 1)
  <2>1. Called /\ Store(x, k) /\ confirmed' = confirmed
    BY <1>4 DEF NoteBootAttempt
  <2>2. rollback \in BOOLEAN /\ (g.boot_attempts + 1 >= MaxAttempts => rollback)
    BY DEF OutOfAttempts
  <2> HIDE DEF rollback
  <2>3. x \in Metadata /\ x.generation = g.generation + 1 /\ x.active_slot = g.active_slot
        /\ x.active_version = g.active_version /\ x.boot_attempts = g.boot_attempts + 1
        /\ x.rollback_required = rollback
    BY <1>2, <2>2 DEF State, Metadata
  <2> HIDE DEF x
  <2>4. Good(x, confirmed')
    BY <1>1, <2>1, <2>2, <2>3 DEF Good
  <2> QED
    BY <2>1, <2>3, <2>4, CallKeeps
<1>5. ASSUME NEW k, MarkBootSuccess(k) PROVE UpdateInv'
  <2> DEFINE x == Activated
  <2>1. Called /\ Store(x, k) /\ confirmed' = confirmed \cup {<<g.pending_slot, g.pending_version>>}
    BY <1>5 DEF MarkBootSuccess
  <2>2. x \in Metadata /\ x.generation = g.generation + 1 /\ x.active_slot = g.pending_slot
        /\ x.active_version = g.pending_version /\ x.pending = FALSE
    BY <1>2 DEF Activated, State, Metadata
  <2> HIDE DEF x
  <2>3. Good(x, confirmed')
    BY <2>1, <2>2 DEF Good
  <2> QED
    BY <2>1, <2>2, <2>3, CallKeeps
<1>6. ASSUME NEW k, RequestRollback(k) PROVE UpdateInv'
  <2> DEFINE x == State(g.generation + 1, g.active_slot, g.active_version, FALSE, NoSlot,
                        g.pending_version, TRUE, 0)
  <2>1. Called /\ Store(x, k) /\ confirmed' = confirmed
    BY <1>6 DEF RequestRollback
  <2>2. x \in Metadata /\ x.generation = g.generation + 1 /\ x.active_slot = g.active_slot
        /\ x.active_version = g.active_version /\ x.pending = FALSE
    BY <1>2 DEF State, Metadata
  <2> HIDE DEF x
  <2>3. Good(x, confirmed')
    BY <1>1, <2>1, <2>2 DEF Good
  <2> QED
    BY <2>1, <2>2, <2>3, CallKeeps
<1> QED
  BY <1>3, <1>4, <1>5, <1>6 DEF UpdateCall

(* The device stores the sector, the other user writes, power is lost.     *)
LEMMA SurroundingsKeep ==
    ASSUME UpdateInv,
           \/ OthersWrite
           \/ (\E l \in Lbas : Destage(l)) /\ UNCHANGED updateVars
           \/ LoseCache /\ UpdateOff
    PROVE  UpdateInv'
<1>0. \A y \in Metadata : y.generation \in Nat
  BY Fields
<1>1. CASE OthersWrite
  BY <1>0, <1>1 DEF OthersWrite, updateVars, UpdateInv, InOrder, Good
<1>2. CASE (\E l \in Lbas : Destage(l)) /\ UNCHANGED updateVars
  <2>1. /\ DOMAIN disk' = Lbas /\ cache' = cache
        /\ disk'[UpdateLba] \in {disk[UpdateLba], cache[UpdateLba]}
    BY <1>2, UpdateAssumption DEF Destage, UpdateInv
  <2> QED
    BY <1>0, <1>2, <2>1 DEF updateVars, UpdateInv, InOrder, Good
<1>3. CASE LoseCache /\ UpdateOff
  <2>1. cache' = disk /\ disk' = disk /\ ~initialised' /\ confirmed' = confirmed /\ reset' = reset
    BY <1>3 DEF LoseCache, UpdateOff
  <2>2. Good(g', confirmed')
    BY <1>3, <2>1, UpdateAssumption DEF UpdateOff, Defaults, State, Metadata, Good, UpdateInv
  <2> QED
    BY <1>0, <2>1, <2>2 DEF UpdateInv, InOrder, Good
<1> QED
  BY <1>1, <1>2, <1>3

LEMMA UpdateInvStep == UpdateInv /\ [UpdateNext]_<<blockVars, updateVars>> => UpdateInv'
<1> SUFFICES ASSUME UpdateInv, [UpdateNext]_<<blockVars, updateVars>> PROVE UpdateInv'
  OBVIOUS
<1>1. CASE UNCHANGED <<blockVars, updateVars>>
  BY <1>1 DEF blockVars, updateVars, UpdateInv, InOrder, Good
<1>2. CASE UpdateStart
  BY <1>2, StartKeeps DEF UpdateStart
<1>3. CASE UpdateCall
  BY <1>3, OperationsKeep
<1> QED
  BY <1>1, <1>2, <1>3, SurroundingsKeep DEF UpdateNext

LEMMA UpdateInvAlways == UpdateSpec => []UpdateInv
  BY UpdateInvInit, UpdateInvStep, PTL DEF UpdateSpec

(* In memory and on the disk, a pending update that has used up its        *)
(* attempts asks for the rollback, whatever store failed or power was lost *)
(* between update_note_boot_attempt() and the next update_init().          *)
THEOREM ExhaustedUpdatesRollBack == UpdateSpec => []ExhaustedMeansRollback
<1>1. UpdateInv => ExhaustedMeansRollback
  BY DEF UpdateInv, Good, ExhaustedMeansRollback, Records
<1> QED
  BY <1>1, UpdateInvAlways, PTL

(* Only what update_mark_boot_success() confirmed is ever active.          *)
THEOREM OnlyConfirmedIsActive == UpdateSpec => []ActiveWasConfirmed
<1>1. UpdateInv => ActiveWasConfirmed
  BY DEF UpdateInv, Good, ActiveWasConfirmed, Records
<1> QED
  BY <1>1, UpdateInvAlways, PTL

(* Metadata on the disk is only ever replaced by newer metadata, as long   *)
(* as update_init() could read it: through failed stores, cached stores    *)
(* and power losses in any order.                                          *)
THEOREM MetadataNeverGoesBack == UpdateSpec => MetadataGoesForward
<1> DEFINE Forward ==
        ~reset' /\ disk[UpdateLba] \in Metadata =>
            /\ disk'[UpdateLba] \in Metadata
            /\ disk'[UpdateLba].generation >= disk[UpdateLba].generation
<1>1. UpdateInv /\ UpdateInv' /\ [UpdateNext]_<<blockVars, updateVars>> => [Forward]_<<blockVars, updateVars>>
  <2> SUFFICES ASSUME UpdateInv, UpdateInv', UpdateNext, ~reset', disk[UpdateLba] \in Metadata
               PROVE  /\ disk'[UpdateLba] \in Metadata
                      /\ disk'[UpdateLba].generation >= disk[UpdateLba].generation
    OBVIOUS
  <2>0. \A y \in Metadata : y.generation \in Nat
    BY Fields
  <2>1. ~reset
    BY DEF UpdateNext, UpdateStart, InitDefaults, InitLoad, UpdateCall, Stage, NoteBootAttempt,
           MarkBootSuccess, RequestRollback, Called, OthersWrite, UpdateOff, updateVars
  <2>2. cache[UpdateLba] \in Metadata /\ disk[UpdateLba].generation <= cache[UpdateLba].generation
    BY <2>1 DEF UpdateInv, InOrder
  <2>3. ASSUME NEW x \in Metadata, NEW k, Store(x, k), cache[UpdateLba].generation <= x.generation
        PROVE  /\ disk'[UpdateLba] \in Metadata
               /\ disk'[UpdateLba].generation >= disk[UpdateLba].generation
    <3>1. /\ cache'[UpdateLba] \in {cache[UpdateLba], x}
          /\ disk'[UpdateLba] \in {disk[UpdateLba], cache'[UpdateLba]}
      BY <2>3, StoreWrites
    <3> QED
      BY <2>0, <2>2, <2>3, <3>1
  <2>4. ASSUME NEW k, InitDefaults(k) PROVE FALSE
    BY <2>2, <2>4 DEF InitDefaults
  <2>5. ASSUME NEW k, InitLoad(k)
        PROVE  /\ disk'[UpdateLba] \in Metadata
               /\ disk'[UpdateLba].generation >= disk[UpdateLba].generation
    <3> DEFINE y == GiveUp(cache[UpdateLba])
    <3>1. y \in Metadata /\ y.generation = cache[UpdateLba].generation + 1
      BY <2>2, Fields DEF GiveUp, State, Metadata
    <3>2. CASE Store(y, k)
      <4> HIDE DEF y
      <4> QED
        BY <2>0, <2>2, <2>3, <3>1, <3>2
    <3>3. CASE UNCHANGED blockVars
      BY <2>0, <3>3 DEF blockVars
    <3> QED
      BY <2>5, <3>2, <3>3 DEF InitLoad, Loaded
  <2>6. CASE UpdateCall
    <3> DEFINE Next(x, k) == Store(x, k) /\ initialised /\ x.generation = g.generation + 1
    <3>a. ASSUME NEW k, NEW slot, NEW v, Stage(slot, v, k) PROVE \E x : Next(x, k)
      BY <3>a DEF Stage, Called, State
    <3>b. ASSUME NEW k, NoteBootAttempt(k) PROVE \E x : Next(x, k)
      BY <3>b DEF NoteBootAttempt, Called, State
    <3>c. ASSUME NEW k, MarkBootSuccess(k) PROVE \E x : Next(x, k)
      BY <3>c DEF MarkBootSuccess, Called, Activated, State
    <3>d. ASSUME NEW k, RequestRollback(k) PROVE \E x : Next(x, k)
      BY <3>d DEF RequestRollback, Called, State
    <3>e. PICK x, k : Next(x, k)
      <4> HIDE DEF Next
      <4> QED
        BY <2>6, <3>a, <3>b, <3>c, <3>d DEF UpdateCall
    <3>1. Store(g', k) /\ initialised /\ g'.generation = g.generation + 1
      BY <3>e DEF Store
    <3>2. g \in Metadata /\ g' \in Metadata /\ cache[UpdateLba].generation <= g.generation
      BY <2>1, <2>2, <3>1 DEF UpdateInv, InOrder, Good
    <3>3. cache[UpdateLba].generation <= g'.generation
      BY <2>0, <2>2, <3>1, <3>2
    <3> QED
      BY <2>3, <3>1, <3>2, <3>3
  <2>7. CASE OthersWrite
    BY <2>0, <2>2, <2>7 DEF OthersWrite
  <2>8. CASE \E l \in Lbas : Destage(l)
    <3>1. disk'[UpdateLba] \in {disk[UpdateLba], cache[UpdateLba]}
      BY <2>8, UpdateAssumption DEF Destage, UpdateInv
    <3> QED
      BY <2>0, <2>2, <3>1
  <2>9. CASE LoseCache
    BY <2>0, <2>9 DEF LoseCache
  <2> QED
    BY <2>4, <2>5, <2>6, <2>7, <2>8, <2>9 DEF UpdateNext, UpdateStart
<1> QED
  BY <1>1, UpdateInvAlways, PTL DEF UpdateSpec, MetadataGoesForward
=============================================================================

------------------------------ MODULE Configfs ------------------------------
(***************************************************************************)
(* The configuration store (fs/configfs.c): an open-addressed table with   *)
(* linear probing.  configfs_delete empties a slot without a marker, which *)
(* cuts the probe chains that pass through it.                             *)
(***************************************************************************)
EXTENDS Integers, FiniteSets

CONSTANTS
    Keys, Settings,      \* keys and values
    HashOf,              \* key -> hash_key(key) % ConfigMax
    ConfigMax,           \* CONFIGFS_MAX_ENTRIES
    NoSetting,           \* the value of a key that is not set
    DefaultKey, DefaultSetting,   \* one of the settings made at each mount
    CountBound           \* bound: mounts while the count on disk is below it

VARIABLES
    entries,             \* slot -> [key, value]; EmptyEntry: not valid
    entry_count,         \* csb.entry_count
    synced,              \* entry_count in the superblock on disk
    latest,              \* what was last set and not deleted: key -> value
    cut                  \* an entry was deleted since the mount

configVars == <<entries, entry_count, synced, latest, cut>>

EmptyEntry == [key |-> NoSetting, value |-> NoSetting]
ConfigSlots == 0 .. ConfigMax - 1

Probe(key, i) == (HashOf[key] + i) % ConfigMax

(* The number of the probe at which the walk for a key ends: at its entry  *)
(* or at an empty slot; ConfigMax: at neither.                             *)
Stops(key, i) == entries[Probe(key, i)] = EmptyEntry \/ entries[Probe(key, i)].key = key
Walk(key) ==
    IF \E i \in ConfigSlots : Stops(key, i)
    THEN CHOOSE i \in ConfigSlots : Stops(key, i) /\ \A j \in 0 .. i - 1 : ~Stops(key, j)
    ELSE ConfigMax
Found(key) == Walk(key) # ConfigMax /\ entries[Probe(key, Walk(key))] # EmptyEntry

configfs_get(key) == IF Found(key) THEN entries[Probe(key, Walk(key))].value ELSE NoSetting

(* Mutant: the walk of a new key does not wrap around the end of the table. *)
Target_NoWrap(key) ==
    LET at == HashOf[key] + Walk(key)
    IN  IF at > ConfigMax - 1 THEN ConfigMax - 1 ELSE at

Target(key) == Probe(key, Walk(key))

(* The entry is updated or the empty slot filled; a full table refuses.    *)
configfs_set(key, value) ==
    /\ Walk(key) # ConfigMax
    /\ entries' = [entries EXCEPT ![Target(key)] = [key |-> key, value |-> value]]
    /\ entry_count' = IF Found(key) THEN entry_count ELSE entry_count + 1
    /\ latest' = [latest EXCEPT ![key] = value]
    /\ UNCHANGED <<synced, cut>>

configfs_delete(key) ==
    /\ Found(key)
    /\ entries' = [entries EXCEPT ![Target(key)] = EmptyEntry]
    /\ entry_count' = entry_count - 1
    /\ latest' = [latest EXCEPT ![key] = NoSetting]
    /\ cut' = TRUE
    /\ UNCHANGED synced

configfs_sync ==
    /\ synced' = entry_count
    /\ UNCHANGED <<entries, entry_count, latest, cut>>

(* A mount takes the number of entries from the disk, though it reads none *)
(* of them, and makes the default settings.                                *)
Mounted(count) ==
    [slots |-> [i \in ConfigSlots |->
                   IF i = HashOf[DefaultKey] THEN [key |-> DefaultKey, value |-> DefaultSetting] ELSE EmptyEntry],
     count |-> count + 1,
     known |-> [k \in Keys |-> IF k = DefaultKey THEN DefaultSetting ELSE NoSetting]]

ConfigInit ==
    /\ entries = Mounted(0).slots /\ entry_count = Mounted(0).count /\ latest = Mounted(0).known
    /\ synced = 0 /\ cut = FALSE

configfs_mount ==
    /\ synced < CountBound
    /\ entries' = Mounted(synced).slots /\ entry_count' = Mounted(synced).count
    /\ latest' = Mounted(synced).known
    /\ cut' = FALSE
    /\ UNCHANGED synced

ConfigNext ==
    \/ configfs_sync \/ configfs_mount
    \/ \E key \in Keys : configfs_delete(key) \/ \E value \in Settings : configfs_set(key, value)

-----------------------------------------------------------------------------
(* configfs_get returns what configfs_set stored last, for every key and   *)
(* however its probes collide or wrap around, until an entry is deleted.   *)
ConfigGetReturnsLastSet ==
    ~cut => \A key \in Keys : configfs_get(key) = latest[key]
=============================================================================

------------------------------- MODULE AegisFs -------------------------------
(***************************************************************************)
(* fs/aegisfs.c, the filesystem of AEGIS_CONFIG, with the two calls the    *)
(* boot makes (kernel_main.c): mount, then a self-test that writes a file. *)
(* Sector 0 is the superblock, then comes the directory, then data, which  *)
(* is only ever appended.                                                  *)
(*                                                                         *)
(* Contents are counted in sectors, and the directory has one entry per    *)
(* sector.  A CRC is the value it was computed from: distinct contents     *)
(* have distinct CRCs.                                                     *)
(***************************************************************************)
EXTENDS BlockDevice, FiniteSets

CONSTANTS
    Files,          \* file names
    SelfTestFile,   \* "/persist/.pr1-selftest"
    Values,         \* contents of a data sector
    SelfTestData,   \* "aegisfs-pr1"
    Zero,           \* a data sector of zeroes
    NoName,         \* the name of a directory entry that is not valid
    MaxFiles,       \* AEGISFS_MAX_FILES
    MaxSectors      \* AEGISFS_MAX_FILE_BYTES, in sectors

ASSUME FsAssumption ==
    /\ SelfTestFile \in Files /\ NoName \notin Files /\ SelfTestData \in Values
    /\ Zero \notin Values /\ Junk \notin Values /\ Junk # Zero
    /\ MaxFiles \in Nat \ {0} /\ MaxSectors \in Nat \ {0}
    /\ MaxFiles + 1 < Blocks

VARIABLES
    phase,          \* "down", "mounted", "up" (self-test passed), "panic"
    sb,             \* g_sb
    entries,        \* g_entries
    allowed         \* the contents each file may have: those of the last write
                    \* that succeeded and of the failed writes since

fsVars == <<phase, sb, entries, allowed>>

Slots == 1..MaxFiles
DataLba == 1 + MaxFiles

SuperBlock(generation, count, next, crc) ==
    [generation |-> generation, file_count |-> count, next_free_lba |-> next, directory_crc |-> crc]
Entry(name, generation, start, size, crc) ==
    [name |-> name, generation |-> generation, start_lba |-> start, size |-> size, data_crc |-> crc]
NoEntry == Entry(NoName, 0, 0, 0, <<>>)
NoSb == SuperBlock(0, 0, 0, <<>>)

Valid(es) == {s \in Slots : es[s].name # NoName}

-----------------------------------------------------------------------------
(* persist_metadata(): the directory, then the superblock with its CRC *)
WithCrc(b, es) == SuperBlock(b.generation, b.file_count, b.next_free_lba, es)
MetadataWrites(b, es) ==
    [s \in Slots |-> To(s, es[s])] \o <<To(0, WithCrc(b, es))>>

Directory == [s \in Slots |-> cache[s]]

FsInit ==
    /\ BlockInit
    /\ phase = "down"
    /\ sb = NoSb
    /\ entries = [s \in Slots |-> NoEntry]
    /\ allowed = [f \in Files |-> {<<>>}]

(* format_fs(), because sector 0 is not a superblock *)
Format(k) ==
    LET b == SuperBlock(1, 0, DataLba, <<>>)
        es == [s \in Slots |-> NoEntry]
        ws == MetadataWrites(b, es)
    IN  /\ phase = "down" /\ cache[0] = Junk
        /\ k \in Outcomes(ws)
        /\ WriteAndFlush(ws, k)
        /\ sb' = WithCrc(b, es)
        /\ entries' = es
        /\ phase' = IF Succeeds(ws, k) THEN "mounted" ELSE "panic"
        /\ UNCHANGED allowed

(* Mutant: the directory is not compared with its CRC. *)
Mount_NoCrc ==
    /\ phase = "down" /\ cache[0] # Junk
    /\ sb' = cache[0]
    /\ entries' = Directory
    /\ phase' = IF \E s \in Slots : cache[s] = Junk THEN "panic" ELSE "mounted"
    /\ UNCHANGED <<blockVars, allowed>>

(* aegisfs_mount_persistent() of a formatted partition *)
Mount ==
    /\ phase = "down" /\ cache[0] # Junk
    /\ sb' = cache[0]
    /\ entries' = Directory
    /\ phase' = IF Directory = cache[0].directory_crc THEN "mounted" ELSE "panic"
    /\ UNCHANGED <<blockVars, allowed>>

(* A read of the mount fails. *)
MountReadError ==
    /\ phase = "down" /\ Faults
    /\ phase' = "panic"
    /\ UNCHANGED <<blockVars, sb, entries, allowed>>

-----------------------------------------------------------------------------
(* find_entry(), else alloc_entry(): the slot, and the tables with f in it *)
Found(f) == \E s \in Slots : entries[s].name = f
HasSlot(f) == Found(f) \/ Valid(entries) # Slots
SlotOf(f) ==
    IF Found(f) THEN CHOOSE s \in Slots : entries[s].name = f
    ELSE CHOOSE s \in Slots \ Valid(entries) : \A r \in Slots \ Valid(entries) : s <= r
EntriesWith(f) ==
    IF Found(f) THEN entries ELSE [entries EXCEPT ![SlotOf(f)] = Entry(f, 0, 0, 0, <<>>)]
CountWith(f) == IF Found(f) THEN sb.file_count ELSE sb.file_count + 1

(* What a read of the whole file returns *)
Contents(e) == [i \in 1..e.size |-> cache[e.start_lba + i - 1]]

(* The file with sector o written, and zeroes up to it *)
Patch(c, o, v) ==
    [i \in 1..(IF Len(c) < o THEN o ELSE Len(c)) |->
        IF i = o THEN v ELSE IF i <= Len(c) THEN c[i] ELSE Zero]

Image(f, o, v) == Patch(Contents(EntriesWith(f)[SlotOf(f)]), o, v)

NoRoom(f, o, v) == sb.next_free_lba + Len(Image(f, o, v)) > Blocks

(* Self-test decides whether the boot goes on; later writes return to the   *)
(* caller either way.                                                       *)
After(ok) == IF phase = "up" \/ ok THEN "up" ELSE "panic"

(* agfs_write() returns AEGIS_ENOSPC: a new entry stays in memory. *)
WriteNoRoom(f, o, v) ==
    /\ HasSlot(f) /\ NoRoom(f, o, v)
    /\ entries' = EntriesWith(f)
    /\ sb' = [sb EXCEPT !.file_count = CountWith(f)]
    /\ phase' = After(FALSE)
    /\ UNCHANGED <<blockVars, allowed>>

DataWrites(lba, image) == [i \in DOMAIN image |-> To(lba + i - 1, image[i])]

(* What agfs_write() has in memory once the data is written *)
NewEntries(f, image) ==
    [EntriesWith(f) EXCEPT ![SlotOf(f)] =
        Entry(f, sb.generation + 1, sb.next_free_lba, Len(image), image)]
NewSb(f, image) ==
    WithCrc(SuperBlock(sb.generation + 1, CountWith(f), sb.next_free_lba + Len(image), <<>>),
            NewEntries(f, image))

(* Mutant: the directory and superblock are written before the data. *)
WriteOrder_MetadataFirst(data, metadata) == metadata \o data

WriteOrder(data, metadata) == data \o metadata

(* agfs_write() of sector o of file f *)
Write(f, o, v, k) ==
    LET image == Image(f, o, v)
        data == DataWrites(sb.next_free_lba, image)
        ws == WriteOrder(data, MetadataWrites(NewSb(f, image), NewEntries(f, image)))
        ok == Succeeds(ws, k)
    IN  /\ HasSlot(f) /\ ~NoRoom(f, o, v)
        /\ k \in Outcomes(ws)
        /\ WriteAndFlush(ws, k)
        /\ IF k < Len(data)
           THEN /\ entries' = EntriesWith(f)
                /\ sb' = [sb EXCEPT !.file_count = CountWith(f)]
           ELSE /\ entries' = NewEntries(f, image)
                /\ sb' = NewSb(f, image)
        /\ allowed' = [allowed EXCEPT ![f] =
               IF ok THEN {image} ELSE IF k < Len(data) THEN @ ELSE @ \cup {image}]
        /\ phase' \in {After(ok)} \cup (IF Faults THEN {After(FALSE)} ELSE {})

Steps == 0..(Blocks + 1)

(* aegisfs_selftest(): the write, and a read that may fail.  Its file has   *)
(* an entry before any other can.                                           *)
SelfTest ==
    /\ phase = "mounted"
    /\ \/ WriteNoRoom(SelfTestFile, 1, SelfTestData)
       \/ \E k \in Steps : Write(SelfTestFile, 1, SelfTestData, k)

(* A user program writes to a file below /persist. *)
UserWrite(f, o, v) ==
    /\ phase = "up"
    /\ WriteNoRoom(f, o, v) \/ \E k \in Steps : Write(f, o, v, k)

(* Power is lost, or the machine reboots, which is all it can do after a    *)
(* panic.                                                                   *)
PowerLoss ==
    /\ phase # "down"
    /\ LoseCache
    /\ phase' = "down"
    /\ sb' = NoSb
    /\ entries' = [s \in Slots |-> NoEntry]
    /\ UNCHANGED allowed

-----------------------------------------------------------------------------
Mounted == phase \in {"mounted", "up"}

Extent(e) == e.start_lba..(e.start_lba + e.size - 1)

(* However writes fail and power is lost, a filesystem that mounts has      *)
(* tables that fit together: one entry per name, the number of files right, *)
(* and files that do not overlap and lie below the first free sector.       *)
TablesFitTogether ==
    Mounted =>
        /\ \A s, r \in Valid(entries) : entries[s].name = entries[r].name => s = r
        /\ sb.file_count = Cardinality(Valid(entries))
        /\ \A s \in Valid(entries) : Extent(entries[s]) \subseteq DataLba..(sb.next_free_lba - 1)
        /\ \A s, r \in Valid(entries) : s # r => Extent(entries[s]) \cap Extent(entries[r]) = {}

(* A crash is detected: the files of a filesystem that mounts have the      *)
(* contents their data_crc was computed from.                               *)
CrashesAreDetected ==
    Mounted => \A s \in Valid(entries) : Contents(entries[s]) = entries[s].data_crc

(* On a device that stores writes in order, a write that returned its       *)
(* length is there after any number of crashes and failed writes, until a   *)
(* later write of the same file: /persist is persistent.                    *)
WritesPersist ==
    Mounted /\ ~write_back =>
        \A f \in Files :
            (IF Found(f) THEN Contents(entries[SlotOf(f)]) ELSE <<>>) \in allowed[f]
=============================================================================

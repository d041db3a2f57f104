----------------------------- MODULE ElfLoader ------------------------------
(***************************************************************************)
(* The ELF loader (kernel/core/elf_loader.c).  An image is its entry point *)
(* and its PT_LOAD segments, in the units of Userland; a runtime slot has  *)
(* a backing of ImageMax pages into which the segments are copied.         *)
(***************************************************************************)
EXTENDS Userland

CONSTANTS
    RuntimeMax,          \* AEGIS_ELF_RUNTIME_MAX
    ImageMax             \* AEGIS_ELF_RUNTIME_IMAGE_MAX, in pages

VARIABLES
    loader,              \* the loader's flags that are set
    runtime,             \* slot in use -> what was loaded into it
    builtin_slot         \* the slot of aegis-init; 0: none

elfVars == <<loader, runtime, builtin_slot>>

ElfBoot == loader = {} /\ runtime = <<>> /\ builtin_slot = 0

LoadSegmentsMax == 8

(* Pages are counted from 0; a segment covers [FirstPage, EndPage).        *)
FirstPage(s) == s.vaddr \div PageUnits
EndPage(s) == (s.vaddr + s.mem + PageUnits - 1) \div PageUnits
LowPage(image) == Min({FirstPage(s) : s \in image.segments})
SpanPages(image) == Max({EndPage(s) : s \in image.segments}) - LowPage(image)

HoldsEntry(s, image) ==
    s.vaddr <= image.entry /\ image.entry < s.vaddr + s.mem /\ "exec" \in s.perms

validate_image(image) ==
    /\ "initialised" \in loader
    /\ image.header_ok
    /\ image.segments # {} /\ Cardinality(image.segments) <= LoadSegmentsMax
    /\ \A s \in image.segments :
           /\ s.mem > 0 /\ s.file <= s.mem
           /\ ~({"write", "exec"} \subseteq s.perms)
    /\ \E s \in image.segments : HoldsEntry(s, image)
    /\ SpanPages(image) <= ImageMax

(* Mutant: the runtime entry is taken relative to the text segment.        *)
Copied_FromText(image) ==
    LET text == CHOOSE s \in image.segments : HoldsEntry(s, image)
        low == LowPage(image) * PageUnits
    IN  [entry |-> image.entry, text_vaddr |-> text.vaddr, text_flags |-> text.perms,
         text_memsz |-> SpanPages(image) * PageUnits,
         segments |-> {[s EXCEPT !.vaddr = s.vaddr - low] : s \in image.segments},
         copied |-> MapThenSumSet(LAMBDA s : s.file, image.segments),
         zeroed |-> MapThenSumSet(LAMBDA s : s.mem - s.file, image.segments),
         runtime_entry |-> image.entry - text.vaddr]

(* What copy_executable_pt_load leaves in the slot.  The segment with the  *)
(* entry point gives the text's address and flags, the whole span its      *)
(* size; offsets are relative to the lowest page.                          *)
Copied(image) ==
    LET text == CHOOSE s \in image.segments : HoldsEntry(s, image)
        low == LowPage(image) * PageUnits
    IN  [entry |-> image.entry, text_vaddr |-> text.vaddr, text_flags |-> text.perms,
         text_memsz |-> SpanPages(image) * PageUnits,
         segments |-> {[s EXCEPT !.vaddr = s.vaddr - low] : s \in image.segments},
         copied |-> MapThenSumSet(LAMBDA s : s.file, image.segments),
         zeroed |-> MapThenSumSet(LAMBDA s : s.mem - s.file, image.segments),
         runtime_entry |-> image.entry - low]

elf_loader_init ==
    /\ loader' = {"initialised"} /\ runtime' = <<>> /\ builtin_slot' = 0

FreeRuntime == FreeSlots(runtime, RuntimeMax)

(* elf_loader_load_vfs_aegis_init: the file is opened, read whole and      *)
(* closed, then loaded into the first free slot.                           *)
load_vfs_aegis_init(image) ==
    /\ "initialised" \in loader
    /\ CanOpen(<<"sbin", "aegis-init">>) /\ Readable(Resolved(<<"sbin", "aegis-init">>))
    /\ validate_image(image)
    /\ FreeRuntime # {}
    /\ runtime' = (Min(FreeRuntime) :> Copied(image)) @@ runtime
    /\ builtin_slot' = Min(FreeRuntime)
    /\ loader' = loader \union {"pt_load_segments_copied", "permissions_ready", "builtin_ready"}

elf_loader_selftest ==
    /\ {"initialised", "builtin_ready"} \subseteq loader
    /\ builtin_slot \in DOMAIN runtime
    /\ LET info == runtime[builtin_slot]
       IN  /\ info.entry = TextBase(0) * PageUnits /\ info.text_vaddr = TextBase(0) * PageUnits
           /\ info.text_memsz > 0 /\ info.text_memsz % PageUnits = 0
           /\ "exec" \in info.text_flags

(* A unit of the backing that a segment's file bytes fill; they count as   *)
(* non-zero.                                                               *)
HasFileBytes(info, unit) ==
    \E s \in info.segments : s.vaddr <= unit /\ unit < s.vaddr + s.file

pt_load_selftest ==
    /\ {"pt_load_segments_copied", "permissions_ready", "builtin_ready"} \subseteq loader
    /\ builtin_slot \in DOMAIN runtime
    /\ LET info == runtime[builtin_slot]
       IN  /\ 0 <= info.runtime_entry /\ info.runtime_entry < info.text_memsz
           /\ info.copied > 0 /\ info.zeroed = info.text_memsz - info.copied
           /\ {"read", "exec"} \subseteq info.text_flags /\ "write" \notin info.text_flags
           /\ HasFileBytes(info, 0) /\ ~HasFileBytes(info, info.copied)
=============================================================================

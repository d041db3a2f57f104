-------------------------------- MODULE Heap --------------------------------
(***************************************************************************)
(* The kernel heap (kernel/memory/heap.c): a list of blocks, each behind   *)
(* its header.  Sizes and addresses count the allocator's units of 8       *)
(* bytes, to which kmalloc rounds.                                         *)
(***************************************************************************)
EXTENDS Integers, Sequences, SequencesExt

CONSTANTS
    HeapSize,            \* units given to heap_init
    HeaderSize,          \* sizeof(block_header_t)
    Sizes                \* what the kernel asks for

ASSUME HeapAssumption ==
    HeaderSize \in Nat \ {0} /\ HeapSize \in Nat /\ HeapSize > HeaderSize /\ Sizes \subseteq Nat

VARIABLES
    blocks,              \* the list from heap_head: [at, size, free]
    owned                \* what the kernel holds: [ptr, size]

heapVars == <<blocks, owned>>

heap_init ==
    /\ blocks = <<[at |-> 0, size |-> HeapSize - HeaderSize, free |-> TRUE]>>
    /\ owned = {}

Ptr(b) == b.at + HeaderSize

Fits(b, size) == b.free /\ b.size >= size

(* Mutant: the remainder's header is left out of the calculation.          *)
Splits_NoHeader(b, size) == b.size >= size + 1

(* What remains must hold a header and a unit.                             *)
Splits(b, size) == b.size >= size + HeaderSize + 1

(* The block given out, and behind it what was split off.                  *)
Cut(b, size) ==
    IF Splits(b, size)
    THEN <<[b EXCEPT !.size = size, !.free = FALSE],
           [at |-> b.at + HeaderSize + size, size |-> b.size - size - HeaderSize, free |-> TRUE]>>
    ELSE <<[b EXCEPT !.free = FALSE]>>

(* The first block of list that fits; 0: none.                             *)
FirstFit(list, size) == SelectInSeq(list, LAMBDA b : Fits(b, size))

Allocated(list, size) ==
    LET i == FirstFit(list, size)
    IN  SubSeq(list, 1, i - 1) \o Cut(list[i], size) \o SubSeq(list, i + 1, Len(list))

(* Two free neighbours become one; the merged block is looked at again.    *)
Coalesce(done, b) ==
    IF done # <<>> /\ Last(done).free /\ b.free
    THEN [done EXCEPT ![Len(done)].size = @ + HeaderSize + b.size]
    ELSE Append(done, b)

Released(list, ptr) ==
    FoldLeft(Coalesce, <<>>, [i \in DOMAIN list |-> [list[i] EXCEPT !.free = @ \/ Ptr(list[i]) = ptr]])

kmalloc(size) ==
    /\ FirstFit(blocks, size) # 0
    /\ blocks' = Allocated(blocks, size)
    /\ owned' = owned \union {[ptr |-> Ptr(blocks[FirstFit(blocks, size)]), size |-> size]}

kfree(o) ==
    /\ blocks' = Released(blocks, o.ptr)
    /\ owned' = owned \ {o}

(* The block may be large enough as it is; else a new one is taken before  *)
(* the old one is released.                                                *)
krealloc(o, size) ==
    LET old == blocks[SelectInSeq(blocks, LAMBDA b : Ptr(b) = o.ptr)]
        i == FirstFit(blocks, size)
    IN  \/ /\ old.size >= size
           /\ owned' = (owned \ {o}) \union {[o EXCEPT !.size = size]}
           /\ UNCHANGED blocks
        \/ /\ old.size < size /\ i # 0
           /\ blocks' = Released(Allocated(blocks, size), o.ptr)
           /\ owned' = (owned \ {o}) \union {[ptr |-> Ptr(blocks[i]), size |-> size]}

HeapNext ==
    \E size \in Sizes : kmalloc(size) \/ \E o \in owned : kfree(o) \/ krealloc(o, size)

-----------------------------------------------------------------------------
(* The blocks tile the heap: each begins where the one before it ends, the *)
(* last ends with the heap, and no two free ones are neighbours, so that   *)
(* splitting and coalescing lose nothing.  What kmalloc and krealloc gave  *)
(* out is a block of its own that is large enough, and every block in use  *)
(* was given out.                                                          *)
HeapTiles ==
    LET n == Len(blocks)
        End(i) == Ptr(blocks[i]) + blocks[i].size
        used == {blocks[i] : i \in {j \in 1 .. n : ~blocks[j].free}}
    IN  /\ blocks[1].at = 0 /\ End(n) = HeapSize
        /\ \A i \in 1 .. n : blocks[i].size >= 0
        /\ \A i \in 1 .. n - 1 :
               blocks[i + 1].at = End(i) /\ ~(blocks[i].free /\ blocks[i + 1].free)
        /\ {Ptr(b) : b \in used} = {o.ptr : o \in owned}
        /\ \A o, p \in owned : o.ptr = p.ptr => o = p
        /\ \A o \in owned, b \in used : Ptr(b) = o.ptr => b.size >= o.size
=============================================================================

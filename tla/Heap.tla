-------------------------------- MODULE Heap ---------------------------------
(***************************************************************************)
(* The kernel heap of src/mm/pmm.c: malloc, calloc, free and page_alloc    *)
(* over the region that memory_init chose (MemoryMap), a linked list of    *)
(* blocks with a header each.  All three run under one spinlock with       *)
(* interrupts off.  malloc and page_alloc are one step each; free is one   *)
(* step per turn of its loop, during which no other call gets in.          *)
(*                                                                         *)
(* A header is kept at its address, with the size and the pointer it       *)
(* holds; that the blocks tile the region and that the list is in the      *)
(* order of addresses are properties.                                      *)
(***************************************************************************)
EXTENDS MemoryMap

CONSTANTS
    HeaderSize,          \* sizeof(heap_block_t), 24
    Grain,               \* sizes are rounded up to a multiple of it, 8
    MinTail,             \* smallest payload worth splitting off, 16
    PageSize,            \* 4096
    Sizes,               \* arguments of malloc
    PageCounts,          \* arguments of page_alloc
    Null                 \* no block

ASSUME HeapAssumption ==
    /\ HeaderSize \in Nat \ {0} /\ Grain \in Nat \ {0} /\ MinTail \in Nat \ {0}
    /\ PageSize \in Nat \ {0} /\ HeaderSize + MinTail <= PageSize
    /\ Sizes \subseteq Nat /\ PageCounts \subseteq Nat
    /\ Null \notin Nat

VARIABLES
    hdr,   \* the headers of the blocks, by address
    head,  \* first block of the list
    curr,  \* how far the loop of free got; Null when nobody is in free
    held   \* (history) what the callers hold: pointer, requested size, kind

heapVars == <<hdr, head, curr, held>>

vars == <<mapVars, heapVars>>

Block(s, n, f) == [size |-> s, next |-> n, free |-> f]

\* The headers h with block b written at address a.
With(h, a, b) == [x \in DOMAIN h \cup {a} |-> IF x = a THEN b ELSE h[x]]

Init ==
    /\ MapInit
    /\ hdr = [a \in {} |-> Null] /\ head = Null /\ curr = Null
    /\ held = {}

\* The end of memory_init: one free block.  A machine whose largest region does
\* not hold a header is not modelled.
MemoryInit ==
    /\ SearchEnd
    /\ heap'.size > HeaderSize
    /\ head' = heap'.base
    /\ hdr' = [a \in {heap'.base} |-> Block(heap'.size - HeaderSize, Null, TRUE)]
    /\ UNCHANGED <<curr, held>>

\* The pointer handed out for the block at a, and the first address after it.
Payload(a) == a + HeaderSize
End(h, a) == Payload(a) + h[a].size

\* (mutant) sizes are rounded down
Round_Down(n) == (n \div Grain) * Grain

Round(n) == ((n + Grain - 1) \div Grain) * Grain

\* The headers h with block a cut after n bytes into two, free as f and g say.
Split(h, a, n, f, g) ==
    With(With(h, Payload(a) + n, Block(h[a].size - n - HeaderSize, h[a].next, g)),
         a, Block(n, Payload(a) + n, f))

\* The headers h after block a was taken for n bytes: what is left over becomes
\* a free block of its own when it is large enough.
Trim(h, a, n) ==
    IF h[a].size >= n + HeaderSize + MinTail THEN Split(h, a, n, FALSE, TRUE)
    ELSE With(h, a, Block(h[a].size, h[a].next, FALSE))

\* The walk along the list stops at the first block among those that fit, the
\* one with the lowest address (BlocksTileHeap).
FirstFit(a, fits) == a \in fits /\ \A b \in fits : a <= b

\* malloc (and calloc, which zeroes the block it got).
Malloc(n) ==
    /\ phase = "done" /\ curr = Null
    /\ n # 0
    /\ LET fits == {a \in DOMAIN hdr : hdr[a].free /\ hdr[a].size >= Round(n)}
       IN \E a \in fits :
            /\ FirstFit(a, fits)
            /\ hdr' = Trim(hdr, a, Round(n))
            /\ held' = held \cup {[ptr |-> Payload(a), size |-> n, page |-> FALSE]}
    /\ UNCHANGED <<head, curr, mapVars>>

\* The first page boundary in block a that leaves either no gap or a whole block
\* before it.
PageStart(a) ==
    LET aligned == ((Payload(a) + PageSize - 1) \div PageSize) * PageSize
        padding == aligned - Payload(a)
    IN IF padding # 0 /\ padding < HeaderSize + MinTail
       THEN aligned + PageSize ELSE aligned

\* The block whose payload is at PageStart(a), and the headers with the gap
\* before it cut off as a free block.
PageBlock(a) == PageStart(a) - HeaderSize

Pad(a) ==
    LET padding == PageStart(a) - Payload(a)
    IN IF padding >= HeaderSize + MinTail
       THEN Split(hdr, a, padding - HeaderSize, TRUE, FALSE) ELSE hdr

\* page_alloc.
PageAlloc(pages) ==
    /\ curr = Null
    /\ LET n == PageSize * pages
           fits == {a \in DOMAIN hdr :
                      hdr[a].free /\ hdr[a].size >= n + (PageStart(a) - Payload(a))}
       IN \E a \in fits :
            /\ FirstFit(a, fits)
            /\ hdr' = Trim(Pad(a), PageBlock(a), n)
            /\ held' = held \cup {[ptr |-> PageStart(a), size |-> n, page |-> TRUE]}
    /\ UNCHANGED <<head, curr, mapVars>>

\* free, of a pointer the caller holds, takes the lock and marks the block.
Free(h) ==
    /\ curr = Null
    /\ held' = held \ {h}
    /\ hdr' = [hdr EXCEPT ![h.ptr - HeaderSize].free = TRUE]
    /\ curr' = head
    /\ UNCHANGED <<head, mapVars>>

\* (mutant) the header of the swallowed block is not counted
Swallow_NoHeader(a) ==
    LET b == hdr[a].next IN
    [x \in DOMAIN hdr \ {b} |->
        IF x = a THEN Block(hdr[a].size + hdr[b].size, hdr[b].next, TRUE)
        ELSE hdr[x]]

\* The headers after free block a swallowed the one behind it.
Swallow(a) ==
    LET b == hdr[a].next IN
    [x \in DOMAIN hdr \ {b} |->
        IF x = a THEN Block(hdr[a].size + HeaderSize + hdr[b].size, hdr[b].next, TRUE)
        ELSE hdr[x]]

\* Block a and the one behind it are free.
FreePair(h, a) ==
    h[a].free /\ h[a].next # Null /\ h[h[a].next].free

\* One turn of the loop of free over the whole list; the last one unlocks.
FreeStep ==
    /\ curr # Null
    /\ \/ FreePair(hdr, curr) /\ hdr' = Swallow(curr) /\ UNCHANGED curr
       \/ ~FreePair(hdr, curr) /\ curr' = hdr[curr].next /\ UNCHANGED hdr
    /\ UNCHANGED <<head, held, mapVars>>

Next ==
    \/ BootStep /\ UNCHANGED heapVars
    \/ MemoryInit
    \/ \E n \in Sizes : Malloc(n)
    \/ \E p \in PageCounts : PageAlloc(p)
    \/ \E h \in held : Free(h)
    \/ FreeStep

Spec == Init /\ [][Next]_vars

-----------------------------------------------------------------------------
(* Properties. *)

\* The list tiles the region: it begins with the region, each block points to
\* the one at its end, the last one ends with the region and no header lies
\* inside another block, whatever was split, padded and merged.  Between two
\* calls no two free blocks lie side by side, so when everything is freed the
\* heap is one block again.
BlocksTileHeap ==
    phase = "done" =>
        /\ head = heap.base /\ head \in DOMAIN hdr
        /\ \A a \in DOMAIN hdr :
              /\ head <= a
              /\ IF hdr[a].next = Null THEN End(hdr, a) = heap.base + heap.size
                 ELSE hdr[a].next = End(hdr, a) /\ End(hdr, a) \in DOMAIN hdr
              /\ \A b \in DOMAIN hdr : a < b => End(hdr, a) <= b
        /\ curr = Null => \A a \in DOMAIN hdr : ~FreePair(hdr, a)

\* Every pointer handed out and not freed is the payload of a used block large
\* enough for the request, and every used block is held by exactly one caller:
\* two callers never share memory and no block is lost.  What page_alloc hands
\* out is page-aligned.
HeldMatchesUsed ==
    /\ \A h \in held : \E a \in DOMAIN hdr :
          /\ h.ptr = Payload(a) /\ ~hdr[a].free /\ hdr[a].size >= h.size
          /\ h.page => \E k \in 0..h.ptr : h.ptr = k * PageSize
    /\ \A a \in DOMAIN hdr : ~hdr[a].free => \E h \in held : h.ptr = Payload(a)
    /\ \A g, h \in held : g.ptr = h.ptr => g = h

\* What a caller of malloc or page_alloc holds, and the header in front of it, is
\* memory the firmware called usable, is no part of a boot module unless the map
\* overflowed, and no part of the kernel unless the chosen region ends before the
\* kernel does.
HeldMemoryIsFree ==
    \A h \in held :
        LET memory == Interval(h.ptr - HeaderSize, h.ptr + h.size)
        IN /\ memory \subseteq original
           /\ ~full => memory \cap reserved = {}
           /\ EndOf([addr |-> largest.base, len |-> largest.size]) > KernelEnd
                => memory \cap Interval(KernelBase, KernelEnd) = {}
=============================================================================

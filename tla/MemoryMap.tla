------------------------------ MODULE MemoryMap ------------------------------
(***************************************************************************)
(* The physical memory map at boot (src/mm/pmm.c): the firmware's entries, *)
(* memory_reserve_range for the boot modules (initramfs, font) and the     *)
(* choice of the heap region by memory_init.  kmain runs these in order on *)
(* one CPU; one step is one turn of a loop.  Heap goes on from here.       *)
(***************************************************************************)
EXTENDS Integers, Sequences

CONSTANTS
    MapMax,                \* entries kernel_memory_map can hold, 64
    Firmware,              \* memory maps the boot loader may hand over
    Modules,               \* ranges the boot modules may occupy
    MaxModules,            \* boot modules kmain reserves, 2
    KernelBase, KernelEnd  \* the kernel image; its end is kernel_end_phys

\* An entry of kernel_memory_map; type 1 is usable memory.
Entries == [addr : Nat, len : Nat, type : Nat]

ASSUME MemoryMapAssumption ==
    /\ MapMax \in Nat /\ MaxModules \in Nat
    /\ Firmware \subseteq Seq(Entries)
    /\ Modules \subseteq [start : Nat, end : Nat]
    /\ KernelBase \in Nat /\ KernelEnd \in Nat

VARIABLES
    map,       \* kernel_memory_map
    count,     \* memory_map_count
    i,         \* loop index
    rs, re,    \* the range being reserved
    phase,     \* boot, reserve, search, done (pmm_initialized)
    largest,   \* largest_free_base and largest_free_size
    heap,      \* the heap region
    reserved,  \* (history) addresses of the modules reserved so far
    original,  \* (history) what the firmware called usable
    modules,   \* how many modules were handled
    full       \* (history) a reservation failed because the map was full

mapVars == <<map, count, i, rs, re, phase, largest, heap, reserved, original,
             modules, full>>

Interval(a, b) == a..(b - 1)

EndOf(e) == e.addr + e.len

\* Addresses the first n entries of m call usable.
Usable(m, n) == UNION {Interval(m[k].addr, EndOf(m[k])) : k \in {j \in 1..n : m[j].type = 1}}

\* memory_init_base copied at most MapMax entries of the firmware's map into the
\* array, which the kernel image holds zeroed.
MapInit ==
    /\ \E f \in Firmware :
          /\ count = IF Len(f) < MapMax THEN Len(f) ELSE MapMax
          /\ map = [k \in 1..MapMax |-> IF k <= Len(f) THEN f[k]
                                        ELSE [addr |-> 0, len |-> 0, type |-> 0]]
    /\ i = 1 /\ rs = 0 /\ re = 0
    /\ phase = "boot"
    /\ largest = [base |-> 0, size |-> 0]
    /\ heap = [base |-> 0, size |-> 0]
    /\ reserved = {}
    /\ original = Usable(map, count)
    /\ modules = 0
    /\ full = FALSE

\* kmain calls memory_reserve_range for a module; an empty range is done at once.
ReserveBegin(m) ==
    /\ phase = "boot" /\ modules < MaxModules
    /\ modules' = modules + 1
    /\ IF m.start >= m.end THEN UNCHANGED <<phase, i, rs, re, reserved>>
       ELSE /\ phase' = "reserve" /\ i' = 1 /\ rs' = m.start /\ re' = m.end
            /\ reserved' = reserved \cup Interval(m.start, m.end)
    /\ UNCHANGED <<map, count, largest, heap, original, full>>

\* The range touches the usable entry e; it lies strictly inside it.
Overlaps(e) == e.type = 1 /\ re > e.addr /\ rs < EndOf(e)

\* (mutant) a range strictly inside an entry cuts off everything after it
Inside_Never(e) == FALSE

Inside(e) == Overlaps(e) /\ rs > e.addr /\ re < EndOf(e)

\* What stays in the place of entry e when [rs, re) is taken out of it, and what
\* is left of it after a range strictly inside.
Carve(e) ==
    IF ~Overlaps(e) THEN e
    ELSE IF rs <= e.addr /\ re >= EndOf(e) THEN [e EXCEPT !.type = 2]
    ELSE IF rs <= e.addr THEN [e EXCEPT !.addr = re, !.len = EndOf(e) - re]
    ELSE [e EXCEPT !.len = rs - e.addr]

Rest(e) == [addr |-> re, len |-> EndOf(e) - re, type |-> 1]

\* One turn of the loop of memory_reserve_range.  The part after the range goes
\* to the end of the map; without room the function gives up.
ReserveStep ==
    /\ phase = "reserve" /\ i <= count
    /\ \/ /\ ~Inside(map[i])
          /\ map' = [map EXCEPT ![i] = Carve(map[i])]
          /\ i' = i + 1
          /\ UNCHANGED <<count, phase, full>>
       \/ /\ Inside(map[i]) /\ count < MapMax
          /\ map' = [map EXCEPT ![i] = Carve(map[i]), ![count + 1] = Rest(map[i])]
          /\ count' = count + 1 /\ i' = i + 1
          /\ UNCHANGED <<phase, full>>
       \/ /\ Inside(map[i]) /\ count >= MapMax
          /\ phase' = "boot" /\ full' = TRUE
          /\ UNCHANGED <<map, count, i>>
    /\ UNCHANGED <<rs, re, largest, heap, reserved, original, modules>>

ReserveEnd ==
    /\ phase = "reserve" /\ i > count
    /\ phase' = "boot"
    /\ UNCHANGED <<map, count, i, rs, re, largest, heap, reserved, original, modules, full>>

\* memory_init begins.
SearchBegin ==
    /\ phase = "boot"
    /\ phase' = "search" /\ i' = 1
    /\ UNCHANGED <<map, count, rs, re, largest, heap, reserved, original, modules, full>>

\* (mutant) the type of the entry is not looked at
SearchStep_AnyType ==
    /\ phase = "search" /\ i <= count
    /\ largest' = IF map[i].len > largest.size
                  THEN [base |-> map[i].addr, size |-> map[i].len] ELSE largest
    /\ i' = i + 1
    /\ UNCHANGED <<map, count, rs, re, phase, heap, reserved, original, modules, full>>

\* The largest usable entry is looked for.
SearchStep ==
    /\ phase = "search" /\ i <= count
    /\ largest' = IF map[i].type = 1 /\ map[i].len > largest.size
                  THEN [base |-> map[i].addr, size |-> map[i].len] ELSE largest
    /\ i' = i + 1
    /\ UNCHANGED <<map, count, rs, re, phase, heap, reserved, original, modules, full>>

\* The heap starts behind the kernel when the region contains the kernel's end.
SearchEnd ==
    /\ phase = "search" /\ i > count
    /\ phase' = "done"
    /\ heap' = IF largest.base < KernelEnd /\ largest.base + largest.size > KernelEnd
               THEN [base |-> KernelEnd,
                     size |-> largest.size - (KernelEnd - largest.base)]
               ELSE largest
    /\ UNCHANGED <<map, count, i, rs, re, largest, reserved, original, modules, full>>

\* What kmain does before there is a heap.
BootStep ==
    \/ \E m \in Modules : ReserveBegin(m)
    \/ ReserveStep \/ ReserveEnd
    \/ SearchBegin \/ SearchStep

-----------------------------------------------------------------------------
(* Properties. *)

\* The map after memory_reserve_range has exactly the firmware's usable memory
\* minus the reserved ranges, however ranges and entries overlap, nest or touch;
\* when the map overflowed it may have kept reserved memory but lost none.
ReservedExactly ==
    phase # "reserve" =>
        /\ ~full => Usable(map, count) = original \ reserved
        /\ original \ reserved \subseteq Usable(map, count)
        /\ Usable(map, count) \subseteq original
=============================================================================

---------------------------- MODULE AddressSpace ----------------------------
(***************************************************************************)
(* Who owns which physical page: src/mm/vmm.c with the callers that build  *)
(* and tear down user address spaces (brk, mmap and munmap in              *)
(* linux/memory.c, process_clone, process_terminate and process_replace in *)
(* process.c, elf_prepare and elf_start in elf.c).                         *)
(*                                                                         *)
(* Addresses are page numbers; the user half is 0..UserTop-1.  The system  *)
(* calls test no address: what they do to the kernel half is followed only *)
(* in the memory it takes (KernelTable), and no further once the kernel    *)
(* itself is hit (KernelDisturbed).  The four                              *)
(* levels of tables are reduced to a root and one table per region.  A     *)
(* process has one thread and its system calls run with interrupts off, so *)
(* processes meet only in the allocator: one step per allocation and the   *)
(* page it serves.  The heap is shared with the rest of the kernel: any    *)
(* allocation may fail.                                                    *)
(***************************************************************************)
EXTENDS Integers, Sequences, Functions

CONSTANTS
    Frames,      \* pages of the kernel heap, numbered
    Procs,       \* processes
    Root,        \* the process kmain starts, pid 1
    Kmain,       \* the boot thread, which calls elf_start
    Spaces,      \* address spaces: a live one each, and the ones being built
    None,        \* NULL
    Image,       \* the pages elf_load visits, in program header order
    ImageEnd,    \* first page after the image: brk_start
    HeapMax,     \* USER_HEAP_MAX
    MmapBase,    \* mmap_start
    StackLo, StackTop,  \* USER_STACK_TOP - USER_STACK_SIZE, USER_STACK_TOP
    UserTop,     \* end of the user half
    RegionSize,  \* pages served by one table
    Hints,       \* addr arguments of mmap, mprotect and munmap (None for NULL)
    MaxLength,   \* bound on the pages of one mmap, mprotect or munmap
    MaxBump      \* bound on mmap_current

Va == 0..(UserTop - 1)

\* pt_index drops the bits above the root's: the upper half of the page numbers
\* is the kernel half.
Page(a) == a % (2 * UserTop)

Region(va) == va \div RegionSize
Regions == {Region(va) : va \in Va}
StackPages == StackLo..(StackTop - 1)

ASSUME AddressSpaceAssumption ==
    /\ Frames \subseteq Nat /\ None \notin Frames \cup Spaces
    /\ Root \in Procs /\ Kmain \notin Procs
    /\ UserTop \in Nat /\ StackTop \in 1..UserTop /\ StackLo \in 0..(StackTop - 1)
    /\ RegionSize \in Nat \ {0} /\ MaxLength \in Nat /\ MaxBump \in Nat
    /\ Hints \subseteq Nat \cup {None}
    /\ ImageEnd \in Va /\ HeapMax \in Va /\ MmapBase \in Va
    /\ Image \in Seq(0..(ImageEnd - 1))

Actors == Procs \cup {Kmain}

VARIABLES
    used,      \* frames the allocator has handed out
    root, tab, map,  \* page tables: the root, one table per region, the leaves
    owned,     \* owned_pages
    stack,     \* thread->stacks.main->base: the frames of the user stack
    brk,       \* brk_current, in half pages
    bump,      \* mmap_current
    space,     \* the address space of a process
    new,       \* the one its system call is building
    pc,        \* where the thread of the process is
    at, goal,  \* loop variable of the system call and its argument
    block,     \* mmap: virt_block
    faulted,   \* the kernel wrote through an address derived from NULL, or a
               \* system call changed a page of the kernel's own
    \* history, which no step of the code depends on:
    anon,      \* mapped frames that are in no list
    stale,     \* pages a failed mmap left mapped
    holes,     \* pages the process unmapped itself
    leaked,    \* frames that will never be freed
    brkPages   \* frames handed out by grow_process_brk

heap    == <<used, leaked, brkPages>>
tables  == <<root, tab, map>>
history == <<anon, stale, holes>>
limits  == <<brk, bump>>
locals  == <<at, goal, block>>
vars    == <<heap, tables, owned, stack, limits, space, new, pc, locals, faulted, history>>

Locations == {"off", "user", "dead", "grow", "mmap", "clone", "cloneStack",
              "load", "loadFailed", "collect", "prepare", "stack", "commit"}

NoTables == [r \in Regions |-> None]
NoPages  == [va \in Va |-> None]

Init ==
    /\ used = {} /\ leaked = {} /\ brkPages = {}
    /\ root = [s \in Spaces |-> None]
    /\ tab = [s \in Spaces |-> NoTables]
    /\ map = [s \in Spaces |-> NoPages]
    /\ owned = [s \in Spaces |-> {}]
    /\ stack = [s \in Spaces |-> {}]
    /\ brk = [s \in Spaces |-> 2 * ImageEnd]
    /\ bump = [s \in Spaces |-> MmapBase]
    /\ space = [p \in Actors |-> None]
    /\ new = [p \in Actors |-> None]
    /\ pc = [p \in Actors |-> IF p = Kmain THEN "user" ELSE "off"]
    /\ at = [p \in Actors |-> 0]
    /\ goal = [p \in Actors |-> 0]
    /\ block = [p \in Actors |-> {}]
    /\ faulted = FALSE
    /\ anon = [s \in Spaces |-> {}]
    /\ stale = [s \in Spaces |-> {}]
    /\ holes = [s \in Spaces |-> {}]

-----------------------------------------------------------------------------
(* The allocator and the page tables. *)

Goto(p, from, to) == pc[p] = from /\ pc' = [pc EXCEPT ![p] = to]

\* The loop is over: its variables go out of scope.  kmain panics when init cannot start.
Return(p, from) ==
    /\ Goto(p, from, IF p = Kmain THEN "dead" ELSE "user")
    /\ at' = [at EXCEPT ![p] = 0]
    /\ goal' = [goal EXCEPT ![p] = 0]

\* page_alloc is first fit: the lowest run of n free pages.
FreeRuns(taken, n) ==
    {f \in Frames : f..(f + n - 1) \subseteq Frames \ taken}
FirstRun(taken, n) ==
    LET f == CHOOSE f \in FreeRuns(taken, n) : \A g \in FreeRuns(taken, n) : f <= g
    IN  f..(f + n - 1)
FirstFree(taken) == CHOOSE f \in Frames \ taken : \A g \in Frames \ taken : f <= g

\* The frames free_page_table returns: the tables, never the leaves.
TableFrames(s) == ({root[s]} \cup Range(tab[s])) \ {None}
Leaves(s) == Range(map[s]) \ {None}

\* map_page_4k maps va of s to f when the frames in taken are in use; a missing
\* table is allocated first.
MapPage(s, va, f, taken) ==
    /\ map' = [map EXCEPT ![s][va] = f]
    /\ stale' = [stale EXCEPT ![s] = @ \ {va}]
    /\ holes' = [holes EXCEPT ![s] = @ \ {va}]
    /\ UNCHANGED root
    /\ \/ /\ tab[s][Region(va)] # None
          /\ used' = taken
          /\ UNCHANGED tab
       \/ /\ tab[s][Region(va)] = None
          /\ FreeRuns(taken, 1) # {}
          /\ used' = taken \cup {FirstFree(taken)}
          /\ tab' = [tab EXCEPT ![s][Region(va)] = FirstFree(taken)]

\* map_page_4k finds no memory for a table.
MapFails(s, va) == tab[s][Region(va)] = None

\* free_page_table and free of the frames freed; lost is what nobody can free
\* from now on.
TearDown(s, freed, lost) ==
    /\ used' = used \ freed
    /\ leaked' = leaked \cup lost
    /\ brkPages' = brkPages \ freed
    /\ root' = [root EXCEPT ![s] = None]
    /\ tab' = [tab EXCEPT ![s] = NoTables]
    /\ map' = [map EXCEPT ![s] = NoPages]
    /\ owned' = [owned EXCEPT ![s] = {}]
    /\ anon' = [anon EXCEPT ![s] = {}]
    /\ stale' = [stale EXCEPT ![s] = {}]
    /\ holes' = [holes EXCEPT ![s] = {}]

-----------------------------------------------------------------------------
(* brk, mmap, munmap. *)

PageAlignUp(b) == (b + 1) \div 2

\* A request that needs no page, or gives some up: they stay mapped and owned.
BrkMoves(p, b) ==
    LET s == space[p] IN
    /\ pc[p] = "user" /\ s # None
    /\ b >= 2 * ImageEnd /\ b < 2 * HeapMax
    /\ PageAlignUp(b) <= PageAlignUp(brk[s])
    /\ brk' = [brk EXCEPT ![s] = b]
    /\ UNCHANGED <<heap, tables, owned, stack, bump, space, new, pc, locals, faulted, history>>

BrkBegins(p, b) ==
    LET s == space[p] IN
    /\ s # None
    /\ Goto(p, "user", "grow")
    /\ b < 2 * HeapMax
    /\ PageAlignUp(b) > PageAlignUp(brk[s])
    /\ at' = [at EXCEPT ![p] = PageAlignUp(brk[s])]
    /\ goal' = [goal EXCEPT ![p] = b]
    /\ UNCHANGED <<heap, tables, owned, stack, limits, space, new, block, faulted, history>>

\* One page of grow_process_brk.
GrowPage(p) ==
    LET s == space[p]  f == FirstFree(used) IN
    /\ pc[p] = "grow" /\ at[p] < PageAlignUp(goal[p])
    /\ FreeRuns(used, 1) # {}
    /\ MapPage(s, at[p], f, used \cup {f})
    /\ brkPages' = brkPages \cup {f}
    /\ owned' = [owned EXCEPT ![s] = @ \cup {f}]
    /\ at' = [at EXCEPT ![p] = @ + 1]
    /\ UNCHANGED <<leaked, stack, limits, space, new, pc, goal, block, faulted, anon>>

\* The page is mapped, then owned_pages cannot grow.
GrowUnlisted(p) ==
    LET s == space[p]  f == FirstFree(used) IN
    /\ at[p] < PageAlignUp(goal[p])
    /\ Return(p, "grow")
    /\ FreeRuns(used, 1) # {}
    /\ MapPage(s, at[p], f, used \cup {f})
    /\ brkPages' = brkPages \cup {f}
    /\ anon' = [anon EXCEPT ![s] = @ \cup {f}]
    /\ UNCHANGED <<leaked, owned, stack, limits, space, new, block, faulted>>

\* (mutant) the break moves although the pages are not all there
GrowFails_MovesBreak(p) ==
    /\ at[p] < PageAlignUp(goal[p])
    /\ Return(p, "grow")
    /\ brk' = [brk EXCEPT ![space[p]] = goal[p]]
    /\ UNCHANGED <<heap, tables, owned, stack, bump, space, new, block, faulted, history>>

\* No page, or no table for it: the pages mapped so far stay, the break does not move.
GrowFails(p) ==
    /\ at[p] < PageAlignUp(goal[p])
    /\ Return(p, "grow")
    /\ UNCHANGED <<heap, tables, owned, stack, limits, space, new, block, faulted, history>>

GrowEnds(p) ==
    /\ at[p] = PageAlignUp(goal[p])
    /\ Return(p, "grow")
    /\ brk' = [brk EXCEPT ![space[p]] = goal[p]]
    /\ UNCHANGED <<heap, tables, owned, stack, bump, space, new, block, faulted, history>>

\* The target is addr, or the next free address; n pages are allocated in one
\* block.  A length that wraps to 0 asks for none.
MmapBegins(p, addr, n) ==
    LET s == space[p]
        target == IF addr = None THEN bump[s] ELSE addr
    IN
    /\ s # None
    /\ Goto(p, "user", "mmap")
    /\ bump' = [bump EXCEPT ![s] = IF addr = None THEN @ + n ELSE @]
    /\ bump'[s] <= MaxBump
    /\ FreeRuns(used, n) # {}
    /\ block' = [block EXCEPT ![p] = FirstRun(used, n)]
    /\ used' = used \cup FirstRun(used, n)
    /\ at' = [at EXCEPT ![p] = target]
    /\ goal' = [goal EXCEPT ![p] = target + n]
    /\ UNCHANGED <<leaked, brkPages, tables, owned, stack, brk, space, new, faulted, history>>

\* No block, or a bad descriptor: mmap_current has moved all the same.
MmapRefused(p, n) ==
    LET s == space[p] IN
    /\ pc[p] = "user" /\ s # None
    /\ bump[s] + n <= MaxBump
    /\ bump' = [bump EXCEPT ![s] = @ + n]
    /\ UNCHANGED <<heap, tables, owned, stack, brk, space, new, pc, locals, faulted, history>>

\* The frame of the block that belongs at page at[p].
BlockFrame(p) ==
    CHOOSE f \in block[p] : \E g \in block[p] :
        /\ \A h \in block[p] : h <= g
        /\ f + goal[p] = g + 1 + at[p]

MmapPage(p) ==
    /\ pc[p] = "mmap" /\ at[p] < goal[p]
    /\ at' = [at EXCEPT ![p] = @ + 1]
    /\ \/ /\ Page(at[p]) \in Va
          /\ MapPage(space[p], Page(at[p]), BlockFrame(p), used)
       \/ /\ Page(at[p]) \notin Va
          /\ UNCHANGED <<used, tables, stale, holes>>
    /\ UNCHANGED <<leaked, brkPages, owned, stack, limits, space, new, pc, goal, block, faulted, anon>>

\* (mutant) the block of a failed mmap is not freed
MmapFails_KeepsBlock(p) ==
    LET s == space[p]
    IN
    /\ Return(p, "mmap")
    /\ at[p] < goal[p]
    /\ Page(at[p]) \in Va => MapFails(s, Page(at[p]))
    /\ stale' = [stale EXCEPT ![s] = @ \cup {va \in Va : map[s][va] \in block[p]}]
    /\ block' = [block EXCEPT ![p] = {}]
    /\ UNCHANGED <<heap, tables, owned, stack, limits, space, new, faulted, anon, holes>>

\* No memory for a table: the block is freed, the pages mapped so far are not unmapped.
MmapFails(p) ==
    LET s == space[p]
    IN
    /\ Return(p, "mmap")
    /\ at[p] < goal[p]
    /\ Page(at[p]) \in Va => MapFails(s, Page(at[p]))
    /\ used' = used \ block[p]
    /\ stale' = [stale EXCEPT ![s] = @ \cup {va \in Va : map[s][va] \in block[p]}]
    /\ block' = [block EXCEPT ![p] = {}]
    /\ UNCHANGED <<leaked, brkPages, tables, owned, stack, limits, space, new, faulted, anon, holes>>

MmapEnds(p) ==
    /\ at[p] = goal[p]
    /\ Return(p, "mmap")
    /\ anon' = [anon EXCEPT ![space[p]] = @ \cup block[p]]
    /\ block' = [block EXCEPT ![p] = {}]
    /\ UNCHANGED <<heap, tables, owned, stack, limits, space, new, faulted, stale, holes>>

\* unmap_page_4k of every page: entries that are not there, or whose table is
\* not there, are skipped, and no table is freed.
UnmapPages(leaves, pages) == [va \in Va |-> IF va \in pages THEN None ELSE leaves[va]]

\* unmap_page_4k clears the leaves and frees nothing.  A call that fails at a
\* page of the kernel half is a shorter one.
Munmap(p, addr, n) ==
    LET s == space[p]
        pages == {Page(a) : a \in addr..(addr + n - 1)} \cap Va
    IN
    /\ pc[p] = "user" /\ s # None
    /\ map' = [map EXCEPT ![s] = UnmapPages(@, pages)]
    /\ stale' = [stale EXCEPT ![s] = @ \ pages]
    /\ holes' = [holes EXCEPT ![s] = @ \cup pages]
    /\ UNCHANGED <<heap, root, tab, owned, stack, limits, space, new, pc, locals, faulted, anon>>

\* The loop of mmap is at a page of the kernel half, or mprotect or munmap
\* reaches one.
AtKernelPage(p) ==
    \/ pc[p] = "mmap" /\ at[p] < goal[p] /\ Page(at[p]) \notin Va
    \/ /\ pc[p] = "user" /\ space[p] # None
       /\ \E addr \in Hints \ {None}, i \in 0..(MaxLength - 1) : Page(addr + i) \notin Va

\* One table of map_page_4k or split_leaf in the kernel half, which
\* free_page_table does not visit.
KernelTable(p) ==
    /\ AtKernelPage(p)
    /\ FreeRuns(used, 1) # {}
    /\ used' = used \cup {FirstFree(used)}
    /\ leaked' = leaked \cup {FirstFree(used)}
    /\ UNCHANGED <<brkPages, tables, owned, stack, limits, space, new, pc, locals, faulted, history>>

\* The page was one the kernel uses.
KernelDisturbed(p) ==
    /\ AtKernelPage(p)
    /\ faulted' = TRUE
    /\ UNCHANGED <<heap, tables, owned, stack, limits, space, new, pc, locals, history>>

-----------------------------------------------------------------------------
(* Building an address space for fork (process_clone), execve and spawn     *)
(* (elf_prepare).                                                           *)

\* clone_page_table: a root with an empty user half.
BuildBegins(p, s, loc) ==
    /\ Goto(p, "user", loc)
    /\ root[s] = None /\ stack[s] = {}
    /\ \A q \in Actors : space[q] # s
    /\ FreeRuns(used, 1) # {}
    /\ root' = [root EXCEPT ![s] = FirstFree(used)]
    /\ used' = used \cup {FirstFree(used)}
    /\ new' = [new EXCEPT ![p] = s]
    /\ UNCHANGED <<leaked, brkPages, tab, map, owned, stack, limits, space, locals, faulted, history>>

\* Any allocation of process_clone, elf_prepare or, under elf_start, of
\* process_create fails: the tables, the listed pages and the stack are freed.
BuildFails(p) ==
    LET s == new[p] IN
    /\ pc[p] \in {"clone", "cloneStack", "prepare", "stack", "commit"}
    /\ Return(p, pc[p])
    /\ TearDown(s, TableFrames(s) \cup owned[s] \cup stack[s], anon[s])
    /\ stack' = [stack EXCEPT ![s] = {}]
    /\ new' = [new EXCEPT ![p] = None]
    /\ UNCHANGED <<limits, space, block, faulted>>

CloneBegins(p, s) == space[p] # None /\ BuildBegins(p, s, "clone")

\* The table of the region at[p] starts exists in the parent and is not wholly
\* inside the stack.
RegionCopied(p) ==
    LET pages == {va \in Va : Region(va) = Region(at[p])} IN
    tab[space[p]][Region(at[p])] # None /\ ~(pages \subseteq StackPages)

\* clone_user_level allocates a table before it descends.
CloneTable(p) ==
    LET s == new[p] IN
    /\ pc[p] = "clone" /\ at[p] < UserTop
    /\ RegionCopied(p) /\ tab[s][Region(at[p])] = None
    /\ FreeRuns(used, 1) # {}
    /\ used' = used \cup {FirstFree(used)}
    /\ tab' = [tab EXCEPT ![s][Region(at[p])] = FirstFree(used)]
    /\ UNCHANGED <<leaked, brkPages, root, map, owned, stack, limits, space, new, pc, locals, faulted, history>>

\* The page at[p] of the parent is copied.
PageCopied(p) ==
    RegionCopied(p) /\ map[space[p]][at[p]] # None /\ at[p] \notin StackPages

\* (mutant) the child's entry keeps the physical address of the parent's
ClonePage_SameFrame(p) ==
    LET s == new[p]  f == FirstFree(used) IN
    /\ pc[p] = "clone" /\ at[p] < UserTop
    /\ PageCopied(p) /\ tab[s][Region(at[p])] # None
    /\ FreeRuns(used, 1) # {}
    /\ used' = used \cup {f}
    /\ map' = [map EXCEPT ![s][at[p]] = map[space[p]][at[p]]]
    /\ owned' = [owned EXCEPT ![s] = @ \cup {f}]
    /\ at' = [at EXCEPT ![p] = @ + 1]
    /\ UNCHANGED <<leaked, brkPages, root, tab, stack, limits, space, new, pc, goal, block, faulted, history>>

ClonePage(p) ==
    LET s == new[p]  f == FirstFree(used) IN
    /\ pc[p] = "clone" /\ at[p] < UserTop
    /\ PageCopied(p) /\ tab[s][Region(at[p])] # None
    /\ FreeRuns(used, 1) # {}
    /\ used' = used \cup {f}
    /\ map' = [map EXCEPT ![s][at[p]] = f]
    /\ owned' = [owned EXCEPT ![s] = @ \cup {f}]
    /\ at' = [at EXCEPT ![p] = @ + 1]
    /\ UNCHANGED <<leaked, brkPages, root, tab, stack, limits, space, new, pc, goal, block, faulted, history>>

CloneSkips(p) ==
    /\ pc[p] = "clone" /\ at[p] < UserTop
    /\ ~PageCopied(p)
    /\ RegionCopied(p) => tab[new[p]][Region(at[p])] # None
    /\ at' = [at EXCEPT ![p] = @ + 1]
    /\ UNCHANGED <<heap, tables, owned, stack, limits, space, new, pc, goal, block, faulted, history>>

\* page_alloc of the user stack, by process_clone or elf_prepare.
StackAlloc(p, from, to) ==
    LET n == StackTop - StackLo IN
    /\ Goto(p, from, to)
    /\ FreeRuns(used, n) # {}
    /\ stack' = [stack EXCEPT ![new[p]] = FirstRun(used, n)]
    /\ used' = used \cup FirstRun(used, n)
    /\ at' = [at EXCEPT ![p] = StackLo]
    /\ goal' = [goal EXCEPT ![p] = StackTop]
    /\ UNCHANGED <<leaked, brkPages, tables, owned, limits, space, new, block, faulted, history>>

CloneStack(p) == at[p] = UserTop /\ StackAlloc(p, "clone", "cloneStack")

\* The frame of the stack block at page at[p].
StackFrame(p) ==
    LET b == stack[new[p]]
        low == CHOOSE f \in b : \A g \in b : f <= g
    IN  low + (at[p] - StackLo)

StackPage(p) ==
    /\ pc[p] \in {"cloneStack", "stack"} /\ at[p] < StackTop
    /\ MapPage(new[p], at[p], StackFrame(p), used)
    /\ at' = [at EXCEPT ![p] = @ + 1]
    /\ UNCHANGED <<leaked, brkPages, owned, stack, limits, space, new, pc, goal, block, faulted, anon>>

\* The child is complete: it inherits the break and is enqueued.
CloneEnds(p, q) ==
    LET s == new[p] IN
    /\ pc[p] = "cloneStack" /\ at[p] = StackTop
    /\ pc[q] = "off"
    /\ pc' = [pc EXCEPT ![p] = "user", ![q] = "user"]
    /\ space' = [space EXCEPT ![q] = s]
    /\ new' = [new EXCEPT ![p] = None]
    /\ brk' = [brk EXCEPT ![s] = brk[space[p]]]
    /\ bump' = [bump EXCEPT ![s] = bump[space[p]]]
    /\ holes' = [holes EXCEPT ![s] = holes[space[p]]]
    /\ at' = [at EXCEPT ![p] = 0]
    /\ goal' = [goal EXCEPT ![p] = 0]
    /\ UNCHANGED <<heap, tables, owned, stack, block, faulted, anon, stale>>

-----------------------------------------------------------------------------
(* execve, spawn, the start of init; exit. *)

\* elf_load visits Image[at + 1] next.
LoadBegins(p, s) == BuildBegins(p, s, "load")
NextPage(p) == Image[at[p] + 1]

\* A page an earlier segment already mapped is reused.
LoadShared(p) ==
    /\ pc[p] = "load" /\ at[p] < Len(Image)
    /\ map[new[p]][NextPage(p)] # None
    /\ at' = [at EXCEPT ![p] = @ + 1]
    /\ UNCHANGED <<heap, tables, owned, stack, limits, space, new, pc, goal, block, faulted, history>>

LoadPage(p) ==
    LET s == new[p]  f == FirstFree(used) IN
    /\ pc[p] = "load" /\ at[p] < Len(Image)
    /\ map[s][NextPage(p)] = None
    /\ FreeRuns(used, 1) # {}
    /\ MapPage(s, NextPage(p), f, used \cup {f})
    /\ anon' = [anon EXCEPT ![s] = @ \cup {f}]
    /\ at' = [at EXCEPT ![p] = @ + 1]
    /\ UNCHANGED <<leaked, brkPages, owned, stack, limits, space, new, pc, goal, block, faulted>>

\* pt_pool_alloc returned NULL, whose "physical address" is not 0: the page at
\* NULL is cleared.
LoadFaults(p) ==
    /\ pc[p] = "load" /\ at[p] < Len(Image)
    /\ map[new[p]][NextPage(p)] = None
    /\ faulted' = TRUE
    /\ UNCHANGED <<heap, tables, owned, stack, limits, space, new, pc, locals, history>>

\* No table for the page just allocated: elf_load drops its address.
LoadMapFails(p) ==
    /\ Goto(p, "load", "loadFailed")
    /\ at[p] < Len(Image)
    /\ map[new[p]][NextPage(p)] = None /\ MapFails(new[p], NextPage(p))
    /\ FreeRuns(used, 1) # {}
    /\ used' = used \cup {FirstFree(used)}
    /\ leaked' = leaked \cup {FirstFree(used)}
    /\ UNCHANGED <<brkPages, tables, owned, stack, limits, space, new, locals, faulted, history>>

\* A damaged program header, relocation or interpreter.
LoadRejects(p) ==
    /\ Goto(p, "load", "loadFailed")
    /\ UNCHANGED <<heap, tables, owned, stack, limits, space, new, locals, faulted, history>>

\* elf_prepare collects what was loaded and frees it; if the list cannot grow,
\* the pages are lost with it.
LoadFailed(p) ==
    LET s == new[p] IN
    /\ Return(p, "loadFailed")
    /\ \/ TearDown(s, TableFrames(s) \cup Leaves(s), {})
       \/ Leaves(s) # {} /\ TearDown(s, TableFrames(s), anon[s])
    /\ new' = [new EXCEPT ![p] = None]
    /\ UNCHANGED <<stack, limits, space, block, faulted>>

LoadEnds(p) ==
    /\ Goto(p, "load", "collect")
    /\ at[p] = Len(Image)
    /\ UNCHANGED <<heap, tables, owned, stack, limits, space, new, locals, faulted, history>>

\* vm_collect_user_pages into out->pages.
Collect(p) ==
    LET s == new[p] IN
    /\ Goto(p, "collect", "prepare")
    /\ owned' = [owned EXCEPT ![s] = Leaves(s)]
    /\ anon' = [anon EXCEPT ![s] = {}]
    /\ UNCHANGED <<heap, tables, stack, limits, space, new, locals, faulted, stale, holes>>

\* The list cannot grow when the pages below va are in it.
CollectFails(p, va) ==
    LET s == new[p]
        listed == {map[s][v] : v \in 0..(va - 1)} \ {None}
    IN
    /\ Return(p, "collect")
    /\ map[s][va] # None
    /\ TearDown(s, TableFrames(s) \cup listed, anon[s] \ listed)
    /\ new' = [new EXCEPT ![p] = None]
    /\ UNCHANGED <<stack, limits, space, block, faulted>>

PrepareStack(p) == StackAlloc(p, "prepare", "stack")

\* The stack is mapped and holds argv, envp and auxv.
PrepareEnds(p) ==
    /\ Goto(p, "stack", "commit")
    /\ at[p] = StackTop
    /\ UNCHANGED <<heap, tables, owned, stack, limits, space, new, locals, faulted, history>>

\* process_replace: the old tables, pages and stack are freed.
ExecCommits(p) ==
    LET old == space[p]  s == new[p] IN
    /\ old # None
    /\ Return(p, "commit")
    /\ TearDown(old, TableFrames(old) \cup owned[old] \cup stack[old], anon[old])
    /\ stack' = [stack EXCEPT ![old] = {}]
    /\ space' = [space EXCEPT ![p] = s]
    /\ new' = [new EXCEPT ![p] = None]
    /\ brk' = [brk EXCEPT ![s] = 2 * ImageEnd]
    /\ bump' = [bump EXCEPT ![s] = MmapBase]
    /\ UNCHANGED <<block, faulted>>

\* elf_start: process q gets what was prepared.  kmain starts Root and stops.
SpawnCommits(p, q) ==
    LET s == new[p] IN
    /\ pc[p] = "commit" /\ pc[q] = "off" /\ (p = Kmain) = (q = Root)
    /\ pc' = [pc EXCEPT ![p] = IF p = Kmain THEN "dead" ELSE "user", ![q] = "user"]
    /\ space' = [space EXCEPT ![q] = s]
    /\ new' = [new EXCEPT ![p] = None]
    /\ brk' = [brk EXCEPT ![s] = 2 * ImageEnd]
    /\ bump' = [bump EXCEPT ![s] = MmapBase]
    /\ at' = [at EXCEPT ![p] = 0]
    /\ goal' = [goal EXCEPT ![p] = 0]
    /\ UNCHANGED <<heap, tables, owned, stack, block, faulted, history>>

\* process_terminate; the user stack goes with the thread_t.
Exit(p) ==
    LET s == space[p] IN
    /\ p # Root /\ s # None
    /\ Goto(p, "user", "dead")
    /\ TearDown(s, TableFrames(s) \cup owned[s], anon[s])
    /\ UNCHANGED <<stack, limits, space, new, locals, faulted>>

\* scheduler_reap frees the stack of a dead thread.
Reap(p) ==
    LET s == space[p] IN
    /\ s # None
    /\ Goto(p, "dead", "off")
    /\ used' = used \ stack[s]
    /\ stack' = [stack EXCEPT ![s] = {}]
    /\ space' = [space EXCEPT ![p] = None]
    /\ UNCHANGED <<leaked, brkPages, tables, owned, limits, new, locals, faulted, history>>

\* The kernel has faulted, or panicked because init could not be started; what a
\* kernel does whose own pages were changed is not followed either.
Halted ==
    /\ faulted \/ (pc[Kmain] = "dead" /\ pc[Root] = "off")
    /\ UNCHANGED vars

\* The system calls of memory.c; mprotect changes rights only, in the user half.
Memory(p) ==
    \/ \E b \in (2 * ImageEnd)..(2 * HeapMax) : BrkMoves(p, b) \/ BrkBegins(p, b)
    \/ GrowPage(p) \/ GrowUnlisted(p) \/ GrowFails(p) \/ GrowEnds(p)
    \/ \E addr \in Hints, n \in 0..MaxLength : MmapBegins(p, addr, n)
    \/ \E n \in 0..MaxLength : MmapRefused(p, n)
    \/ MmapPage(p) \/ MmapFails(p) \/ MmapEnds(p)
    \/ \E addr \in Hints \ {None}, n \in 0..MaxLength : Munmap(p, addr, n)
    \/ KernelTable(p) \/ KernelDisturbed(p)

Clone(p) ==
    \/ \E s \in Spaces : CloneBegins(p, s)
    \/ CloneTable(p) \/ ClonePage(p) \/ CloneSkips(p) \/ CloneStack(p)
    \/ \E q \in Procs : CloneEnds(p, q)

Load(p) ==
    \/ \E s \in Spaces : LoadBegins(p, s)
    \/ LoadShared(p) \/ LoadPage(p) \/ LoadFaults(p) \/ LoadMapFails(p)
    \/ LoadRejects(p) \/ LoadFailed(p) \/ LoadEnds(p)
    \/ Collect(p) \/ \E va \in Va : CollectFails(p, va)
    \/ PrepareStack(p) \/ PrepareEnds(p)
    \/ ExecCommits(p) \/ \E q \in Procs : SpawnCommits(p, q)

Next ==
    \/ /\ ~faulted
       /\ \/ \E p \in Procs : Memory(p) \/ Clone(p) \/ Exit(p) \/ Reap(p)
          \/ \E p \in Actors : Load(p) \/ StackPage(p) \/ BuildFails(p)
    \/ Halted

Spec == Init /\ [][Next]_vars

-----------------------------------------------------------------------------
(* Properties *)

\* One type invariant.
TypeOK ==
    /\ used \subseteq Frames /\ leaked \subseteq Frames /\ brkPages \subseteq Frames
    /\ root \in [Spaces -> Frames \cup {None}]
    /\ tab \in [Spaces -> [Regions -> Frames \cup {None}]]
    /\ map \in [Spaces -> [Va -> Frames \cup {None}]]
    /\ owned \in [Spaces -> SUBSET Frames] /\ stack \in [Spaces -> SUBSET Frames]
    /\ brk \in [Spaces -> Nat] /\ bump \in [Spaces -> Nat]
    /\ space \in [Actors -> Spaces \cup {None}] /\ new \in [Actors -> Spaces \cup {None}]
    /\ pc \in [Actors -> Locations]
    /\ at \in [Actors -> Nat] /\ goal \in [Actors -> Nat]
    /\ block \in [Actors -> SUBSET Frames] /\ faulted \in BOOLEAN
    /\ anon \in [Spaces -> SUBSET Frames]
    /\ stale \in [Spaces -> SUBSET Va] /\ holes \in [Spaces -> SUBSET Va]

\* The places that will free frame f, or that alone remember it.
Holders(f) ==
    {<<"root", s>> : s \in {s \in Spaces : root[s] = f}}
    \cup {<<"tab", x[1], x[2]>> : x \in {x \in Spaces \X Regions : tab[x[1]][x[2]] = f}}
    \cup {<<"owned", s>> : s \in {s \in Spaces : f \in owned[s]}}
    \cup {<<"stack", s>> : s \in {s \in Spaces : f \in stack[s]}}
    \cup {<<"anon", s>> : s \in {s \in Spaces : f \in anon[s]}}
    \cup {<<"block", p>> : p \in {p \in Actors : f \in block[p]}}
    \cup {<<"leaked">> : x \in {x \in {f} : f \in leaked}}

\* No page is freed twice or used after it was freed, whichever allocation of
\* brk, mmap, clone, execve or spawn fails and whatever addresses the calls name:
\* a page in use has exactly one holder, a free page has none.  What mmap and
\* unmapping take for tables of the kernel half is leaked: free_page_table visits
\* the user half only (vmm.c:185).
FramesAccounted ==
    \A f \in Frames :
        IF f \in used THEN \E h \in Holders(f) : Holders(f) = {h} ELSE Holders(f) = {}

\* Two pages of user memory never share a frame, within a process or between
\* two, and no page of the user half leads to a page table or to freed memory;
\* except the pages a failed mmap left behind (linux/memory.c:119-121).  The
\* kernel half, which all processes see, is not spoken of.
Isolated ==
    \A s \in Spaces : \A va \in Va \ stale[s] : map[s][va] # None =>
        LET f == map[s][va] IN
        /\ f \in used
        /\ \A t \in Spaces : f \notin TableFrames(t)
        /\ \A t \in Spaces : \A v \in Va \ stale[t] :
               map[t][v] = f => t = s /\ v = va

\* Below the break every page is mapped, whatever grow_process_brk had to give
\* up half way and however often the break moved, unless the process unmapped
\* it.
HeapMapped ==
    \A p \in Procs : pc[p] \notin {"off", "dead"} =>
        LET s == space[p] IN
        \A va \in ImageEnd..(PageAlignUp(brk[s]) - 1) : map[s][va] # None \/ va \in holes[s]

\* What grow_process_brk says of a page it mapped (linux/memory.c:29): it is
\* released when the process exits or execs.
BrkPagesReleased == leaked \cap brkPages = {}
=============================================================================

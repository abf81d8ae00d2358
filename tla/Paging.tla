------------------------------- MODULE Paging --------------------------------
(***************************************************************************)
(* Page tables as trees (src/mm/vmm.c): map_page_4k with split_leaf,       *)
(* protect_page_4k, unmap_page_4k, clone_page_table,                       *)
(* clone_user_address_space and free_page_table on tables of four levels.  *)
(*                                                                         *)
(* Each call works on one address space; the spaces meet in the allocator, *)
(* so a call is one step, except the copy of a space for fork, which is    *)
(* one step per entry.  pt_pool_alloc may fail anywhere: `budget` is how   *)
(* many allocations of map_page_4k succeed before one fails; a call that   *)
(* never fails has the largest.  Which free frame it hands out makes no    *)
(* difference: a table or page gets the frame of its place, Home.  An      *)
(* address is a page number; a large leaf of level n covers Span(n) pages  *)
(* and frames.                                                             *)
(*                                                                         *)
(* mmap, mprotect and munmap test no address, so a process's calls reach   *)
(* the kernel half too.  Below a root slot that the kernel uses, its       *)
(* tables are everyone's; what such a call changes there is followed as    *)
(* long as the kernel itself does not come to depend on it (KernelHit).    *)
(***************************************************************************)
EXTENDS Integers, FiniteSets, Functions

CONSTANTS
    Spaces,          \* processes, numbered from 1
    Fanout,          \* PT_ENTRIES, 512
    Memory,          \* frames that callers of map_page_4k map
    UserArgs,        \* pages that processes map, protect and unmap, in either half
    KernelArgs,      \* pages of the low half that boot_ap maps for the kernel
    Rights,
    SkipLo, SkipHi,  \* the range that clone_user_address_space leaves out
    None

TopLevel == 3        \* PT_TOP_LEVEL
Levels == 0..TopLevel

Spans == <<1, Fanout, Fanout * Fanout, Fanout * Fanout * Fanout,
           Fanout * Fanout * Fanout * Fanout>>
Span(level) == Spans[level + 1]
Slots == 0..(Fanout - 1)
UserSlots == 0..(Fanout \div 2 - 1)
UserVa == 0..(Span(TopLevel + 1) \div 2 - 1)
KernelVa == (Span(TopLevel + 1) \div 2)..(Span(TopLevel + 1) - 1)

\* The frames that are mapped at the caller's wish are none of the allocator's.
ASSUME PagingAssumption ==
    /\ Fanout \in Nat \ {0} /\ Fanout % 2 = 0
    /\ Spaces \subseteq Nat \ {0} /\ Memory \subseteq 0..(Span(TopLevel + 1) - 1)
    /\ UserArgs \subseteq UserVa \cup KernelVa /\ KernelArgs \subseteq UserVa
    /\ SkipLo \in Nat /\ SkipHi \in 0..(Span(TopLevel + 1) \div 2) /\ Rights # {}
    /\ None \notin Nat /\ None \notin [from : Spaces, to : Spaces, level : Levels]
    /\ LET Page == [frame : Nat, rights : Rights]
       IN  None \notin Page /\ None \notin [UserVa \cup KernelVa -> Page \cup {None}]

pt_index(va, level) == (va \div Span(level)) % Fanout

\* Entries: not present, a table, a leaf.
Absent == [kind |-> "absent"]
TableEntry(t) == [kind |-> "table", to |-> t]
Leaf(f, r) == [kind |-> "leaf", to |-> f, rights |-> r]

NoEntries == [k \in Slots |-> Absent]

VARIABLES
    mem,   \* the contents of the tables in use, by frame
    l4,    \* page_table of the spaces
    owned, \* owned_pages: copies that clone_user_address_space made
    copy,  \* the copy in progress: from which space to which, on which level; or None
    call,  \* src, dst, number of the table and i of the clone_user_level of each level
    view,  \* (history) what the hardware's walk finds for every page of every space
    disturbed  \* a process has changed the kernel half in a way not followed

ptVars == <<mem, l4, owned, copy, call, view, disturbed>>

Kernel == 0  \* the space of page_table_l4

\* The frame of the n-th table of a level in space s; the pages are level -1.
Home(s, level, n) == (s * (TopLevel + 2) + level + 2) * Span(TopLevel + 1) + n

\* The loader's tables: the low half of the kernel's space has a large leaf (the
\* identity map), the high half one of its own.
BootRoot == Home(Kernel, TopLevel, 0)
BootLow == Home(Kernel, TopLevel - 1, 0)
BootHigh == Home(Kernel, TopLevel - 1, Fanout - 1)
BootRights == CHOOSE r \in Rights : TRUE

\* The hardware's walk, and that of vm_user_to_kernel.
Found(e, va, level) ==
    IF e.kind = "leaf" THEN [frame |-> e.to + (va % Span(level)), rights |-> e.rights] ELSE None

Translate(m, root, va) ==
    LET e3 == m[root][pt_index(va, 3)]
        e2 == m[e3.to][pt_index(va, 2)]
        e1 == m[e2.to][pt_index(va, 1)]
        e0 == m[e1.to][pt_index(va, 0)]
    IN  IF e3.kind # "table" THEN Found(e3, va, 3)
        ELSE IF e2.kind # "table" THEN Found(e2, va, 2)
        ELSE IF e1.kind # "table" THEN Found(e1, va, 1)
        ELSE Found(e0, va, 0)

ViewOf(m, roots) ==
    [s \in Spaces \cup {Kernel} |->
        IF roots[s] = None THEN None
        ELSE [va \in UserVa \cup KernelVa |-> Translate(m, roots[s], va)]]

NoCall == [src |-> None, dst |-> None, n |-> 0, i |-> 0]
NoCalls == [level \in Levels |-> NoCall]

PtInit ==
    /\ mem = [t \in {BootRoot, BootLow, BootHigh} |->
                IF t = BootRoot
                THEN [k \in Slots |-> IF k = 0 THEN TableEntry(BootLow)
                                      ELSE IF k = Fanout - 1 THEN TableEntry(BootHigh)
                                      ELSE Absent]
                ELSE [NoEntries EXCEPT ![0] = Leaf(0, BootRights)]]
    /\ l4 = [s \in Spaces \cup {Kernel} |-> IF s = Kernel THEN BootRoot ELSE None]
    /\ owned = [s \in Spaces |-> {}]
    /\ copy = None /\ call = NoCalls
    /\ view = ViewOf(mem, l4)
    /\ disturbed = FALSE

-----------------------------------------------------------------------------
(* Walks. *)

Put(m, t, k, e) == [m EXCEPT ![t][k] = e]
\* m with the table f, whose contents are es, linked from slot k of table t.
Link(m, t, k, f, es) ==
    [u \in DOMAIN m \cup {f} |-> IF u = f THEN es
                                 ELSE IF u = t THEN [m[t] EXCEPT ![k] = TableEntry(f)]
                                 ELSE m[u]]

\* (mutant) the parts of a large leaf lie one frame apart at every level
Parts_OneApart(e, level) == [j \in Slots |-> Leaf(e.to + j, e.rights)]

\* split_leaf: the leaves of the next level that a large leaf stands for.
Parts(e, level) == [j \in Slots |-> Leaf(e.to + j * Span(level - 1), e.rights)]

\* Whose table it is that a walk of space s to this page adds.
Owner(s, va) == IF va \in UserVa THEN s ELSE Kernel

\* One turn of the loop of map_page_4k, protect_page_4k and unmap_page_4k: w has come
\* to a table of the level.  Only map_page_4k adds tables.  Without memory, or without
\* a table, the walk ends at None and keeps what it has linked.
Down(w, s, va, level, adds) ==
    LET k == pt_index(va, level)
        e == w.mem[w.table][k]
        f == Home(Owner(s, va), level - 1, va \div Span(level))
    IN  IF w.table = None THEN w
        ELSE IF e.kind = "table" THEN [w EXCEPT !.table = e.to]
        ELSE IF w.budget = 0 \/ (e.kind = "absent" /\ ~adds) THEN [w EXCEPT !.table = None]
        ELSE [mem |-> Link(w.mem, w.table, k, f,
                           IF e.kind = "leaf" THEN Parts(e, level) ELSE NoEntries),
              table |-> f, budget |-> w.budget - 1]

Descend(s, va, budget, adds) ==
    LET w3 == [mem |-> mem, table |-> l4[s], budget |-> budget]
        w2 == Down(w3, s, va, 3, adds)
        w1 == Down(w2, s, va, 2, adds)
    IN  Down(w1, s, va, 1, adds)

\* free_table_level: the tables that some slots of some tables link.
Children(m, tables, slots) ==
    UNION {{m[t][k].to : k \in {j \in slots : m[t][j].kind = "table"}} : t \in tables}

\* (mutant) the tables below the second level are forgotten
UserTables_Shallow(m, root) == {root} \cup Children(m, {root}, UserSlots)

\* What free_page_table frees: the root and the tables of the user half.
UserTables(m, root) ==
    LET t2 == Children(m, {root}, UserSlots)
        t1 == Children(m, t2, Slots)
        t0 == Children(m, t1, Slots)
    IN  {root} \cup t2 \cup t1 \cup t0

free_page_table(m, root) == Restrict(m, DOMAIN m \ UserTables(m, root))

-----------------------------------------------------------------------------
(* Calls. *)

\* Space s is neither copied nor being built.
Idle(s) == copy # None => s \notin {copy.from, copy.to}

\* The walk is one that ran out of memory, or has the largest budget.
Ends(w, budget) == budget = TopLevel \/ (w.table = None /\ w.budget = 0)

\* map_page_4k; for the kernel it is boot_ap that calls it.
map_page_4k(s, va, f, r, budget) ==
    LET w == Descend(s, va, budget, TRUE) IN
    /\ l4[s] # None /\ Idle(s)
    /\ Ends(w, budget)
    /\ mem' = IF w.table = None THEN w.mem ELSE Put(w.mem, w.table, pt_index(va, 0), Leaf(f, r))
    /\ UNCHANGED <<l4, owned, copy, call>>

\* protect_page_4k and unmap_page_4k split the large leaves that they meet, and fail
\* where there is no memory for it.
protect_page_4k(s, va, r, budget) ==
    LET w == Descend(s, va, budget, FALSE)
        e == w.mem[w.table][pt_index(va, 0)]
    IN /\ l4[s] # None /\ Idle(s)
       /\ Ends(w, budget)
       /\ mem' = IF w.table = None \/ e = Absent THEN w.mem
                 ELSE Put(w.mem, w.table, pt_index(va, 0), Leaf(e.to, r))
       /\ UNCHANGED <<l4, owned, copy, call>>

unmap_page_4k(s, va, budget) ==
    LET w == Descend(s, va, budget, FALSE) IN
    /\ l4[s] # None /\ Idle(s)
    /\ Ends(w, budget)
    /\ mem' = IF w.table = None THEN w.mem ELSE Put(w.mem, w.table, pt_index(va, 0), Absent)
    /\ UNCHANGED <<l4, owned, copy, call>>

\* clone_page_table: the new root has the kernel half of the kernel's.
NewRoot == [k \in Slots |-> IF k \in UserSlots THEN Absent ELSE mem[l4[Kernel]][k]]
WithRoot(f) == [u \in DOMAIN mem \cup {f} |-> IF u = f THEN NewRoot ELSE mem[u]]

clone_page_table(s) ==
    /\ l4[s] = None /\ Idle(s)
    /\ mem' = WithRoot(Home(s, TopLevel, 0))
    /\ l4' = [l4 EXCEPT ![s] = Home(s, TopLevel, 0)]
    /\ UNCHANGED <<owned, copy, call>>

\* The end of a process: free_page_table and vm_page_list_free.
Terminate(s) ==
    /\ l4[s] # None /\ Idle(s)
    /\ mem' = free_page_table(mem, l4[s])
    /\ l4' = [l4 EXCEPT ![s] = None]
    /\ owned' = [owned EXCEPT ![s] = {}]
    /\ UNCHANGED <<copy, call>>

-----------------------------------------------------------------------------
(* clone_user_address_space, for fork. *)

clone_user_address_space(s, t) ==
    LET f == Home(t, TopLevel, 0) IN
    /\ l4[s] # None /\ l4[t] = None /\ copy = None
    /\ mem' = WithRoot(f)
    /\ copy' = [from |-> s, to |-> t, level |-> TopLevel]
    /\ call' = [call EXCEPT ![TopLevel] = [src |-> l4[s], dst |-> f, n |-> 0, i |-> 0]]
    /\ UNCHANGED <<l4, owned>>

\* clone_user_level has come to slot i of a table, which is the entry of a level with
\* this number in the space.
Last(level) == IF level = TopLevel THEN Fanout \div 2 ELSE Fanout
Number(c) == c.n * Fanout + c.i
EntryOf(c) == mem[c.src][c.i]

\* The page or everything below the entry lies in the range left out.
Skipped(c, level) ==
    LET va == Number(c) * Span(level) IN SkipLo <= va /\ va + Span(level) <= SkipHi

Continue == [call EXCEPT ![copy.level].i = @ + 1]

\* The loop has come to an entry.
Visiting == copy # None /\ call[copy.level].i < Last(copy.level)

\* A page, or a table of the next level.
Copied(e) == e.kind = (IF copy.level = 0 THEN "leaf" ELSE "table")

\* A page or table has to be allocated.
Needed ==
    LET c == call[copy.level]
    IN  Visiting /\ Copied(EntryOf(c)) /\ ~Skipped(c, copy.level)

CopySkips ==
    LET c == call[copy.level] IN
    /\ Visiting
    /\ EntryOf(c).kind = "absent" \/ (Copied(EntryOf(c)) /\ Skipped(c, copy.level))
    /\ call' = Continue
    /\ UNCHANGED <<mem, l4, owned, copy>>

CopyPage ==
    LET c == call[0]
        f == Home(copy.to, -1, Number(c))
    IN  /\ Needed /\ copy.level = 0
        /\ mem' = Put(mem, c.dst, c.i, Leaf(f, EntryOf(c).rights))
        /\ owned' = [owned EXCEPT ![copy.to] = @ \cup {f}]
        /\ call' = Continue
        /\ UNCHANGED <<l4, copy>>

\* The new table is linked before clone_user_level calls itself for it.
CopyTable ==
    LET c == call[copy.level]
        f == Home(copy.to, copy.level - 1, Number(c))
    IN  /\ Needed /\ copy.level > 0
        /\ mem' = Link(mem, c.dst, c.i, f, NoEntries)
        /\ copy' = [copy EXCEPT !.level = @ - 1]
        /\ call' = [call EXCEPT ![copy.level - 1] =
                      [src |-> EntryOf(c).to, dst |-> f, n |-> Number(c), i |-> 0]]
        /\ UNCHANGED <<l4, owned>>

CopyReturns ==
    /\ copy # None /\ copy.level < TopLevel
    /\ call[copy.level].i = Fanout
    /\ copy' = [copy EXCEPT !.level = @ + 1]
    /\ call' = [call EXCEPT ![copy.level + 1].i = @ + 1, ![copy.level] = NoCall]
    /\ UNCHANGED <<mem, l4, owned>>

CopyEnds ==
    /\ copy # None /\ copy.level = TopLevel
    /\ call[TopLevel].i = Last(TopLevel)
    /\ l4' = [l4 EXCEPT ![copy.to] = call[TopLevel].dst]
    /\ copy' = None /\ call' = NoCalls
    /\ UNCHANGED <<mem, owned>>

\* No memory (for a page that of vm_page_list_add included, which frees the page), or
\* a large leaf: everything built is freed.
CopyFails ==
    /\ \/ Needed
       \/ Visiting /\ copy.level > 0 /\ EntryOf(call[copy.level]).kind = "leaf"
    /\ mem' = free_page_table(mem, call[TopLevel].dst)
    /\ owned' = [owned EXCEPT ![copy.to] = {}]
    /\ copy' = None /\ call' = NoCalls
    /\ UNCHANGED l4

-----------------------------------------------------------------------------
\* boot_ap runs before there is a process.
BootAp == \A s \in Spaces : l4[s] = None

\* The page lies in the user half, or below a root slot of the kernel half that the
\* kernel uses.  Below an empty one a process gets tables of its own, which no other
\* space has and free_page_table does not visit (KernelHit).
Followed(va) == va \in UserVa \/ mem[l4[Kernel]][pt_index(va, TopLevel)].kind = "table"

Call ==
    \/ \E va \in KernelArgs, r \in Rights \ {BootRights}, b \in 0..TopLevel :
          BootAp /\ map_page_4k(Kernel, va, va, r, b)
    \/ \E s \in Spaces, va \in UserArgs, f \in Memory, r \in Rights, b \in 0..TopLevel :
          Followed(va) /\ map_page_4k(s, va, f, r, b)
    \/ \E s \in Spaces, va \in UserArgs, r \in Rights, b \in 0..TopLevel :
          Followed(va) /\ protect_page_4k(s, va, r, b)
    \/ \E s \in Spaces, va \in UserArgs, b \in 0..TopLevel :
          Followed(va) /\ unmap_page_4k(s, va, b)
    \/ \E s \in Spaces : clone_page_table(s) \/ Terminate(s)
    \/ \E s, t \in Spaces : clone_user_address_space(s, t)
    \/ CopySkips \/ CopyPage \/ CopyTable \/ CopyReturns \/ CopyEnds \/ CopyFails

\* A process changes a page of the kernel half that the kernel itself uses, while
\* another CPU walks the same tables, which no lock guards, or below a root slot that
\* the kernel leaves empty.  What comes after it is not followed.
KernelHit ==
    /\ \E s \in Spaces, va \in UserArgs \cap KernelVa : l4[s] # None /\ Idle(s)
    /\ disturbed' = TRUE
    /\ UNCHANGED <<mem, l4, owned, copy, call, view>>

\* A new view where the tables have changed.
Looks == view' = IF UNCHANGED <<mem, l4>> THEN view ELSE ViewOf(mem', l4')

PtNext ==
    \/ ~disturbed /\ Call /\ Looks /\ UNCHANGED disturbed
    \/ ~disturbed /\ KernelHit
    \/ disturbed /\ UNCHANGED ptVars

PtSpec == PtInit /\ [][PtNext]_ptVars

-----------------------------------------------------------------------------
(* Properties. *)

Flat == INSTANCE PageMap WITH
            Frames <- Memory \cup KernelArgs, Skip <- SkipLo..(SkipHi - 1),
            Boot <- [va \in UserVa \cup KernelVa |->
                       IF va \div Span(TopLevel) \in {0, Fanout - 1} /\ va % Span(TopLevel) < Span(TopLevel - 1)
                       THEN [frame |-> va % Span(TopLevel), rights |-> BootRights]
                       ELSE None]

\* The trees implement a flat map: a call changes the page it names and no other,
\* although it splits large leaves, adds tables or runs out of memory half way, and in
\* the kernel half it changes that page for every process; a copy has every page
\* outside the range left out, or does not come to be.
FlatMap == Flat!Spec

\* The roots of the spaces, and that of the copy in progress.
Roots == (Range(l4) \ {None}) \cup (IF copy = None THEN {} ELSE {call[TopLevel].dst})

\* The slots that link table f, besides the kernel half that the roots share.
LinksOf(f) ==
    {link \in (DOMAIN mem) \X Slots :
        /\ mem[link[1]][link[2]] = TableEntry(f)
        /\ link[1] \in Roots \ {l4[Kernel]} => link[2] \in UserSlots}

\* Every frame that serves as a table is a root or is linked from exactly one
\* slot, at every step of a copy and after calls that failed half way: none is
\* leaked, shared between two processes, freed while it is in use or handed out as a
\* page as well.  The tables that a process gets below a root slot of the kernel half
\* that the kernel leaves empty are not among them: nobody frees those (KernelHit).
TablesAccounted ==
    /\ \A f \in DOMAIN mem : IF f \in Roots THEN LinksOf(f) = {} ELSE Cardinality(LinksOf(f)) = 1
    /\ \A t \in DOMAIN mem : \A k \in Slots :
          mem[t][k].kind = "table" => mem[t][k].to \in DOMAIN mem
    /\ DOMAIN mem \cap UNION Range(owned) = {}
    /\ Roots \subseteq DOMAIN mem
=============================================================================

------------------------------- MODULE Execve -------------------------------
(***************************************************************************)
(* One execve (exec/syscalls/linux/process.c) with the loader it calls     *)
(* (elf_prepare, elf_load_full and elf_load in exec/loaders/elf.c): the    *)
(* copies of the argument vectors, the segments copied into the new        *)
(* address space, the initial stack, and the clean-up of every failure.    *)
(*                                                                         *)
(* The page tables and pages themselves are the subject of AddressSpace;   *)
(* here the new space is what a user finds in it.  Nobody sees it before   *)
(* process_replace, so a segment is loaded in one step.  Addresses are in  *)
(* bytes; an address in the stack is its distance from the top.            *)
(***************************************************************************)
EXTENDS Integers, Sequences, FiniteSets

CONSTANTS
    Vectors,      \* argument vectors: NULL, or the sizes of the strings with
                  \* their NUL; 0 is a pointer outside of user space
    Executables,  \* files an execve may name
    Interpreters, \* files PT_INTERP may name
    PathSize,     \* bytes of the path with its NUL
    MaxArgs,      \* EXEC_MAX_ARGS
    MaxArgBytes,  \* EXEC_MAX_ARG_BYTES
    PageSize,
    PieBase, InterpBase,   \* ELF_PIE_BASE, ELF_INTERP_BASE
    StackSize,    \* USER_STACK_SIZE
    NULL

Word == 8

\* Words of the auxiliary vector that elf_prepare writes, and has room for.
AuxWords == 30
ELF_MAX_AUX_WORDS == 32

AlignUp(n, to) == ((n + to - 1) \div to) * to

\* load_bias of the two calls of elf_load.
BiasOf(i, f) == IF ~f.pie THEN 0 ELSE IF i = "main" THEN PieBase ELSE InterpBase

\* The pages from seg_start to seg_end of a segment.
PagesAt(bias, ph) ==
    ((bias + ph.vaddr) \div PageSize)..(AlignUp(bias + ph.vaddr + ph.memsz, PageSize) \div PageSize - 1)

\* The PT_LOAD of a file, and those whose part of the file holds the program headers.
Loads(f) == {k \in DOMAIN f.phdrs : f.phdrs[k].type = "LOAD"}
Holding(f) == {k \in Loads(f) : f.phoff \in f.phdrs[k].offset..(f.phdrs[k].offset + f.phdrs[k].filesz - 1)}

\* What ELF asks of a file and elf_load does not check: segments ascend and do not
\* overlap, and a PT_PHDR is the address of the program headers.
WellFormed(f) ==
    /\ f.phdrs \in Seq({f.phdrs[k] : k \in DOMAIN f.phdrs}) /\ f.phoff \in Nat
    /\ \A k \in Loads(f) :
        /\ {f.phdrs[k].vaddr, f.phdrs[k].offset, f.phdrs[k].filesz, f.phdrs[k].memsz} \subseteq Nat
        /\ f.phdrs[k].filesz <= f.phdrs[k].memsz
        /\ f.pie \/ f.phdrs[k].vaddr > 0
        /\ \A l \in Loads(f) : k < l => f.phdrs[k].vaddr + f.phdrs[k].memsz <= f.phdrs[l].vaddr
    /\ \A p \in DOMAIN f.phdrs :
        f.phdrs[p].type = "PHDR" /\ Holding(f) # {} =>
            \E k \in Holding(f) : f.phdrs[p].vaddr = f.phdrs[k].vaddr + (f.phoff - f.phdrs[k].offset)

\* Files are well formed, and a program and its interpreter share no page.
ASSUME ExecveImages ==
    /\ PageSize \in Nat \ {0} /\ PieBase \in Nat \ {0} /\ InterpBase \in Nat \ {0}
    /\ \A f \in Executables \cup Interpreters : WellFormed(f)
    /\ \A f \in Executables, g \in Interpreters :
        f.interp = "path" => \A k \in Loads(f), l \in Loads(g) :
            PagesAt(BiasOf("main", f), f.phdrs[k]) \cap PagesAt(BiasOf("interp", g), g.phdrs[l]) = {}

\* Sizes are what C makes them, with at least a NUL in a path, and the stack is
\* large enough for whatever exec_copy_strvec lets through.
ASSUME ExecveAssumption ==
    /\ \A v \in Vectors : v = NULL \/ v \in Seq(Nat)
    /\ NULL \notin {"copy", "lone"}
    /\ MaxArgBytes \in Nat /\ MaxArgs \in Nat \ {0} /\ PathSize \in Nat \ {0}
    /\ StackSize \in Nat
    /\ StackSize >= AlignUp(AlignUp(MaxArgBytes + PathSize, 16) + 16
                            + Word * (2 * MaxArgs + 3 + AuxWords), 16)
    /\ PieBase % PageSize = 0 /\ InterpBase % PageSize = 0

VARIABLES
    pc,      \* where the call is
    call,    \* its arguments and the files it finds
    heap,    \* kernel allocations that the call made and did not free
    bad,     \* (history) frees of something that was not allocated
    vec,     \* argv and envp of execve: NULL, "copy" or "lone"
    budget,  \* budget of execve
    at,      \* next string, or next program header
    img,     \* the image elf_load is loading: "main" or "interp"
    prev,    \* prev_seg_flags of elf_load
    mem,     \* bytes of the new address space
    rights,  \* rights of its pages
    phdr,    \* phdr_vaddr of the main program
    stack    \* initial stack: [sp, random, argv, envp]

space == <<img, prev, mem, rights, phdr, stack>>
execVars == <<pc, call, heap, bad, vec, budget, at, space>>

ExecInit ==
    /\ pc = "begin"
    /\ call \in [argv : Vectors, envp : Vectors, file : Executables, interp : Interpreters]
    /\ heap = {} /\ bad = {}
    /\ vec = [w \in {"argv", "envp"} |-> NULL]
    /\ budget = MaxArgBytes /\ at = 1
    /\ img = "main" /\ prev = {} /\ mem = <<>> /\ rights = <<>> /\ phdr = 0
    /\ stack = NULL

\* An allocation is <<name, 0>>; that of the i-th string of a vector is <<name, i>>.
Named(names) == {<<n, 0>> : n \in names}

\* malloc, calloc and page_alloc of one thing; that they may fail is a disjunct of
\* the step that calls them.
Alloc(name) == heap' = heap \cup Named({name}) /\ UNCHANGED bad

\* free of all in set.
Free(set) == heap' = heap \ set /\ bad' = bad \cup (set \ heap)

Goto(l) == pc' = l

-----------------------------------------------------------------------------
(* The arguments. *)

\* Strings of a vector; a NULL vector has none.
Count(w) == IF call[w] = NULL THEN 0 ELSE Len(call[w])

\* Copies of the first n strings.
Copies(w, n) == {<<w, i>> : i \in 1..n}

Begin ==
    /\ pc = "begin"
    /\ \/ Alloc("path") /\ Goto("argv")
       \/ UNCHANGED <<heap, bad>> /\ Goto("done")     \* ENOMEM
    /\ UNCHANGED <<call, vec, budget, at, space>>

Copying(w) == IF w = "argv" THEN "argv copy" ELSE "envp copy"
AfterVector(w) == IF w = "argv" THEN "envp" ELSE "lookup"

\* exec_copy_strvec up to its loop.
CopyBegins(w) ==
    /\ pc = w
    /\ \/ call[w] = NULL /\ Goto(AfterVector(w)) /\ UNCHANGED <<heap, bad>>
       \/ call[w] # NULL /\ Count(w) > MaxArgs /\ Goto("out") /\ UNCHANGED <<heap, bad>>
       \/ call[w] # NULL /\ Count(w) <= MaxArgs /\ Alloc(w) /\ Goto(Copying(w))
       \/ call[w] # NULL /\ Count(w) <= MaxArgs /\ UNCHANGED <<heap, bad>> /\ Goto("out")
    /\ at' = 1
    /\ UNCHANGED <<call, vec, budget, space>>

\* exec_free_strvec(vec, i) and return: the caller's pointer stays NULL.
CopyFails(w) ==
    /\ Free(Named({w}) \cup Copies(w, at - 1))
    /\ Goto("out") /\ UNCHANGED at

Fits(size) == size <= budget

CopyString(w) ==
    /\ pc = Copying(w) /\ at <= Count(w)
    /\ LET size == call[w][at] IN
       \/ /\ size = 0 \/ ~Fits(size)
          /\ CopyFails(w) /\ UNCHANGED budget
       \/ /\ size # 0 /\ Fits(size)
          /\ budget' = budget - size
          /\ \/ heap' = heap \cup {<<w, at>>} /\ at' = at + 1 /\ UNCHANGED bad /\ UNCHANGED pc
             \/ CopyFails(w)
    /\ UNCHANGED <<call, vec, space>>

CopyEnds(w) ==
    /\ pc = Copying(w) /\ at > Count(w)
    /\ vec' = [vec EXCEPT ![w] = "copy"]
    /\ Goto(AfterVector(w))
    /\ UNCHANGED <<call, heap, bad, budget, at, space>>

\* argc == 0: a vector whose only string is the path.  The copy of an empty
\* vector is forgotten here.
LoneArgv ==
    /\ pc = "lookup" /\ Count("argv") = 0 /\ vec["argv"] # "lone"
    /\ \/ vec' = [vec EXCEPT !["argv"] = "lone"] /\ Alloc("lone") /\ UNCHANGED pc
       \/ vec' = [vec EXCEPT !["argv"] = NULL] /\ Goto("out") /\ UNCHANGED <<heap, bad>>
    /\ UNCHANGED <<call, budget, at, space>>

\* argc and argv from here on.
Argv == IF Count("argv") = 0 THEN <<PathSize>> ELSE call["argv"]
Envp == IF call["envp"] = NULL THEN <<>> ELSE call["envp"]

\* vfs_lookup and the reading of the file.
ReadImage ==
    /\ pc = "lookup" /\ (Count("argv") = 0 => vec["argv"] = "lone")
    /\ \/ call.file.kind = "elf" /\ Alloc("image") /\ Goto("prepare")
       \/ call.file.kind = "elf" /\ Alloc("image") /\ Goto("out")     \* a read fails
       \/ UNCHANGED <<heap, bad>> /\ Goto("out")     \* no such file, or no memory
    /\ UNCHANGED <<call, vec, budget, at, space>>

-----------------------------------------------------------------------------
(* elf_load. *)

File(i) == IF i = "main" THEN call.file ELSE call.interp
Image == File(img)
Bias(i) == BiasOf(i, File(i))

\* Byte o of an image, and the byte of a cleared page.
FileByte(i, o) == <<i, o>>
Zero == <<"zero", 0>>

\* clone_page_table.
Prepare ==
    /\ pc = "prepare"
    /\ \/ Alloc("l4") /\ Goto("load")
       \/ UNCHANGED <<heap, bad>> /\ Goto("out")
    /\ at' = 1
    /\ UNCHANGED <<call, vec, budget, space>>

\* The checks of the ELF header.
HeaderOk == Image.valid

\* elf_process_dynamic; both callers of elf_load pass apply_relocs = false, so
\* that it returns before the relocations.
DynamicOk == Image.dyn # "bad"

\* elf_uv2kv finds a page.
Mapped(pg) == pg \in DOMAIN rights

SegmentPages(i, ph) == PagesAt(Bias(i), ph)

BytesOf(pages) == UNION {(pg * PageSize)..(pg * PageSize + PageSize - 1) : pg \in pages}

\* (mutant) a page that the segment before shares is cleared
CopyPages_Clears(i, ph) ==
    LET lo == Bias(i) + ph.vaddr IN
    [b \in BytesOf(SegmentPages(i, ph)) |->
        IF b \in lo..(lo + ph.filesz - 1) THEN FileByte(i, ph.offset + (b - lo)) ELSE Zero]

\* What the pages hold after the copy: the part of the file, and around it what
\* an earlier segment left or, in a new page, zeroes.
CopyPages(i, ph) ==
    LET lo == Bias(i) + ph.vaddr IN
    [b \in BytesOf(SegmentPages(i, ph)) |->
        IF b \in lo..(lo + ph.filesz - 1) THEN FileByte(i, ph.offset + (b - lo))
        ELSE IF Mapped(b \div PageSize) THEN mem[b] ELSE Zero]

\* map_page_4k of a new page, protect_page_4k of a shared one.
PageRights(i, ph) ==
    [pg \in SegmentPages(i, ph) |->
        IF Mapped(pg) THEN ph.flags \cup prev ELSE ph.flags]

\* phdr_vaddr, unless a PT_PHDR or an earlier segment gave it.
PhdrAfter(ph) ==
    IF phdr = 0 /\ Image.phoff >= ph.offset /\ Image.phoff - ph.offset <= ph.filesz
    THEN Bias(img) + ph.vaddr + (Image.phoff - ph.offset) ELSE phdr

\* What is written over what was there.
Overlay(new, old) ==
    [x \in DOMAIN new \cup DOMAIN old |-> IF x \in DOMAIN new THEN new[x] ELSE old[x]]

\* The next program header is of this type.
Visits(type) ==
    pc = "load" /\ HeaderOk /\ at <= Len(Image.phdrs) /\ Image.phdrs[at].type = type

LoadPhdr ==
    /\ Visits("PHDR")
    /\ phdr' = (IF img = "main" THEN Bias(img) + Image.phdrs[at].vaddr ELSE phdr)
    /\ at' = at + 1
    /\ UNCHANGED <<pc, call, heap, bad, vec, budget, img, prev, mem, rights, stack>>

\* A PT_LOAD.
LoadSegment ==
    /\ Visits("LOAD")
    /\ LET ph == Image.phdrs[at] IN
       /\ ph.offset + ph.filesz <= Image.size
       /\ mem' = Overlay(CopyPages(img, ph), mem)
       /\ rights' = Overlay(PageRights(img, ph), rights)
       /\ prev' = ph.flags
       /\ phdr' = (IF img = "main" THEN PhdrAfter(ph) ELSE phdr)
    /\ at' = at + 1
    /\ UNCHANGED <<pc, call, heap, bad, vec, budget, img, stack>>

\* The last program header was seen and the image loads something.
Loaded ==
    /\ pc = "load" /\ HeaderOk /\ at > Len(Image.phdrs)
    /\ Loads(Image) # {}
    /\ Image.interp # "bad" /\ DynamicOk

\* elf_load reports a malformed image, or a table it cannot have (a page it cannot
\* have is LoadFaults of AddressSpace).
LoadFails ==
    /\ pc = "load"
    /\ \/ ~HeaderOk
       \/ Visits("LOAD")
       \/ at > Len(Image.phdrs) /\ ~Loaded
    /\ Free(Named({"l4"} \cup (IF img = "interp" THEN {"interp"} ELSE {})))
    /\ Goto("out")
    /\ UNCHANGED <<call, vec, budget, at, space>>

\* elf_vfs_read_whole of the interpreter the main program names.
ReadInterp ==
    /\ img = "main" /\ Loaded /\ Image.interp = "path"
    /\ \/ Alloc("interp") /\ img' = "interp" /\ at' = 1 /\ prev' = {} /\ UNCHANGED pc
       \/ Free(Named({"l4"})) /\ Goto("out") /\ UNCHANGED <<at, img, prev>>
    /\ UNCHANGED <<call, vec, budget, mem, rights, phdr, stack>>

LoadEnds ==
    /\ Loaded /\ (img = "main" => Image.interp = "none")
    /\ Free(IF img = "interp" THEN Named({"interp"}) ELSE {})
    /\ Goto("base")
    /\ UNCHANGED <<call, vec, budget, at, space>>

-----------------------------------------------------------------------------
(* The rest of elf_prepare. *)

\* (mutant) the block of the stack is not freed
PrepareFails_KeepsBase == Free(Named({"l4"}) \cup (heap \cap Named({"record"}))) /\ Goto("out")

\* elf_prepared_destroy, after free(stack_base) where no record holds it.
PrepareFails == Free(Named({"l4"}) \cup (heap \cap Named({"base", "record"}))) /\ Goto("out")

\* vm_collect_user_pages, page_alloc of the stack, its record, its mapping.
StackBlock ==
    /\ pc = "base"
    /\ (Alloc("base") /\ Goto("record")) \/ PrepareFails
    /\ UNCHANGED <<call, vec, budget, at, space>>

StackRecord ==
    /\ pc = "record"
    /\ (Alloc("record") /\ Goto("vectors")) \/ PrepareFails
    /\ UNCHANGED <<call, vec, budget, at, space>>

Scratch == Named({"envp_addrs", "argv_addrs", "vec"})

\* map_page_4k of the stack fails, or it is mapped and the three arrays are
\* allocated, each of which may fail.
StackVectors ==
    /\ pc = "vectors"
    /\ \/ PrepareFails
       \/ /\ \E got \in SUBSET Scratch : heap' = heap \cup got
          /\ UNCHANGED bad /\ Goto("build")
    /\ UNCHANGED <<call, vec, budget, at, space>>

\* Bytes of the strings from the i-th on.
Bytes(v, i) ==
    LET from[j \in Nat] == IF j \in DOMAIN v THEN v[j] + from[j + 1] ELSE 0
    IN from[i]

\* (mutant) the stack pointer is aligned before the vector is put below it
StackPointer_AlignsFirst(depth, words) == AlignUp(depth, 16) + Word * words

StackPointer(depth, words) == AlignUp(depth + Word * words, 16)

\* The strings, the 16 random bytes and the vectors, from the top down.
InitialStack ==
    LET strings == Bytes(Envp, 1) + Bytes(Argv, 1)
        random == AlignUp(strings, 16) + 16
    IN [envp   |-> [i \in DOMAIN Envp |-> Bytes(Envp, i)],
        argv   |-> [i \in DOMAIN Argv |-> Bytes(Envp, 1) + Bytes(Argv, i)],
        random |-> random,
        words  |-> 3 + Len(Argv) + Len(Envp) + AuxWords,
        sp     |-> StackPointer(random, 3 + Len(Argv) + Len(Envp) + AuxWords)]

BuildStack ==
    /\ pc = "build" /\ Scratch \subseteq heap
    /\ stack' = InitialStack
    /\ Free(Scratch) /\ Goto("replace")
    /\ UNCHANGED <<call, vec, budget, at, img, prev, mem, rights, phdr>>

\* stack_done with ret = -1.
BuildFails ==
    /\ pc = "build" /\ ~(Scratch \subseteq heap)
    /\ Free((heap \cap Scratch) \cup Named({"l4", "base", "record"})) /\ Goto("out")
    /\ UNCHANGED <<call, vec, budget, at, space>>

\* process_replace: the process owns what was prepared.
Replace ==
    /\ pc = "replace"
    /\ heap' = heap \ Named({"l4", "base", "record"}) /\ UNCHANGED bad
    /\ Goto("out")
    /\ UNCHANGED <<call, vec, budget, at, space>>

\* exec_free_strvec of what a vector points to; argv[0] was reset if it is path.
VectorFrees(w) ==
    CASE vec[w] = NULL -> {}
      [] vec[w] = "lone" -> Named({"lone"})
      [] vec[w] = "copy" -> Named({w}) \cup Copies(w, Count(w))

\* The label out.
Out ==
    LET frees == VectorFrees("argv") \cup VectorFrees("envp")
        last == Named({"path"}) \cup (heap \cap Named({"image"}))
    IN
    /\ pc = "out"
    /\ heap' = heap \ (frees \cup last)
    /\ bad' = bad \cup ((frees \cup last) \ heap) \cup (frees \cap last)
    /\ Goto("done")
    /\ UNCHANGED <<call, vec, budget, at, space>>

Returned == pc = "done" /\ UNCHANGED execVars

ExecNext ==
    \/ Begin \/ LoneArgv \/ ReadImage
    \/ \E w \in {"argv", "envp"} : CopyBegins(w) \/ CopyString(w) \/ CopyEnds(w)
    \/ Prepare \/ LoadPhdr \/ LoadSegment \/ LoadFails \/ ReadInterp \/ LoadEnds
    \/ StackBlock \/ StackRecord \/ StackVectors \/ BuildStack \/ BuildFails
    \/ Replace \/ Out \/ Returned

ExecSpec == ExecInit /\ [][ExecNext]_execVars

-----------------------------------------------------------------------------
(* Properties *)

\* However execve ends, at whichever allocation it fails, everything it
\* allocated was freed once or belongs to the process, and nothing was freed
\* that was not allocated.  Only the copy of an empty argv is lost, where the
\* vector with the path takes its place (process.c, argc == 0).
AllocationsBalanced ==
    /\ bad = {}
    /\ pc = "done" => heap \subseteq (IF call.argv = <<>> THEN Named({"argv"}) ELSE {})

\* The bytes [lo, hi) above the stack pointer that each part of the initial stack
\* takes, as distances from the top.
Part(depth, size) == (depth - size + 1)..depth
StackParts ==
    {Part(stack.envp[i], Envp[i]) : i \in DOMAIN Envp}
    \cup {Part(stack.argv[i], Argv[i]) : i \in DOMAIN Argv}
    \cup {Part(stack.random, 16), Part(stack.sp, Word * stack.words)}

\* The initial stack that elf_prepare writes: the stack pointer is a multiple of
\* 16 within the stack, and no string, pointer or random byte overwrites another,
\* for every vector that exec_copy_strvec accepts.
StackWellFormed ==
    stack # NULL =>
        /\ stack.sp % 16 = 0 /\ stack.sp <= StackSize
        /\ stack.words <= Len(Argv) + Len(Envp) + 3 + ELF_MAX_AUX_WORDS
        /\ \A p, q \in StackParts : p = q \/ p \cap q = {}
        /\ Cardinality(StackParts) = Len(Argv) + Len(Envp) + 2

\* The images of a successful call, and their segments.
Images == {"main"} \cup (IF call.file.interp = "path" THEN {"interp"} ELSE {})
Segments == UNION {{<<i, k>> : k \in Loads(File(i))} : i \in Images}
Header(s) == File(s[1]).phdrs[s[2]]

\* AT_PHDR is the address of the loaded program headers when a segment holds
\* them, unless an earlier segment ends in the file exactly where they begin.
PhdrInMemory ==
    LET f == File("main")
        Ends(k) == k \in Loads(f) /\ f.phoff = f.phdrs[k].offset + f.phdrs[k].filesz
    IN  \A k \in Holding(f) :
            (\A j \in 1..(k - 1) : ~Ends(j)) =>
                phdr \in DOMAIN mem /\ mem[phdr] = FileByte("main", f.phoff)

\* When the new program starts, each segment that elf_load visited is in memory,
\* its file part and then zeroes, even where two segments share a page; and a page
\* of one or two segments has the rights of each and no others (prev_seg_flags).
\* AT_PHDR is where the program headers are.
SegmentsInMemory ==
    stack # NULL =>
        /\ \A s \in Segments :
            LET ph == Header(s)
                lo == Bias(s[1]) + ph.vaddr
            IN \A b \in lo..(lo + ph.memsz - 1) :
                /\ b \in DOMAIN mem
                /\ mem[b] = IF b < lo + ph.filesz THEN FileByte(s[1], ph.offset + (b - lo)) ELSE Zero
        /\ \A pg \in DOMAIN rights :
            LET on == {s \in Segments : pg \in SegmentPages(s[1], Header(s))}
            IN Cardinality(on) <= 2 => rights[pg] = UNION {Header(s).flags : s \in on}
        /\ PhdrInMemory
=============================================================================

----------------------------- MODULE FileTable -----------------------------
(***************************************************************************)
(* The descriptors of a process: fds of process_t, as open, close, read,   *)
(* pread64, lseek, getdents64 and poll (exec/syscalls/linux/io.c and       *)
(* common.c), process_create, process_clone and process_terminate leave    *)
(* them, over the read-only tree of tarfs.                                 *)
(*                                                                         *)
(* A file is a number of bytes and a directory a number of entries; byte   *)
(* or entry i of a node is the number i.  Calls that change no descriptor  *)
(* are stutters; what fstat, poll, pselect6, write and the failing calls   *)
(* answer are operators on the state.  Where the code copies past the end  *)
(* of a file, or looks beyond the table, the kernel may fault: panic is    *)
(* the end of the machine.                                                 *)
(***************************************************************************)
EXTENDS Integers, Sequences, SequencesExt

CONSTANTS
    Procs, Root,      \* processes; the one elf_start makes
    Files, Dirs,      \* nodes of the tree
    Items,            \* bytes of each file, entries of each directory
    MaxFiles,         \* MAX_FILES_PER_PROCESS
    Outside,          \* descriptors outside the table that processes ask for
    Width,            \* 2^64: what a uint64_t counts modulo
    Counts,           \* sizes of reads, in bytes, and of listings, in entries
    Seeks,            \* offset arguments of lseek
    MaxOffset,        \* bound on the offsets the processes seek to
    None              \* NULL

EBADF == -9
EISDIR == -21
EPERM == -1

Nodes == Files \cup Dirs
Fds == 0..(MaxFiles - 1)

ASSUME FileTableAssumption ==
    /\ Root \in Procs /\ None \notin Nodes /\ Files \cap Dirs = {}
    /\ Items \in [Nodes -> Nat] /\ MaxFiles \in Nat /\ MaxFiles >= 3
    /\ Outside \subseteq Int \ Fds
    /\ Width \in Nat /\ Width > 1 /\ \A n \in Nodes : Items[n] < Width
    /\ Counts \subseteq 0..(Width - 1) /\ Seeks \subseteq Int /\ MaxOffset \in 0..(Width - 1)

VARIABLES
    fds,    \* fds of the processes: [used, vnode, offset]
    live,   \* processes that have not exited
    halted, \* the kernel has faulted, or written where it should not have
    got,    \* (history) the items delivered since the last open or seek
    start   \* (history) the offset that open or seek left

vars == <<fds, live, halted, got, start>>

Closed == [used |-> FALSE, vnode |-> None, offset |-> 0]

\* process_create: the console descriptors have no vnode.
Fresh == [fd \in Fds |-> [Closed EXCEPT !.used = fd \in 0..2]]

Init ==
    /\ fds = [p \in Procs |-> IF p = Root THEN Fresh ELSE [fd \in Fds |-> Closed]]
    /\ live = {Root}
    /\ halted = FALSE
    /\ got = [p \in Procs |-> [fd \in Fds |-> <<>>]]
    /\ start = [p \in Procs |-> [fd \in Fds |-> 0]]

\* The offset of a descriptor was set: what it delivers from now on starts there.
Restart(p, fd, offset) ==
    /\ got' = [got EXCEPT ![p][fd] = <<>>]
    /\ start' = [start EXCEPT ![p][fd] = offset]
    /\ UNCHANGED <<live, halted>>

-----------------------------------------------------------------------------

\* vnode->size: tarfs sets it for files only.
Size(n) == IF n \in Files THEN Items[n] ELSE 0

\* What vfs_open answers for an existing node.
VfsOpens(n, flags) ==
    /\ ~({"CREAT", "EXCL"} \subseteq flags)
    /\ "DIRECTORY" \in flags => n \in Dirs

FreeFds(p) == {fd \in 3..(MaxFiles - 1) : ~fds[p][fd].used}

\* open and openat: the lowest free descriptor.
Open(p, n, flags) ==
    LET fd == CHOOSE fd \in FreeFds(p) : \A g \in FreeFds(p) : fd <= g
        offset == IF "APPEND" \in flags THEN Size(n) ELSE 0
    IN
    /\ p \in live /\ FreeFds(p) # {} /\ VfsOpens(n, flags)
    /\ fds' = [fds EXCEPT ![p][fd] = [used |-> TRUE, vnode |-> n, offset |-> offset]]
    /\ Restart(p, fd, offset)

\* (mutant) the vnode of a closed descriptor stays
Close_KeepsVnode(p, fd) ==
    /\ p \in live /\ fds[p][fd].used
    /\ fds' = [fds EXCEPT ![p][fd].used = FALSE, ![p][fd].offset = 0]
    /\ Restart(p, fd, 0)

Close(p, fd) ==
    /\ p \in live /\ fds[p][fd].used
    /\ fds' = [fds EXCEPT ![p][fd] = Closed]
    /\ Restart(p, fd, 0)

\* tarfs_read: the number of bytes that it copies from offset on.
TarfsRead(n, count, offset) ==
    IF offset >= Size(n) THEN 0
    ELSE IF (offset + count) % Width > Size(n) THEN Size(n) - offset ELSE count

\* The sum has wrapped around: the copy does not end with the file.
Overruns(n, count, offset) == offset < Size(n) /\ TarfsRead(n, count, offset) > Size(n) - offset

\* The table has the descriptor: the test of do_read, do_write, close, lseek, fstat
\* and poll.
InTable(p, fd) == fd \in Fds /\ fds[p][fd].used

\* lseek and, but for the console, do_read find a node behind a descriptor.
Found(p, fd) == InTable(p, fd) /\ fds[p][fd].vnode # None

\* do_read from a file reaches the file system.
Readable(p, fd) == p \in live /\ Found(p, fd) /\ fds[p][fd].vnode \in Files

\* Such a copy, of all but the whole address space, ends in a page that is not
\* mapped: a fault of the kernel, for which the interrupt handler panics.
Fault == halted' = TRUE /\ UNCHANGED <<fds, live, got, start>>

\* The member of fds that a descriptor outside the table has is other memory or
\* none: the call fails, works on whatever stands there, or faults.
Stray(p, fd) ==
    /\ p \in live /\ fd \in Outside
    /\ halted' \in BOOLEAN /\ UNCHANGED <<fds, live, got, start>>

\* The next n items of a descriptor are delivered and its offset moves on.
Deliver(p, fd, n) ==
    LET off == fds[p][fd].offset IN
    /\ got' = [got EXCEPT ![p][fd] = @ \o [i \in 1..n |-> off + i - 1]]
    /\ fds' = [fds EXCEPT ![p][fd].offset = @ + n]
    /\ UNCHANGED <<live, halted, start>>

\* read takes the offset out of fds before do_read tests the descriptor.
Read(p, fd, count) ==
    \/ Stray(p, fd)
    \/ /\ fd # 0 /\ Readable(p, fd)
       /\ Overruns(fds[p][fd].vnode, count, fds[p][fd].offset)
       /\ Fault
    \/ /\ fd # 0 /\ Readable(p, fd)
       /\ ~Overruns(fds[p][fd].vnode, count, fds[p][fd].offset)
       /\ Deliver(p, fd, TarfsRead(fds[p][fd].vnode, count, fds[p][fd].offset))

\* (mutant) a positioned read moves the offset
Pread_Updates(p, fd, count, offset) ==
    /\ Readable(p, fd)
    /\ fds' = [fds EXCEPT ![p][fd].offset = @ + TarfsRead(fds[p][fd].vnode, count, offset)]
    /\ UNCHANGED <<live, halted, got, start>>

\* pread64: the offset of the descriptor is neither used nor moved.
Pread(p, fd, count, offset) ==
    /\ Readable(p, fd)
    /\ IF Overruns(fds[p][fd].vnode, count, offset) THEN Fault ELSE UNCHANGED vars

\* mmap of a file tests its descriptor against 0 only; the bytes it reads are those
\* of the file, and no offset moves.
Mmap(p, fd) == fd >= 0 /\ Stray(p, fd)

\* lseek; whence is the position the offset is added to.
Lseek(p, fd, seek, whence) ==
    LET d == fds[p][fd]
        base == CASE whence = "SET" -> 0 [] whence = "CUR" -> d.offset [] whence = "END" -> Size(d.vnode)
    IN
    /\ p \in live /\ Found(p, fd)
    /\ base + seek >= 0 /\ base + seek <= MaxOffset
    /\ fds' = [fds EXCEPT ![p][fd].offset = base + seek]
    /\ Restart(p, fd, base + seek)

\* tarfs_readdir from index on, until the buffer, which has room for so many
\* records, is full or the directory ends.
Listed(n, room, index) ==
    IF index >= Items[n] THEN 0 ELSE IF room < Items[n] - index THEN room ELSE Items[n] - index

\* getdents64 looks at the vnode alone, neither at used nor at the bounds of the
\* table; a buffer without room returns before it looks.
Getdents(p, fd, room) ==
    \/ room > 0 /\ Stray(p, fd)
    \/ /\ p \in live /\ fd \in Fds /\ fds[p][fd].vnode \in Dirs
       /\ Deliver(p, fd, Listed(fds[p][fd].vnode, room, fds[p][fd].offset))

-----------------------------------------------------------------------------
(* What the calls answer without changing a descriptor *)

\* poll: the events of revents for one descriptor, when all are asked for; it skips
\* the negative ones.
Poll(p, fd) ==
    LET d == fds[p][fd] IN
    IF fd < 0 THEN {} ELSE IF ~InTable(p, fd) THEN {"NVAL"}
    ELSE {"OUT"} \cup
         (IF fd = 0 \/ (d.vnode # None /\ Size(d.vnode) > d.offset) THEN {"IN"} ELSE {})

\* pselect6: the descriptors below nfds, of those asked for, that are ready.
Pselect6(p, asked, nfds) == {fd \in asked : nfds \in 0..MaxFiles /\ fd < nfds /\ InTable(p, fd)}

\* fstat: the type and the length of what is behind a descriptor.
Fstat(p, fd) ==
    LET n == fds[p][fd].vnode
        stat(type, size) == [type |-> type, size |-> size]
    IN
    IF ~InTable(p, fd) THEN stat("EBADF", 0)
    ELSE IF fd \in 0..2 THEN stat("console", 0)
    ELSE IF n = None THEN stat("EBADF", 0)
    ELSE stat(IF n \in Dirs THEN "dir" ELSE "file", Size(n))

\* newfstatat, for the path of node n, without a descriptor.
Newfstatat(n) == [type |-> IF n \in Dirs THEN "dir" ELSE "file", size |-> Size(n)]

\* do_write: the bytes written, all of them to the console; tarfs_write refuses.
DoWrite(p, fd, len) ==
    LET d == fds[p][fd] IN
    IF ~InTable(p, fd) THEN EBADF
    ELSE IF fd \in {1, 2} THEN len
    ELSE IF d.vnode = None THEN EBADF
    ELSE IF d.vnode \in Dirs THEN EISDIR ELSE EPERM

\* writev: one do_write after the other.  An error other than EBADF is a large
\* size_t: it ends nothing and is added to the total.
Writev(p, fd, lens) ==
    LET answers == [i \in DOMAIN lens |-> DoWrite(p, fd, lens[i])] IN
    IF lens # <<>> /\ answers[1] = EBADF THEN EBADF ELSE FoldSeq(+, 0, answers)

\* process_clone copies the descriptors, offsets included.
Fork(p, q) ==
    /\ p \in live /\ q \notin live
    /\ live' = live \cup {q}
    /\ fds' = [fds EXCEPT ![q] = fds[p]]
    /\ got' = [got EXCEPT ![q] = got[p]]
    /\ start' = [start EXCEPT ![q] = start[p]]
    /\ UNCHANGED halted

\* spawn: elf_start and process_create.
Spawn(p, q) ==
    /\ p \in live /\ q \notin live
    /\ live' = live \cup {q}
    /\ fds' = [fds EXCEPT ![q] = Fresh]
    /\ got' = [got EXCEPT ![q] = [fd \in Fds |-> <<>>]]
    /\ start' = [start EXCEPT ![q] = [fd \in Fds |-> 0]]
    /\ UNCHANGED halted

\* process_terminate leaves the offsets.
Exit(p) ==
    /\ p # Root /\ p \in live
    /\ live' = live \ {p}
    /\ fds' = [fds EXCEPT ![p] =
                [fd \in Fds |-> [Closed EXCEPT !.offset = fds[p][fd].offset]]]
    /\ UNCHANGED <<halted, got, start>>

CallNext ==
    \E p \in Procs :
        \/ \E n \in Nodes, flags \in SUBSET {"APPEND", "DIRECTORY", "CREAT", "EXCL"} : Open(p, n, flags)
        \/ \E fd \in Fds \cup Outside :
               \/ Mmap(p, fd)
               \/ \E c \in Counts : Read(p, fd, c) \/ Getdents(p, fd, c)
        \/ \E fd \in Fds :
               \/ Close(p, fd)
               \/ \E c \in Counts, offset \in 0..MaxOffset : Pread(p, fd, c, offset)
               \/ \E s \in Seeks, whence \in {"SET", "CUR", "END"} : Lseek(p, fd, s, whence)
        \/ \E q \in Procs : Fork(p, q) \/ Spawn(p, q)
        \/ Exit(p)

Next ==
    \/ ~halted /\ CallNext
    \/ halted /\ UNCHANGED vars

Spec == Init /\ [][Next]_vars

-----------------------------------------------------------------------------
(* Properties *)

\* Until the kernel faults, the calls agree on which descriptors are open, although
\* getdents64 and mmap look at the vnode only, poll and pselect6 at used only and
\* the others at both; after the exit of a process none of its descriptors is open.
\* They agree on what is behind one, newfstatat by its path included, and on where a
\* file ends, also when the offset is at or beyond the end: there is something to
\* read exactly when poll reports POLLIN and when the offset is below st_size.  A
\* descriptor outside the table is open to none of poll, pselect6, fstat, lseek,
\* pread64, write and writev.  (getdents64 and mmap do not test for one, and read
\* uses it before it does: Stray.)
CallsAgree ==
    ~halted => \A p \in Procs, fd \in 3..(MaxFiles - 1) \cup Outside :
        LET open == p \in live /\ InTable(p, fd)
            n == fds[p][fd].vnode
            data == TarfsRead(n, 1, fds[p][fd].offset) > 0
        IN
        /\ open <=> "OUT" \in Poll(p, fd)
        /\ open <=> fd \in Pselect6(p, Fds \cup Outside, MaxFiles)
        /\ open <=> Fstat(p, fd).type # "EBADF"
        /\ open <=> Found(p, fd)
        /\ open <=> fd \in Fds /\ n # None
        /\ open <=> DoWrite(p, fd, 1) # EBADF
        /\ open <=> Writev(p, fd, <<1, 1>>) # EBADF
        /\ open => Fstat(p, fd) = Newfstatat(n)
        /\ open /\ n \in Files =>
              /\ data <=> "IN" \in Poll(p, fd)
              /\ data <=> fds[p][fd].offset < Fstat(p, fd).size

\* Until the kernel faults, a descriptor has since it was opened or sought delivered
\* the bytes of its file, or the entries of its directory, one after the other: none
\* is skipped and none comes twice, and none beyond the end, whichever preads came
\* between, and in a child as in its parent.  (A count that makes offset + size wrap
\* around 2^64 delivers nothing: the copy of tarfs_read runs into a fault.)
StreamInOrder ==
    ~halted => \A p \in live, fd \in Fds : fds[p][fd].vnode # None =>
        /\ fds[p][fd].offset = start[p][fd] + Len(got[p][fd])
        /\ \A i \in DOMAIN got[p][fd] :
               /\ got[p][fd][i] = start[p][fd] + i - 1
               /\ got[p][fd][i] < Items[fds[p][fd].vnode]
=============================================================================

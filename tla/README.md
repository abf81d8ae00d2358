# Utopia: TLA+ models and proofs

Utopia is a small SMP kernel that runs Linux binaries from an initramfs. This
directory holds TLA+ models of its core, the TLC configurations that check them
and TLAPS proofs about the scheduler, its wait queues, processes, address spaces, the kernel
heap, the registers of the CPUs, the keyboard, descriptors, execve with the ELF loader, the
initramfs, and the start of the CPUs with their shared console. The models follow the x86_64 build; source paths below are relative to the kernel's `src/`.

## 1. Inventory

| Component | State | Operations | Meets the others through |
|---|---|---|---|
| scheduler `exec/scheduler.c` | `current_threads`, ready queue, `pending_park`, `pending_zombie`, `zombie_list`, thread states | `scheduler_schedule`, `thread_create`, `scheduler_enqueue`, `thread_exit_status`, `scheduler_reap` | timer and software interrupts; every other component blocks and wakes through it |
| wait queues (same file) | `seq`, list of sleepers | `wait_queue_snapshot`, `scheduler_wait`, `scheduler_wake_all` | `child_wq` of a process, `kbd_wq` |
| processes `exec/process.c`, `exec/syscalls/linux/process.c`, `own.c` | process list, pid, ppid, zombie, `next_pid` | fork/clone, spawn, exit, wait4 | scheduler, wait queues, address spaces |
| CPU context (scheduler, `process.c`, `arch_prctl`, `arch_tlb_flush_page`) | CR3, `active_cr3`, `IA32_FS_BASE`, `fs_base`, TLB | switch, exec, fork, exit, `arch_prctl`, changes of translations | page tables of processes |
| page tables `mm/vmm.c`, `arch/x86_64/mm/paging.c` | trees of four levels | `map_page_4k`, `protect_page_4k`, `unmap_page_4k`, `clone_page_table`, `clone_user_address_space`, `free_page_table` | kernel heap; brk, mmap, mprotect, munmap, fork, exec, exit, `boot_ap` |
| address spaces `linux/memory.c`, `exec/process.c`, `loaders/elf.c` | who owns which page: page tables, `owned_pages`, user stacks, break, `mmap_current` | brk, mmap, munmap, fork, execve, spawn, exit, reap | kernel heap |
| kernel heap `mm/pmm.c` | list of blocks | `malloc`, `page_alloc`, `free` | everybody |
| memory map `mm/pmm.c` | `kernel_memory_map` | `memory_reserve_range`, `memory_init` | `kmain` |
| keyboard `drivers/keyboard`, `rust/drivers/com1.rs` | ring buffer, shift state | two interrupt handlers, `keyboard_read` | wait queues, `read(0, ...)` |
| initramfs `fs/tarfs.c`, `fs/vfs.c` | tree of nodes | archive parsing, `vfs_lookup` | open, execve, the loader |
| file descriptors `linux/io.c`, `linux/common.c` | `fds` of a process | open, close, read, pread64, lseek, getdents64, poll, pselect6, fstat, write, writev | fork, exit, initramfs |
| execve and the ELF loader `linux/process.c`, `loaders/elf.c` | copied vectors, image, page rights, initial stack | `exec_copy_strvec`, `elf_load`, `elf_prepare`, `process_replace` | initramfs, address spaces, heap |
| start-up `smp/boot.c`, `smp/ap_trampoline.asm`, `core/main.c` | trampoline page, `ap_alive_table` | `boot_ap`, `ap_main`, end of `kmain` | console, scheduler |
| console `lib/screen.c` | `fb_spinlock`, `console_suspended`, interrupt flag | `printk`, `user_print`, suspension | everybody prints |
| panic `core/panic.c` | `panicked`, `context_switch_lock`, NMIs | `panic`, `lapic_broadcast_nmi` | stops all CPUs, uses the console |

ACPI/PCI, ramfs/devtmpfs, the RISC-V port, the string library and the uconfig
tool are listed in `PROJECT.json` with the reason why they have no module.

What makes each correct: every `thread_t` is linked once, and the stack of a thread that
blocked or exited is left before anybody resumes or frees it (scheduler); no wake-up is lost (wait queues); each `process_t` is freed once, after its
parent had the chance to wait for it (processes); a thread finds its own page table and
thread pointer and no stale translation (CPU context); a tree of tables is a flat map, and a
call changes the page it names (page tables); each page of user memory has one owner (address spaces); blocks
tile the heap; reserved memory stays out of it (memory map); input arrives once and in order
(keyboard, descriptors); a path means the same file throughout (initramfs); a program
starts with the memory its headers describe and a well-formed stack, and a failed execve
leaves nothing behind; CPUs come up on their own stacks (start-up); messages stay whole
and no lock holder is interrupted (console); one panic is reported and stops the rest.

What is hard here:

* **Concurrency.** Threads run on several CPUs. A system call runs with
  interrupts off, so a CPU does not preempt it, but every other CPU runs in
  between: between a snapshot and the sleep that uses it, between the enqueueing of
  a child and the parent's last look at it, between the exit of a parent and the
  exit of its child, between the choice of the next thread and the moment the old
  stack is left.
* **Failure.** Every allocation may fail. fork and execve have dozens of them,
  each with a clean-up.
* **Reuse.** `thread_t`, `process_t`, page tables and pages are freed and handed out
  again at the same address, so stale pointers and cached values look valid.
* **Progress.** No ready thread may starve, no sleeper may miss its wake-up.

## 2. Modules

| Module | Models | Notes |
|---|---|---|
| `WaitQueue` | what snapshot/wait/wake promise | abstract: a wake-up reaches everybody at once; a sleeper is asleep only while no wake-up came since its ticket |
| `Scheduler` | `exec/scheduler.c` | one step per critical section of `scheduler_lock` and per piece of code between two of them; implements `WaitQueue` |
| `SchedulerProofs`, `ProcessProofs`, `AddressSpaceProofs`, `MemoryProofs`, `CpuContextProofs`, `KeyboardProofs`, `SystemCallProofs`, `StartupProofs` | | the theorems of section 5 |
| `Process` | `exec/process.c`, wait4, clone, exit, spawn | uses `WaitQueue`, so what `Scheduler` implements is what it relies on |
| `CpuContext` | CR3, `active_cr3`, FS base, the TLB of each CPU | page tables are addresses that are freed and reused |
| `PageMap` | what page tables promise | abstract: each address space is a flat map from pages to frames and rights |
| `Paging` | `mm/vmm.c` on trees of tables | implements `PageMap`; a walk is one operator per level |
| `AddressSpace` | owners of physical pages | tables reduced to a root and one level; first-fit allocation of pages |
| `CharQueue`, `Keyboard` | a bounded character queue; the ring, both handlers, `keyboard_read` | `Keyboard` implements `CharQueue` and uses `WaitQueue` |
| `MemoryMap` | `memory_init_base`, `memory_reserve_range`, the search of `memory_init` | one step per turn of a loop |
| `Heap` | `memory_init`'s block, `malloc`, `page_alloc`, `free` | extends `MemoryMap` and goes on where it ends; the headers are kept at their addresses, so that the block list being sound is a property |
| `TarFs` | archive parsing, links, lookups | the recursion of `tarfs_walk` is a recursive function on the components of a path, that of `tarfs_follow` one on the links left to follow |
| `FileTable` | descriptors over the read-only tree | calls that change nothing are operators: what they answer |
| `Execve` | `execve` from the copy of its vectors to the new program, with `elf_load` and `elf_prepare` | one call, one step per allocation, each of which may fail |
| `Console` | `printk`, `user_print`, the suspension, `panic`, the NMI | what CPUs do between messages is left to the module that extends it |
| `Startup` | `boot_all_aps`, trampoline, `ap_main`, end of `kmain`, ticks and system calls | extends `Console` |
| `MC...` | | constants and symmetry for TLC |

In each module the variables keep the names of the C variables where they exist;
variables marked *history* in the declarations are not read by any step. The `map`
of `PROJECT.json` ties each definition to its lines. Definitions with a name such
as `WakeAll_NoSeq`, marked `(mutant)`, are plausible bugs; replacing the original
by one of them must make TLC find the named property violated.

Abstractions worth knowing:

* `Scheduler`: `pc` says where a thread is in kernel code; `leaving[c]` is the thread
  whose kernel stack CPU `c` still uses after `scheduler_unlock`, until
  `LeaveStack`. The idle thread of a CPU has the name of the CPU. A thread whose time is over
  is enqueued while its CPU is still on its stack (`scheduler.c:329`); the model has that step,
  and no property is about it: `LeftStackUntouched` speaks of blocked and exited threads.
* `Process`: `process_lock` is explicit only where it is held across calls; a step
  that takes and releases it is atomic. `asleep`, `seq`, `ticket` are those of
  `WaitQueue`.
* `CpuContext`: a switch has two steps, one under the lock and one that writes CR3. A CPU
  may cache a translation of the table it has loaded at any moment (`Walk`); a write of CR3
  drops all of them (user pages are never global), `invlpg` one, on this CPU only.
  `SpaceMatches` speaks of the time outside the tail of a switch: between
  `scheduler_unlock` and `write_cr3` the old table is still loaded, but only kernel code
  runs. A page table is its leaves here; how it is built is `Paging`.
* `Paging`: a call is one step, with a number of allocations that succeed before one fails. The
  copy of a space for fork is one step per entry, with the running `clone_user_level` of each
  level in `call`, so that the other process maps, unmaps and ends while it runs.
  Two calls never work on the same user half: a process has one thread, and all of them
  run with interrupts off. mmap, mprotect and munmap test no address, so the calls of a process
  also name pages of the kernel half, whose tables are everyone's (`Owner`): they split its large
  leaves and add tables, and every space sees the change. Two kinds of such calls end what the
  model follows (`KernelHit`, variable `disturbed`): those that change a page the kernel
  itself depends on, perhaps while another CPU walks the same tables without a lock, and those
  below a root slot that the kernel leaves empty (`Followed`), which give one space tables of its
  own that no other space sees and `free_page_table` never visits. A table or page gets the frame of its
  place in its space, because which free frame the allocator picks makes no difference; that pages and tables do not overlap
  physically is `Heap`'s business. Tables have two entries each but four levels. The
  loader's tables hold large leaves in both halves; `boot_ap` splits that of the low half, before
  there is a process, as `kmain` does.
* `MemoryMap`: `modules`, `reserved`, `original` and `full` remember what the properties
  speak of. A boot loader that hands over no map, and a region too small for a header, are
  left out.
* `Heap`: `malloc` and `page_alloc` are one step; the loop of `free` over the whole list is one
  step per turn, with the lock held. A pointer is freed once, by who holds it. `malloc` of 0
  and a request that does not fit answer NULL and change nothing.
* `AddressSpace`: a page is a number; one step per allocation and the page it serves,
  each of which may fail. Protection bits play no role in who owns a page and are left out;
  the rights of a page are in `Paging` and `CpuContext`. `addr` and length of mmap and munmap are
  any numbers, because the code tests none (`Page` is what `pt_index` makes of one): a block may run
  from the user half into the kernel half, `mmap_current` may leave the user half, and it moves
  also when `page_alloc` then fails. Of the kernel half the model keeps the memory that tables
  there take, which nobody frees (`KernelTable`, counted as `leaked`), and the end of all claims when
  a call changes a page of the kernel's own (`KernelDisturbed`).
* `TarFs`: a path is the sequence of its components; stripping of `./` and slashes is
  already done. Nodes keep names of up to 255 characters, of which an archive makes up to 155
  (`tarfs.c:84`), and `vfs_next_token` takes 127 of a component (`vfs.c:110`): `Token` is that
  cut, given by the constant `Cut`, which `tarfs_walk` does not make.
* `FileTable`: a file is a number of bytes, a directory a number of entries. Offsets and counts are
  numbers modulo `Width`, 2^64 in the code, so that `offset + size` in `tarfs_read` wraps
  around; the read that then copies past the end of the file (`Overruns`) ends in a fault of the
  kernel (`Fault`). Descriptors are also taken from `Outside`, on both sides of the table: the
  calls that test for one answer EBADF, and getdents64, mmap and read, which do not or do it too
  late, reach other memory or fault (`Stray`).
* `Execve`: memory is a function from addresses to bytes of the file or zero, page
  rights a function on pages; a string of a vector is its length. A table that cannot be
  had makes `elf_load` fail; the page that cannot be had is `LoadFaults` of
  `AddressSpace`. Relocations are left out, because both callers of the loader pass
  `apply_relocs = false`.
* `Console`: a message is two pieces of output, so that another CPU can come between.
* `Startup`: an AP is "off", has its SIPI, is in the trampoline, in `ap_main` or in its
  idle loop; on top of that `mode` says whether the CPU runs a thread. A CPU without an
  interrupt table that takes an NMI, or jumps through a blank trampoline, resets the
  machine (`down`).
* `Process` and `Startup` choose their instance (`Limits`, `Machines`) in `Init`, so that
  one run covers several small machines rather than one large one.

## 3. Runs

| Run | Shows | Bounds |
|---|---|---|
| `scheduler` | types, one place per `thread_t`, stacks in use untouched, no lost wake-up, implements `WaitQueue`; ready and woken threads run, exited ones become reapable | 2 CPUs, 2 threads, one queue, one wake-up |
| `process` | no use after free or double free of `process_t`, every zombie has a living parent, no sleeper misses an exit or an inherited zombie; a blocking wait4 returns | 3 processes that do everything; 2 addresses for 4 processes; 4 processes of which two fork and one waits |
| `cpu_context` | user code runs with its own tables, its own FS base and no stale translation | 2 CPUs, 2 threads, 3 tables, 1 page with 2 rights |
| `paging` | the trees implement `PageMap`, and each table has one owner, also after calls that failed half way | 2 processes, 4 levels of 2 entries, 2 pages of the user half, of which a copy leaves one out, 1 of the kernel half in a large leaf, 1 page that `boot_ap` maps; calls and copies that run out of memory at any allocation |
| `keyboard` | ring is a FIFO, nobody sleeps on input, input is read while somebody reads | 2 readers, ring of 3, 3 characters |
| `memory` | exactly the reserved addresses leave the map; blocks tile the heap, held blocks are disjoint, pages aligned, no free neighbours; what is held is usable memory outside modules and kernel | 4 firmware maps, 2 of 7 modules, map of 4 entries, heaps of up to 56 units with header 6 and pages of 16 |
| `address_space` | one owner per page, no sharing between processes, heap below the break mapped | 2 processes, 8 pages, 4 pages per table, blocks of up to 2 pages at the next free address or at the last page of the user half, from where they reach the kernel half |
| `tarfs` | files whose names fit a token are found, the lookups part ways where a name is cut and only there, and nothing that was found changes | 3 entries, 3 names of which one is longer than a token and begins with another, 7 paths, chains and loops of links |
| `file_table` | all calls agree on what is open, inside the table and outside, streams in order, poll, fstat and newfstatat truthful | 2 processes, 4 descriptors and one on either side of the table, a file of 2 bytes and a directory of 3 entries, numbers that wrap at 8 |
| `execve` | nothing leaks or is freed twice at whichever allocation it fails; segments, rights of shared pages, AT_PHDR and the initial stack are right | 7 vectors for argv and envp each, up to 3 segments around a page boundary, with and without interpreter |
| `startup` | own stacks and held trampoline, whole messages, no interrupted lock holder, APs arrive and take interrupts; the panic is reported, user code ends | 3 machines: 2 APs; 1 AP with a thread and panics on both CPUs; 1 AP without invariant TSC |

`TypeOK` of `Scheduler` is checked and proved, that of `Process`, `Keyboard` and `Startup` is
proved. In the other modules it documents the state; their runs check what depends on it.

Why the bounds are enough: the invariants and the refinement of the scheduler are proved
for all sizes, so its run only has to be large enough for the liveness properties: two
threads on two CPUs compete, wait for and wake each other. The properties of `memory`,
`cpu_context` and `paging`, and the invariants of `process`, `keyboard`, `address_space`, `file_table`,
`execve`, `tarfs` and `startup`, are proved for all sizes too. Three tables are what it takes for one that
execve freed to be handed to the other thread. Four levels of two entries give a large leaf
that is split twice, and a copy that stops in the middle of a subtree; the one root slot of the
kernel half is one the kernel uses, so the runs follow every call there up to `KernelHit`. Three processes give a
parent, a child and init, the fourth an orphan that was never init's child. The
small rings, heaps, stacks and tables are chosen so that the full, wrap-around,
no-memory and exactly-fitting cases all occur. Two APs are what it takes to see one
overwrite the trampoline of the other. Counters that the code never resets (`seq`, pids,
characters typed) have a named bound. Symmetry is used only without liveness properties.
`startup` does not check for deadlock: after a panic every CPU may be halted.

Some properties name what the code does not promise, and are claims about the rest:

* `OwnStack`: an AP that answers after `boot_ap` gave up on it runs with
  the trampoline of its successor (`gaveUp`);
* `ApsArrive`: `printk` returns from a suspended console without restoring the
  interrupt flag (`screen.c:229`); an AP whose start-up message comes that late stays
  without interrupts (`masked`); without an invariant TSC `lapic_calibrate` sleeps until an interrupt that
  an AP never gets; fb_spinlock is not fair against programs that print all the time;
* `PanicReported`: the NMI, or the exception, can stop a CPU that holds `fb_spinlock`, and
  `kmain` can suspend the console just after the panic has resumed it (`tooLate`);
* `HolderUndisturbed`: `tgkill` and the echo of the keyboard write without the lock;
* `AllocationsBalanced`: the copy of an empty argv is lost (`linux/process.c:89`);
* `SegmentsInMemory`: `prev_seg_flags` remembers one segment, so of three segments in one
  page the first loses its rights; for AT_PHDR the end of a segment is compared with `<=`
  (`elf.c:525`), so headers that begin exactly there are left out;
* `HeldMemoryIsFree`: after the map overflowed (`pmm.c:335`) a module stays usable; and a
  largest region that ends at or before the end of the kernel is not moved (`pmm.c:212-221`);
* `CallsAgree`: `writev` adds up errors, so that a file answers -1 for one vector, -2 for two
  and -9, EBADF, for nine; the property looks at two. It speaks, as `StreamInOrder` does, of the
  time until the kernel faults: getdents64 (`common.c:500`, `:506`, `:552`) tests its descriptor
  against neither end of the table, the mmap of a file (`linux/memory.c:95`) not against the upper
  one, read takes the offset before `do_read` tests, and `tarfs_read` (`tarfs.c:210`) skips
  its clamp when `offset + size` wraps around 2^64;
* `FilesAreFound`: a component of more than 127 characters is cut by `vfs_next_token`
  (`vfs.c:110`), so that a file under such a name is never found; `LookupsAgree` says what such a
  path finds instead;
* `TablesAccounted`, `FlatMap`, `FramesAccounted` and `Isolated`: the code does not keep processes out of
  the kernel half (`linux/memory.c:77-83`, `:115-119`, `:147`, `:171`). A call there changes what all
  processes see, which is what `FlatMap` says of it, and takes memory nobody frees, which
  `FramesAccounted` counts as leaked; `Isolated` is about user memory. From the moment such a call
  changes a page of the kernel's own none of them claims anything, nor `TablesAccounted` and `FlatMap`
  from the first call below a root slot the kernel leaves empty.

One run is expected to fail, on a statement of the source:

* `address_space_brk`: `linux/memory.c:29` says that a page of the break is "released
  when the process exits or execs". When `vm_page_list_add` fails the page is already
  mapped and no list holds it: it is never released. (`BrkPagesReleased`)

`AddressSpace` also shows a step that ends the run: `elf.c:488` tests for a missing page
to report `ELF_ERR_NO_MEMORY`, but after the NULL went through `hhdm_virt_to_phys`, where
it is no longer zero; the kernel clears the page at NULL (`LoadFaults`, then `Halted`).

`Isolated` leaves out the pages that a failed mmap left mapped to a block it freed
(`linux/memory.c:119-121`); they are collected in the history variable `stale`.

## 4. Fairness

* `Scheduler`: strong fairness of `Schedule(c)` and weak fairness of the kernel steps and
  of leaving the stack. The LAPIC timer is periodic; a tick that arrives while a system
  call has interrupts off stays pending and is taken when it returns to user mode, so a
  CPU that is again and again interruptible does schedule.
* `Process`, `Keyboard`: weak fairness of the steps inside a system call or a handler,
  which is what `ReadyRuns` of `Scheduler` and the absence of preemption in the kernel
  give. No process has to make a system call, and nobody has to type.
* `Startup`: weak fairness of printing and of the panic on each CPU, of a switch that has
  begun, of a pending NMI and of an AP that has left its SIPI; these run with nothing to
  wait for but `fb_spinlock`. An AP need not start, a tick need not come and no program
  has to make a system call.

## 5. Proofs

`SchedulerProofs` proves, for every set of CPUs, threads and wait queues and every bound,
under `SchedulerAssumption` (the boot CPU is a CPU; the names of CPUs, threads, queues
and NULL are different):

| Theorem | States |
|---|---|
| `Inductive` | `Spec => []IInv` |
| `TypeCorrect` | `Spec => []TypeOK` |
| `LinkedOnce` | `Spec => []OnePlace` |
| `StackSafety` | `Spec => []LeftStackUntouched` |
| `NoLostWakeup` | `Spec => []ParkedSawLastWake` |
| `ImplementsWaitQueue` | `Spec => WaitQueueSpec` |

None of the four invariants is inductive. `OnePlace` says that two links of a thread are
never present at once, but a step adds a link because of what it knows of the thread's
*state*: a switch enqueues `curr` because it is RUNNING, the reaper frees what it took
because it is TERMINATED. `IInv` therefore says for each state where exactly the thread
is linked: the ready queue holds the READY threads, each once (`ReadyInv`); a CPU runs
its idle thread or a thread of its own (`RunInv`, `IdleInv`); a BLOCKED thread is current,
pending or on one wait queue (`ParkInv`, `QueueInv`); a TERMINATED one is current,
pending, a zombie or being reaped, by one reaper (`DyingInv`, `ZombieInv`, `ReapInv`); an
UNINITIALISED one is held by its creator (`BirthInv`); each allocated thread is
somewhere (the `...Home` conjuncts); and the code locations fit (`LocationInv`). `TailInv`
ties the stack being left to `pending_park` and `pending_zombie`, which gives
`StackSafety`; `SeqInv` says that what is on a queue saw its current `seq`, which gives
`NoLostWakeup`. There is one lemma per action, with one step per conjunct it can disturb,
and lemmas on the sequences that the queues are.

`ImplementsWaitQueue` says that each step of the scheduler is a step of `WaitQueue` or none.
A thread sleeps, in the refinement mapping, when it is BLOCKED with a `wait_seq` that is
still the `seq` of its queue, wherever it is on its way to the list. The proof needs
`TicketInv` besides `IInv`: no snapshot and no `wait_seq` is ahead of the queue's `seq`. If one
were, a wake-up could bring the queue *to* that number and put a thread to sleep that the
abstract queue just woke.

`MemoryProofs` proves, for every firmware map, every set of modules and every size of header, grain,
tail and page, under `MemoryMapAssumption` and `HeapAssumption` (sizes are positive, a header
and the smallest tail fit a page):

| Theorem | States |
|---|---|
| `MapIsExact` | `Spec => []ReservedExactly` |
| `HeapIsTiled` | `Spec => []BlocksTileHeap` |
| `HeldIsUsed` | `Spec => []HeldMatchesUsed` |
| `AllocationsAreFreeMemory` | `Spec => []HeldMemoryIsFree` |

The invariant about the map (`MapInv`) says, in the middle of the loop of
`memory_reserve_range`, that the entries before `i` no longer touch the range and those from
`i` on may (`TakenOut`), that nothing was lost (`LostNothing`) or made up (`MadeUpNothing`),
and which entry the search has found (`LargestFound`). `TileInv` says that the blocks tile the
region, in the middle of `free` too; a lemma each shows that cutting a block in two (`malloc`,
`page_alloc`) and swallowing the next one (`free`) preserve it.
"No two free neighbours" is not inductive, since it fails during `free`: `PairInv` says that
such a pair lies ahead of the loop. `HeldInv` ties the callers' pointers to the used
blocks. `HeldMemoryIsFree` then follows from the tiling and `LargestFound`: a block lies in the
region, the region in a usable entry, and that clear of the modules.

It also proves, for every even fanout, every set of processes, of pages and rights they use and
every range that a copy leaves out, under `PagingAssumption` (`boot_ap` maps pages of the low half and
processes pages of either, the range left out ends in the low one, and frames mapped at a caller's
wish are none that the allocator hands out):

| Theorem | States |
|---|---|
| `PagingInvariant` | `PtSpec => []PtInv` |
| `TablesAccountedAlways` | `PtSpec => []TablesAccounted` |
| `FlatMapImplemented` | `PtSpec => FlatMap` |

A table of a space is table `n` of its level, counted from the lowest address. The heart of `PtInv`
is `Trees`: a table that is not a root is linked from slot `At(n)` of table `Up(n)` one level higher
(`Upward`), an entry that names a table names the one of that place, which is there (`Downward`),
every root has the kernel half of the kernel's (`Shared`), and a process has no large leaves in its
own half (`Plain`), which is why the copy never meets one and calls split none there. In the kernel
half they do: there a call of any space works on the tables of the kernel's, which is why all
spaces keep sharing them, as long as it does not add to an empty root slot (`Followed`).
`TablesAccounted` follows from `Trees`: the place of a table determines the one slot that links it.
One lemma each shows what linking a table, writing an entry and freeing a user half do to the trees.

That is not enough for a copy in progress: `CopyOk` says that the call of each level stands at the
same place in both spaces, that the entries ahead of it are still empty in the new one, and that the
pages behind it are copied or left out (`DoneOk`). At the end everything is behind, which is the
step `Copy` of `PageMap`; a failure frees the trees built so far, and nobody has seen them.

For the refinement each lemma about a tree has a companion about what the walk of the hardware sees:
splitting a large leaf or adding an empty table changes nothing for anybody, writing a last-level entry
one page of one space, or of all of them in the kernel half, which is seen alike from every root.
`boot_ap` alone changes the low half of the kernel's map, and it runs before there is a process.

`CpuContextProofs` proves, for every set of CPUs, threads, tables, pages and rights, under
`CpuContextAssumption` (their names are different):

| Theorem | States |
|---|---|
| `ContextInvariant` | `Spec => []CtxInv` |
| `OwnSpace` | `Spec => []SpaceMatches` |
| `OwnThreadPointer` | `Spec => []TlsMatches` |
| `NoStaleTranslation` | `Spec => []TlbFresh` |

`SpaceMatches` alone does not survive a step: that another CPU's execve or exit cannot free
the table that is loaded here needs that no table belongs to two threads, prepared and
retired ones included (`TableInv`), and no thread to two CPUs (`RunInv`); that the second half
of a switch loads the right table needs what the first half left behind (`SwitchInv`). The heart is
`CacheInv`: `active_cr3` may be wrong, because execve writes CR3 past it, but never when it
names the boot table; and that is the only case in which the scheduler believes it. For
`TlsMatches` the invariant adds what a thread that does not run has saved (`SavedInv`).
`TlbFresh` needs `RunInv` again: a table is changed only by the one thread whose table it
is, on the CPU that runs it, and that CPU flushes; whatever another CPU has cached from it
is dropped when it loads a process.

`ProcessProofs` proves, for every set of processes, every range of pids and every mix of
programs, under `ProcessAssumption` (init is a process, NULL is none, the arguments of wait4 are
pids or 0):

| Theorem | States |
|---|---|
| `TypeCorrect` | `Spec => []TypeOK` |
| `ChildStays` | `Spec => []ForkedChildStays` |
| `ReapedOnce` | `Spec => []OneReaper` |
| `ZombieIsReapable` | `Spec => []ZombieHasLiveParent` |
| `NothingSleptThrough` | `Spec => []SleeperMissedNothing` |

The invariants need each other. That a zombie has a living parent follows from `ParentInv`: every
listed process with a parent has one that has not yet passed the reparenting of
`process_terminate`, which in turn needs pids to be given out once (`PidInv`) and init to stay
(`RootInv`). The child that `do_clone` reads is safe because its parent is its creator
(`ChildInv`, `CreatorInv`) and nobody else may reap it. Between two steps of an exiting process
the lock is held (`LockInv`). `WaitInv` is `SleeperMissedNothing` for a caller that has *decided*
to sleep: from the ticket on, a zombie among the awaited is new only if its wake-up is under way.

`AddressSpaceProofs` proves, for every heap, any number of processes and address spaces, every image
and every layout of the user half, under `AddressSpaceAssumption` (NULL is no frame and no space;
the stack, the image, the limit of the heap and the start of the mmap area, which are constants of
the code, lie in the user half; the arguments of mmap and munmap are any numbers):

| Theorem | States |
|---|---|
| `TypeCorrect` | `Spec => []TypeOK` |
| `PagesAccounted` | `Spec => []FramesAccounted` |
| `PagesIsolated` | `Spec => []Isolated` |
| `HeapIsMapped` | `Spec => []HeapMapped` |

"Exactly one holder" is awkward to carry through a step, so the invariant says it as a book: there is
a tag on each frame in use, the holder named by the tag has the frame, and whoever has a frame is
named by its tag (`AccountInv`, through `Booked`). One lemma per way to take a frame (`TakeRoot`,
`TakeTable`, ...) and to give some back (`FreeStack`, `FreeSpace`, ...) shows that the book stays
right; each step of a system call is one or two of them. The other parts say that a space belongs to
one thread, to run in or to build (`Distinct`), where that thread is (`SpaceOf`, `PhaseOf`), and that
what a space maps it also holds, once, and under a table (`MapOf`, `TabOf`). Two pages of a block
are different frames because a block is mapped in order: `BlockOf` says that the frames of the part
that mmap has yet to map are mapped nowhere, whether the block wraps around the address space or
not, and `StackOf` which frame is at which page in the middle of the stack. `HeapOf` carries `HeapMapped`
through the loops of `grow_process_brk` and `clone_user_level`: the child maps what its parent maps,
below the loop variable. A step touches one or two threads and spaces; `Local` and the lemma
`Assemble` discharge all others at once.

`KeyboardProofs` proves, for any number of readers and keys and every buffer of at least two
characters (`KeyboardAssumption`):

| Theorem | States |
|---|---|
| `TypeCorrect` | `Spec => []TypeOK` |
| `NothingSleptThrough` | `Spec => []SleeperMissedNothing` |
| `RingImplementsFifo` | `Spec => RingIsFifo` |

A reader with a good ticket found the buffer empty, and it still is or the handler is on its way
to the wake-up (`PromiseInv`); no ticket is ahead of the queue (`TicketInv`). For the refinement
the content of the ring is a sequence read from the tail on; lemmas on `% KBD_BUF_SIZE` show
that a push appends to it and a pop takes its head, wrap-around included.

`SystemCallProofs` proves, for any processes, descriptors in the table and outside, files and
directories of any length (`FileTableAssumption`: nodes are files or directories, at least three
descriptors; a length, and the size of a read, are numbers of the width that arithmetic wraps at)
and for any
images, vectors and stack (`ExecveAssumption`, `ExecveImages`):

| Theorem | States |
|---|---|
| `StreamsStayInOrder` | `Spec => []StreamInOrder` |
| `AllCallsAgree` | `Spec => []CallsAgree` |
| `AllocationsBalancedAlways` | `ExecSpec => []AllocationsBalanced` |
| `StackWellFormedAlways` | `ExecSpec => []StackWellFormed` |
| `SegmentsInMemoryAlways` | `ExecSpec => []SegmentsInMemory` |

`StreamInOrder` is inductive together with the types; the step of both readers is one lemma on
what `Deliver` appends. `CallsAgree` follows from `OpenInv`: beyond the console `used` and `vnode`
say the same, and only a live process has either.

The three theorems on execve rest on one invariant each. `CallInv` says what the heap holds at each
step: what the vectors own, the string being copied, and what the loader has allocated so far; so
every error path frees exactly that. `ArgInv` bounds the strings and their bytes by the budget that
`copy_user_string_vector` counts down, which is why they fit into the pages of the stack. `LoadInv`
is about the segments seen so far: their bytes are in memory and the rest of their pages is zero
(`FilesInv`, `ContentInv`), a page has the rights of all its segments together (`RightsInv`), which
holds because a page that two segments share lies at the end of the one that `prev` remembers
(`PrevInv`), and AT_PHDR points at the headers (`PhdrInv`). `ExecveImages` is what the ELF format
requires and `elf_load` does not check: PT_LOAD segments ascend and do not overlap, PT_PHDR has its
place in one of them; and program and interpreter share no page. Without it the segments can
overwrite each other and `SegmentsInMemory` says nothing.

`StartupProofs` proves, for any number of CPUs, every list of APs and any panics, under
`StartupAssumption` (the boot CPU is a CPU, the APs are others, NULL is neither a CPU nor a call):

| Theorem | States |
|---|---|
| `TypeCorrect` | `Spec => []TypeOK` |
| `MessagesStayWhole` | `Spec => []HolderUndisturbed` |
| `StacksAreOwn` | `Spec => []OwnStack` |

`FbInv` says who holds `fb_spinlock`: the CPU that writes, or one that panicked while it wrote.
That neither is interrupted needs `MaskInv`: interrupts are off in a call, in the kernel and in a
panic, and a message printed there does not switch them on at its end, because it saved them off.
For the stacks, `TrampolineInv` says that from the SIPI to the answer the trampoline belongs to the
one AP that `boot_ap` waits for, and that any other AP on its way was given up; so what an AP loads
from it is its own stack (`StackInv`), and only one that was given up, or an NMI to an AP without
an interrupt table, resets the machine (`DownInv`).

The same module proves, for archives of any length, any names and links of any depth, under
`TarFsAssumption` (entries have paths within the bound, "." and ".." are no names, what is left of a name that was cut is not cut
again, and the target of a link is a sequence of names, "." and ".."):

| Theorem | States |
|---|---|
| `TarInvariant` | `MountSpec => []TarInv` |
| `FilesAreFoundAlways` | `MountSpec => []FilesAreFound` |
| `LookupsAgreeAlways` | `MountSpec => []LookupsAgree` |
| `LookupsStableAlways` | `MountSpec => LookupsStable` |

`TarInv` says that the nodes are a tree (`Tree`: a parent is older than its children, and no two
siblings share a name), that each node is where some entry of the archive asked for it and is a
directory unless the entry of that very path made it something else (`Labels`), and that as long as
memory lasts every entry that decides about its path has a node at the end of a trail of
directories (`Placed`). A path is walked by a recursive function; that such functions exist and
satisfy their equation is the lemma `Recursion`, by well-founded induction on what is left of the
path, and the lemmas on walks are inductions on the same number. `LookupsAgree` (the VFS,
component by component, finds for a path what the walk of tarfs finds for the path with each
component cut) needs what a walk can reach: a
node all of whose ancestors are directories (`Solid`, `Ends`), by induction on the components and on
the links left to follow. `LookupsStable` holds because the tree only grows (`Grown`), and a
larger tree keeps what a walk found, one step at a time (`StepKeeps`, `WalkKeeps`, `LinksKept`,
`VfsKeeps`).

All inductive invariants were checked by TLC on the runs' instances before they were proved; in that
of `AddressSpace` the tags cannot be enumerated, and `FramesAccounted` stood for `AccountInv`; in
that of `TarFs` the labels cannot, and its three properties stood for it.

Only model-checked: all liveness properties, because fairness is out of the prover's reach. Every
invariant, every action property and every refinement that a passing run checks is proved as well.

## 6. Plan

Done: scheduler and wait queues, processes, keyboard, boot memory map and heap, CPU context and
TLBs, address spaces, descriptors, initramfs, execve with the ELF loader, start-up, console and
panic, page tables against a flat map, all with proofs.

Next, to model: exit statuses through wait4 for both system call ABIs and the `child_tid` of
clone; `ioctl` and the line the echo of the keyboard draws.

To prove: nothing that the prover can take is left of the present properties.

## 7. Not modelled

* Drawing: `drivers/framebuffer` with its cursor, scrolling and back buffer, and the
  formatting of `lib/screen.c`. The echo of the keyboard moves `cursor_x` and `cursor_y` without
  the lock that printing holds; `Console` has that as a write past the lock, and nothing more.
* `map_physical_range`: `memory_init_base` calls it before there is a heap, so `pt_pool_alloc`
  gives NULL and it fails as soon as a table is missing; otherwise it rewrites entries that the
  loader made. `set_page_permissions` and `set_page_executable` have no caller.
* `IA32_GS_BASE`: `arch_prctl` can write it, between the two `swapgs` of a system call, and no switch
  saves or restores it; `CpuContext` has the FS base only.
* What a process does to the kernel by changing pages of the kernel half, and what the memory beyond
  a descriptor table holds: `KernelHit`, `KernelDisturbed` and `Stray` mark where the models stop.
* A short read of `/init`, after which `kmain` goes on without a message (`main.c:102`):
  `tarfs_read` gives the whole of a file.
* Rights of `mmap` and `mprotect` from `prot`: mmap takes execute permission from bit 0 and
  mprotect from bit 2 (`linux/memory.c:90`, `:145`); `Paging` and `CpuContext` take any right.
* ramfs and devtmpfs: `kmain` mounts ramfs only without an archive, and then panics for want
  of `/init`; devtmpfs has no operations.
* ACPI, PCI and serial set-up, descriptor tables, timer calibration: register and firmware
  access at boot, in one thread, whose outcome is the hardware's.
* The RISC-V port (there `scheduler_wait` does not block), string helpers and the uconfig
  tool of the build.

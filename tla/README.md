# Neuclear, verified in TLA+

Neuclear is a monolithic kernel for one RISC-V hart, written in Rust
(`kernel/crates`, about 6200 lines). This directory models its core in TLA+,
checks the models with TLC on small instances and proves the central properties
with TLAPS.

The kernel runs with interrupts off. What a trap does is therefore not
interrupted until it returns to user mode or gives the processor up
(`__suspend_curr_and_run_next`, the waiting loops of `Pipe::read`,
`Pipe::write` and `sys_wait4`). These points are where processes interleave,
and where the actions of the models begin and end.

## Inventory

Paths are relative to `src/kernel/crates`.

| component | state | operations | hard behaviour | what makes it correct |
|---|---|---|---|---|
| processes and scheduling (`major/src/task`, `major/src/trap`) | pid allocator, process tree, ready queue, timer heap, processor | trap, yield, sleep, clone, exit, wait4, idle loop, batch mode | suspension inside a call, orphans, pid reuse, sleepers, the end of the system | a thread has one place; parents own children; no pid lost or doubled; FIFO; zombies are destroyed once, by their parent; ready threads run |
| pipes (`filesystem/src/pipe.rs`) | ring buffer, references to the two ends | read, write, close, fork | calls suspended half way, end of file, full and empty buffer | a FIFO channel; calls are complete; end of file releases readers |
| file descriptors (`trap/syscall/fs.rs`, `task/process.rs`) | one table per process, open files | openat, mkdirat, close, dup, dup3, pipe2, fcntl64, read(v), write(v), fork, exec, exit | sharing after fork, holes in the table, calls that fail half way | a file is held by those who opened or inherited it; lowest free descriptor |
| block cache (`drivers/src/block/block_cache.rs`) and disk driver (`fat32/src/lib.rs`) | FIFO of cached sectors, cursor | read, write, flush, seek, eviction | write-back, calls that span blocks, loss of power | a flat array of bytes; what was flushed survives |
| address spaces (`memory/src/memory_set.rs`, `page_table.rs`) | areas, tables of three levels, owned frames, program break, the root in `satp`, the TLB | load, brk, mmap, fork, exit, activate | several records of the same pages, placement, sharing at fork, a root the kernel itself runs on, translations the processor still remembers | a memory of its own for every process; mapped is owned; the kernel stays mapped; stale translations reach no other process |
| physical frames (`memory/src/frame_allocator.rs`, `deps/buddy_system_allocator`) | free lists per class, trackers | alloc, dealloc | splitting and merging, two ways of counting frames | no frame in two hands; frames come back |
| program loader (`major/src/task/loader`) | the first stack of a program | load, `init_stack`, and `_start` of the user library | writes through physical addresses across page boundaries, alignment | `main` gets the arguments that exec was given |
| signals (`signal/src`, `trap/syscall/process.rs`) | action table, mask | sigaction, sigprocmask, fork, exec | casts of the number, tables that outlive their program | actions belong to the program that runs; SIGKILL and SIGSTOP keep theirs |
| names and inodes (`vfs`, `filesystem/src/inode.rs`, `fat32`, `trap/syscall/fs.rs`) | slots and cluster chains of the volume, open files with copies of slots, working directory | openat, mkdirat, unlinkat, chdir, read, write, close | path gluing, two notions of equal names, copies that are written back late, reuse of slots and clusters | a tree of files that only writes change; no cluster lost or shared |
| console, logging, architecture, drivers (`utils`, `drivers/src/virtio.rs`) | none of their own | device access | none | not modelled |

How they interact: system calls reach files through the descriptor tables;
tables hold reference-counted files, so fork, exec, close and exit decide when
an end of a pipe is gone, which is what a blocked reader waits for; blocked
readers, writers and parents re-enter the ready queue; fork and exec take
frames for address spaces, whose areas give them back when they are dropped; the
processor walks the tables below the root that was activated last;
the FAT library reads and writes through the disk driver and the block cache.

## Modules

| module | models | composed with |
|---|---|---|
| `Task` | processes and scheduling | |
| `Channel` | what a pipe promises: a bounded FIFO with an end of file | |
| `Pipe` | ring buffer and calls | implements `Channel` |
| `PipeProofs` | theorems about `Pipe` | extends `Pipe` |
| `Holders` | what descriptor tables promise: who holds which open file | |
| `FdTable` | descriptor tables and the calls on them | implements `Holders` |
| `FdTableProofs` | theorems about `FdTable` | extends `FdTable` |
| `Disk` | what the driver promises: bytes, a cursor, and what survives a loss of power | |
| `BlockCache` | cache, driver and device | implements `Disk` |
| `BlockCacheProofs` | theorems about `BlockCache` | extends `BlockCache` |
| `VirtualMemory` | what address spaces promise: a memory per process | |
| `MemorySet` | areas, page tables, frames | implements `VirtualMemory` |
| `MemorySetProofs` | theorems about `MemorySet` | extends `MemorySet` |
| `FrameAllocator` | trackers and free lists | |
| `FrameAllocatorProofs` | theorems about `FrameAllocator` | extends `FrameAllocator` |
| `PageTable` | tables, roots, kernel mappings, TLB | extends `FrameAllocator` |
| `PageTableProofs` | theorems about `PageTable` | extends `PageTable` and `FrameAllocatorProofs` |
| `UserStack` | the first stack of a program, written by the kernel and read by `_start` | |
| `Program` | what a process carries: image, signal state, exit code | extends `Task` and `UserStack` |
| `ProgramProofs` | theorems about `Task` and `Program` | extends `Program` |
| `FileTree` | what the file system promises: a tree of files | |
| `Names` | paths, directories, files over a FAT volume | implements `FileTree` |
| `NamesProofs` | theorems about `Names` | extends `Names` |
| `MC*` | instances for TLC | extend the module they are named after |

Definitions carry the names of the functions they translate; PROJECT.json
names the lines of each. Operators marked "Mutant" in a comment are wrong
variants of the definition that follows; they show that the properties can
fail.

**Task.** One action is one run of `__trap_handler` (`TimerInterrupt`,
`sys_yield`, `sys_sleep`, `sys_clone`, `Exit`, `sys_wait4`, `OtherSyscall`
for the calls that touch none of this state, and `Unsupported`), one later
iteration of the loop in `sys_wait4` (`Wait4Again`), or one iteration of the idle loop (`FetchTask`,
and `SpawnApp`, `NoApp` of the build with feature `test`). Every trap first
calls `check_timer()`: its wake-ups are part of the action, as a choice among
the orders in which a binary heap may pop equal keys. The key of a timer is the
negated cast of its time to `isize`, so a very long sleep sorts first and hides
the others, as in the code. The allocator of pids is a stack of recycled ids.
Every process has one thread, because `sys_clone` accepts no flag that makes
another one. INITPROC runs the loop of `user/src/bin/initproc.rs`. Any other
program may at any time do what the kernel answers with a panic: `Unsupported`
stands for a trap that is not handled ("Unsupported trap"), the asserts of
`wait4` and `execve` on their arguments, and the `todo!()` of `sys_setpriority`
and `sys_spawn`. `NoPanicOfItsOwn` is about all other panics.

**Pipe.** One action is one iteration of a loop in `Pipe::read` or
`Pipe::write`. `cpu` is the process whose call runs; a suspended call has
dropped its borrow of the buffer and starts over at the top. References to the
two ends change with `Fork` and `Close` (which stands for exit, too).

**FdTable.** One action per call; a call that fails without an effect is left
out, one that fails with an effect (`dup3` resizes the table first) is not.
What `openat` finds is a choice. Panics of files that are read or written the
wrong way (`Stdin` of another length than one, `Stdout` with bytes that are not
UTF-8, the end of a pipe that `sys_writev` lets through) are states.

**BlockCache.** One action per iteration of the loops of `DiskDriver` and of
`block_cache_sync_all` (`StartFlush`, then `sync` for each cached block), because
a panic may switch the machine off between two of them. `Disk` accordingly
allows that a loss of power during a flush leaves a mixture of flushed and
unflushed blocks. The queue, the cached
blocks, their `modified` bits and the device are kept byte by byte.

**MemorySet.** Areas own frames, the page table maps pages, and both are kept
apart as in the code, so that they can disagree. Frames have contents. A fork
clones the frames and replaces them; `exec` recycles before it loads; `exit`
drops the areas only, and the entries of a zombie's page table stay, with frames
that are free or somebody else's, until `reap`. They are kept in `zombies`, as
nobody runs on them. A panic of the page table's assertions, or for want of a
frame, is a state. `sys_mmap` may be called any number of times; `remapped`
records that some program has called it again before its next exec. From then
on areas may overlap (`mem_mmap`), and the properties other than that run's
promise nothing.

**FrameAllocator.** The free lists of the buddy allocator, and the translation
between the kernel's frame numbers and the allocator's. `MemorySet` abstracts
from it and takes any frame that no tracker holds; `PageTable` uses it as it is.

**PageTable.** Where `MemorySet` takes a page table for a map, `PageTable` has
the tables: entries in frames that `find_pte_create` takes from the allocator
as it goes, roots whose upper half is shared with the kernel, and the order in
which exec, exit and `wait4` free them. An operation is a function of the free
lists, the tables and one address space, with a flag for the `unwrap`s and
assertions on the way; a loop over the pages of an area or over trackers is a
recursive function of the page or frame it has come to. A system call composes
these operations and is one step, because interrupts are off. `satp` and `tlb` change where the code writes the register
or executes `sfence.vma`, and nowhere else: `set_user_brk` does not flush. The
TLB is external. It remembers one translation at a time; since the properties
are about single entries and any entry may be dropped at any time, a larger one
reaches no other entry.

**UserStack, Program.** `UserStack` is a pure module: `init_stack` pushes bytes
through `kva`, which it translates only at page boundaries, and `Start` reads
them back through the page table as `_start` does. `Program` extends `Task` in
its batch build: each of its actions is an action of `Task` together with what
it does to the image, the signal table and mask, and the exit code. Programs
tag what they install with their own name, so that an action or a mask bit that
outlives its program can be told from a new one.

**Names.** A path is a sequence of pieces, so that the string operations of
`path_with_fd`, `sys_chdir` and `sys_unlinkat` (gluing, a leading "./", a final
slash, double slashes) keep their effect. The pieces that programs pass are
names, the empty one, "." and "..". The volume has slots, chains and bytes, the
clusters of a chain being those that the FAT leads to from the first one; an
open file has its own copy of its slot, name included, which `File::drop` writes
back as a whole, whatever is in the slot by then. The library rust-fatfs
(vendored in `deps/rust-fatfs`) is modelled as far as the kernel uses it. A call
that panics is not a step; the guards of `create_file`, `create_dir`,
`WriteFile`, `remove`, `open_inode` and `OpenMissing` are the conditions under
which the `unwrap`s succeed and no `unreachable!()` is met.

One condition is not the kernel's but the programs': rust-fatfs asks that a file
that is removed is not open, and its copies of slots bear no second descriptor
next to one that has changed its copy. The kernel checks neither, and neither
does the model: files are opened, written to and removed as the kernel allows
it. `Duty` states the condition as a predicate on states, and the history
variable `dutiful` records whether it has held so far. `sys_writev` writes
through descriptors that were opened O_RDONLY (`trap/syscall/fs.rs:136`), so the
duty concerns them as well: two read-only descriptors of one file break it as
soon as one of them has extended the file.

`ClustersAccounted`, `DirectoriesLinked` and `ImplementsFiles` are promises until
the duty is broken, and no further: copies then overwrite each other, so that
clusters are lost or shared, or overwrite a slot that has been reused, which
brings a removed name back next to its successor. `RelativeToCwd` holds
regardless.

## Runs

| run | instance | shows |
|---|---|---|
| `task` | 4 pids, under fairness | places, tree, pids, FIFO order, two-stage death, no panic but what programs are not supposed to do and the exit of INITPROC; a ready thread runs, a sleeper wakes because initproc polls, INITPROC reaps what it is handed once processes cease to exit |
| `task_sleep` (violation) | batch build, one app and its child | a sleeper never wakes while its parent loops in `wait4` |
| `program` | batch build, 2 apps, 3 pids, sleeps of 1 and 15 with words of 16, stacks of 6 pages of 16 bytes | arguments, signal actions, uncatchable signals, exit codes |
| `pipe` | 2 processes, 2 bytes of buffer, calls of up to 3 bytes | FIFO channel, contracts of the byte operations, borrows, completeness, release at end of file, draining |
| `pipe_full` (violation) | calls of up to 2 bytes | a read with a full buffer waits for another byte |
| `fd` | 2 processes, 2 open files, 3 descriptors while both live, up to 5 while one is alone | `Holders`; what is opened goes to the lowest free descriptors and nothing open is lost |
| `disk` | 3 blocks of 2 bytes, 2 cached, calls of up to 2 bytes | `Disk` with a flush that is interrupted between two blocks, coherence, durability, progress of the loops |
| `mem` | 2 processes, 6 frames, 6 pages, up to the second mmap between two execs | `VirtualMemory`, no aliasing, page table and areas agree, heap and break agree, no assertion fails |
| `mem_mmap` (violation) | two mmaps | the second mmap is placed over the first |
| `frame` | INITPROC and a child, 31 frames, tables of 2 entries | no frame in two hands, the walk of the tables is the map of the areas, the kernel stays mapped, what the TLB still knows reaches no other process, and is right for the pages of the program itself |
| `frame_leak` (violation) | 11 frames | frames that are given back are lost |
| `names` | 2 clusters of one byte, 2 descriptors, names a, A, d | until the duty is broken: `FileTree`, clusters accounted for, directories linked; always: relative names |

Why these bounds are enough to be interesting:

- Four pids are the least with which INITPROC, a parent, its child and a
  grandchild exist at once, orphans are handed over while zombies wait, and a
  recycled pid is used while another one is still recycled. In `program` a word
  of 16 makes a sleep of 15 a time whose cast is negative.
- The lengths of the arguments lie around the word and the page, alone and
  behind another string, and one list is too long for the stack, whose pages
  are in frames out of order. The signal numbers include 265, which is SIGKILL
  after the cast; the exit codes a negative one and one above 255.
- A ring of two slots is full, empty and neither, wraps around, and a call of
  three bytes has to be suspended. Two processes suffice for a reader and a
  writer on either side of a fork.
- Two files and three descriptors give a pipe and its copies on both sides of
  a fork, and holes. A process that is alone may make its table grow by two
  descriptors, by a call that finds none free, by `dup3` beyond the end, also one
  that fails, and by `fcntl` with a minimum. Longer tables of two processes at
  once are checked where they arise and not explored (`GrownAlone`).
- With three blocks and two places every cached block can be the next to go,
  and a call of two bytes that begins in the middle of a block spans two.
- Six frames let a process with code, stack and one page of heap fork; a heap
  of two pages can shrink by one. The program break takes values that are a
  multiple of the page size and values that are not. The states that a second
  mmap leads to are checked and not explored any further (`NotRemapped`), since
  nothing is promised there; `mem_mmap` shows what happens.
- 31 frames are blocks of 16, 8, 4, 2 and 1, which boot, two processes and
  their execs split and use up: as nothing comes back, a run of the model ends
  after a few of them. With tables of two entries the program, its heap and the
  stack use up to both tables of the last level below both entries of a root's
  next one; half of a root is the kernel's. Eleven frames suffice to lose one.
- Two clusters of one byte are the least with which a file has a chain, two
  files or a directory and a file compete for clusters, and a volume is full;
  three slots per directory leave room for one behind "." and ".."; paths of
  up to four pieces reach a file in a directory, absolutely, through `..`, and
  relative to a working directory and to a descriptor. The states in which a
  duty has just been broken are checked and not explored any further
  (`Dutiful`).

`fd`, `mem`, `frame` and `program` switch the deadlock check off: a process
table may become empty, memory may be used up or the kernel may have panicked,
and nothing happens any more.

Type invariants (`TypeOK`, `ProgramTypeOK`) are stated in the modules and
proved; no run is spent on them. The types of `PageTable` are part of its
inductive invariant, and so are those of `Names`, but for
the bytes of its clusters.

## Fairness

- `Task!FairSpec`: weak fairness of the idle loop and of the loop in `wait4`
  (the kernel does not stop by itself), of the timer interrupt (the timer is
  programmed before every return to user mode), and of the clock; strong
  fairness of initproc's next system call, because its code between two calls
  is a few instructions. No other program is assumed to do anything.
- `Task!BatchSpec`: the batch build has no initproc and its timer interrupt is
  never enabled. Here the idle flow is fair, and a program that runs in user
  mode sooner or later traps. That is more than the kernel can count on, and
  the sleeper of `task_sleep` does not wake even so.
- `Pipe`: weak fairness of the loop of a call that has the processor, strong
  fairness of `Resume` for each process: `ReadyRuns` of `Task` is the reason, a
  suspended thread is in the FIFO ready queue.

## Theorems

For every value of the constants that the named assumptions allow: any number
of pids, any sleep times and word size; any buffer size, set of processes and
length of calls; any number and size of blocks and any cache size; any number
of descriptors and files; any layout of pages, images and stack with any finite
set of frames; any number of frames and classes; any number of processes, any
size of a table, any programs and any lines of the root for the kernel; any
volume and cluster size, any names, paths and buffers.

| module | theorem | states |
|---|---|---|
| `ProgramProofs` | `Invariance` | `Spec => []Inv`, the inductive invariant of `Task` |
| | `Typing`, `Placement`, `ProcessTree`, `NoCycles`, `PidAccounting`, `CleanStop` | `TypeOK`, `ThreadsPlaced`, `ParentsOwn`, `Acyclic`, `PidsAccounted`, `NoPanicOfItsOwn` |
| | `TwoStageDeath`, `Fifo` | the action properties `DestroyedByParent`, `NoOvertaking` |
| | `ProgramInvariance` | the inductive invariant `ProgramInv` of `Program` |
| | `ProgramProcesses` | `ThreadsPlaced`, `ParentsOwn`, `Acyclic`, `PidsAccounted` of `ProgramSpec` |
| | `SignalOwnership`, `Uncatchable` | `SignalsBelong`, `UncatchableStay` |
| | `StatusDelivery` | the action property `StatusDelivered` |
| `PipeProofs` | `Invariance` | the inductive invariant `Inv` |
| | `Typing`, `ByteContract`, `BorrowContract` | `TypeOK`, `CallerContract`, `NeverBorrowedTwice` |
| | `Completeness` | the action property `CallsComplete` |
| | `Refinement` | `Spec => ImplementsChannel` |
| `FdTableProofs` | `Typing`, `LowestDescriptor` | `TypeOK`, the action property `OpensAtLowest` |
| | `Lifetimes` | `Spec => ImplementsHolders` |
| `BlockCacheProofs` | `Invariance` | the inductive invariant `Inv` |
| | `Typing`, `Coherence`, `Durability` | `TypeOK`, `CacheCoherent`, `FlushedIsDurable` |
| | `Progress` | the action property `LoopsProgress` |
| | `Refinement` | `Spec => ImplementsDisk` |
| `MemorySetProofs` | `Invariance` | the inductive invariant `MemoryInv` |
| | `Ownership`, `Isolation`, `Heap`, `Assertions` | `MappedIsOwned`, `NoAliasing`, `HeapEndsAtBrk`, `AssertionsUntilRemap` |
| | `Refinement` | `Spec => ImplementsVirtualMemory` |
| `FrameAllocatorProofs` | `Typing`, `Exclusive` | `TypeOK`, `NoFrameTwice` |
| | `NothingComesBack` | no drop of a tracker changes a free list |
| `PageTableProofs` | `Invariant` | `PTSpec => []IndInv`, the inductive invariant |
| | `FramesApart`, `TablesStoreTheMap`, `KernelNeverUnmapped` | `NoFrameTwice`, `WalkIsMap`, `KernelStaysMapped` |
| | `StaleNeverReachesOther`, `ProgramNeverStale` | `StaleReachesNoOther`, `ProgramIsFresh` |
| `NamesProofs` | `Invariant` | `Spec => []NInv`, the inductive invariant |
| | `ClustersAlwaysAccounted`, `DirectoriesAlwaysLinked`, `AlwaysRelativeToCwd` | `ClustersAccounted`, `DirectoriesLinked`, `RelativeToCwd` |

The steps of each proof are one lemma per action, on top of lemmas on the
operators the actions are made of.

**Task.** `Inv` is the conjunction of the invariants with `Acyclic`,
`InitprocInv` and `PanicInv`. None of them is inductive alone: `ThreadsPlaced`
after a fork needs that the new pid is in no queue, which follows from
`PidsAccounted`; `PidsAccounted` after a reap needs that the child is live and
in `children` once, which is `ParentsOwn`; `ParentsOwn` after an exit needs that
INITPROC, to which the orphans go, has not exited (`InitprocInv`); that the last
process to see ECHILD is alone needs that parents lead to INITPROC (`Acyclic`,
stated for sets of processes to avoid induction over paths). `Fifo` needs that
no thread is in the queue twice, so that it has one position, and that a step
extends the queue behind, takes its head or leaves it alone (`QueueStep`).

**Program.** Every action is one of `Task` with an effect on what a process
carries, but for an exec whose arguments do not fit: it panics in a way that
`Task` does not know, so `ProcessesInv` says `Inv` up to that panic and the
four invariants of the table beyond it. `SignalsBelong` needs that a running
process has an image (`Loaded`), `StatusDelivered` that a zombie's exit code is
still what it said (`StatusKept`), which a recycled pid could spoil and does
not, since a fork never takes the pid of a zombie. The decoding is arithmetic
on the low byte, for every integer. `MaskAssumption`: programs pass masks over
the signals there are.

**Pipe.** `Inv` adds `RingInv` (head meets tail exactly in the states Full and
Empty), `CallInv` (what a call counted before its loop is still there in the
loop, because nobody else runs) and `EofInv`. The refinement maps the ring to
the sequence of the bytes from head to tail; its core is what the lemmas
`ReadByteContents` and `WriteByteContents` say the two do to that sequence.

**FdTable.** `TypeOK` is inductive and says that a dead process has an empty
table; the rest are facts on what `alloc_fd_from`, `dup3` and exec make of one
table. For `LowestDescriptor` they are that a file which nobody held comes into
a table by `Place` only, that `Place` leaves no free slot below the one it takes,
the second file of `pipe2` included, and that it takes nobody's. The refinement
maps the tables to the sets of files that stand in them.

**BlockCache.** `Inv` adds to coherence and durability `CallInv`: a call in
progress lies within the device, and what it has yet to read or write fits
behind the cursor. The same conjunct says of a flush in progress that the blocks
it has passed are unmodified, so that at its end `CacheCoherent` puts all of them
on the device. The refinement maps the device overlaid with the cached
blocks to a flat array, and a step of the flush to a write-back of one block. Eviction is then a stutter because of `CacheCoherent`;
the index arithmetic (byte `a` is byte `a % BLOCK_SIZE` of block
`a \div BLOCK_SIZE`) is proved once, for every block size.

**MemorySet.** `MemoryInv` is `remapped \/ Sound`, and `Sound` adds `Layout` to
the invariants: the areas of a
process are disjoint, in order, and end below `LOW_END`; the code lies below the
heap, the heap below `MMAP_START`, at most one mapping lies between that and
the stack. This is what makes a free range of `try_map`'s search free in the
page table, and a grown or shrunk heap meet nobody. The search itself is a
recursive function whose value is found by a least counterexample instead of an
induction. The theorems hold of programs that call mmap as often as they like
and promise nothing once one has called it again before its next exec: the
invariants fail then, as run `mem_mmap` shows. What the areas, tables and frames
are said to be concerns the processes that run; the entries of a zombie's table
are only typed, and nothing needs more, since `reap` drops them unread. The
assumptions on constants are that sections are disjoint
and below `MMAP_START` and that there are frames to boot with.

**FrameAllocator.** `TypeOK /\ NoFrameTwice` is inductive: a split keeps blocks
disjoint and aligned because `TypeOK` says that a block of class c begins at a
multiple of 2^c. No prover here knows `2^n`: `PowersAssumption` states its
recursion up to 2^BITS, the width of a usize, and TLC evaluates it. `NothingComesBack` is
the reason of `frame_leak`: the count a drop passes is at least 2^ORDER
(`BeginAssumption`, memory begins at 2^19 frames, there are 15 lists), beyond
the last list.

**PageTable.** None of the five invariants is inductive. `IndInv` says, of all
address spaces at once, the kernel's and those of zombies included:

- *memory* (`Mem`): lists and trackers are well formed and apart, and no frame
  that was ever taken is in a list. The last part is what `NothingComesBack`
  gives: what an operation takes is unknown to everybody, the TLB included;
- *spaces* (`Spaces`): the tables below a root form a tree, in which no table
  is entered twice, their frames and the data frames have trackers, and no
  frame belongs to two spaces. Without the tree a write to one entry might
  change the translation of another page; without disjointness, of another
  process;
- *kernel* (`Shared`): the kernel's lines of every root are the ones of its own
  root, which translate its frames. `exec` clears the other half only, and
  nothing else writes to a root's upper half after boot;
- *stacks and programs* (`Stacks`, `Programs`): every process has a kernel stack
  of its own, a zombie has no data, and the tables of a process that is ready
  translate exactly the pages of its areas, those of its program and its stack
  among them, which brk does not touch;
- *processor* (`Cpu`): `satp` is the root of a space that exists, and of the
  process that runs. A translation that is remembered leads to a frame without
  an owner or to a data frame of the ready process whose root is in `satp`; if
  it is one of that process's program or stack, the tables say the same.

One relation, `Ext`, says what an operation on one space may do to the memory:
it changes the entries of this space's tables only, gives back only what the
space owned and takes only frames that were never taken. It is transitive and
holds of `map_one`, `unmap_one`, `recycle_user_pages`, `load` and the others;
`ChangeSys`, `CreateSys` and `ReapSys` then lift it to the whole system, so that
the lemma on a system call is about the one space that it works on. A loop is a
recursive function, which exists by well-foundedness of the naturals; that its
last value is right is shown by a least counterexample (`Induct`), because an
induction rule would have to be instantiated with an operator. The assumptions
on constants are that the kernel's lines are in the upper half, that its linear
mapping lies there, that programs lie below the stack, and that a kernel stack
has more than one page, which tells its tracker from those of tables.

**Names.** `NInv` says of the working directory that it is an absolute path with
a final slash (`CwdType`), and, as long as `dutiful`, of slots, FAT and open files
together (`Good`):

- *accounts* (`Accounts`): the chain of an entry begins where its slot says, or
  where the copy of whoever changed it says. The chains are disjoint, and the
  clusters on them are those in use. `ClustersAccounted` is this, counted;
- *tree* (`IsTree`): whatever has slots is a directory that is entered in one
  other (`Housed`, `Single`), begins with "." and ".." (`Dotted`), and whose names
  differ in more than case (`Distinct`). Without `Housed` the clusters of a
  removed directory could still hold slots when a new one takes them;
- *handles* (`Handles`): an open file is on the slot of a file, whose name its
  copy bears; a copy without changes begins where the slot does; a copy with
  changes is the only one on its slot; its place lies on its own chain, and there
  is one whenever the offset is inside a cluster.

A call that the kernel allows may break the duty; then `dutiful` is false in the
next state and nothing is to be shown. Otherwise `Duty'` is what a lemma on a call
may use: that a file which is extended is open once, and that a slot which is
removed is nobody's. With two copies, the second to be dropped would write the
chain of the first away.

A chain is the least set of clusters that has the first one and whatever follows
in the FAT, so that the lemmas on it (`ReachSame`, `ReachGrow`: what a change of
the FAT elsewhere, and a cluster put at the end, do to a chain) are about sets
and need no induction. A walk is a recursive function of the pieces of a path;
that it arrives at what exists (`ResolveArrives`) is shown by a least
counterexample. `SlashIsRoot`, a path with a final slash is found only if it is
"/", is the reason why `sys_unlinkat` removes from the root only. Every change of
a directory is one slot replaced or added (`Edit`), and the lemmas on it say
which parts of `IsTree` it keeps. `NamesAssumption` tells the marks of the FAT from
clusters and "", "." and ".." from names; `CallsAssumption` says what programs
pass. Both are about the parameters of the model, and of the kernel no more is
assumed than the guards say.

Only model-checked, and why:

- what holds under fairness (`ReadyRuns`, `SleepersWake`,
  `InitprocReapsInTheEnd`, the liveness of pipes): out of TLAPS's reach;
- `ArgvDelivered`, which evaluates the bytes that a fold pushes and the two
  loops of `_start` that read them back, and `ImplementsFiles`, whose mapping
  gives an entry its path and its content by recursion along the tree and along
  a chain: the provers do no induction over data.

## Disagreements between the code and what it says

With a run (PROJECT.json, "findings"):

- `wait4` spins inside the kernel, so timers are not looked at (`task_sleep`).
- A pipe read that is satisfied exactly does not return (`pipe_full`).
- The second mmap of a program panics, or, when it is shorter than a page,
  takes the frames of the first away (`mem_mmap`).
- Frames are never given back to the allocator (`frame_leak`).

Seen while modelling, kept in the models, without a run of their own:

- The exit of INITPROC takes the branch that `process.pid.0 != 0`
  (`task/mod.rs:84`) is meant to spare it, as pids begin with 1, and borrows
  its own PCB twice: action `ExitOfInitproc` of `Task`.
- In test mode the kernel stops with "No more tasks available."
  (`task/processor.rs:67`) while the threads that `check_timer()` has just
  woken are ready: action `NoApp`.
- `sys_writev` asks `prepare_io` for a file to read (`trap/syscall/fs.rs:136`),
  so that it is refused for a file opened O_WRONLY, writes to one opened O_RDONLY
  (actions `sys_writev` of `FdTable` and `Names`), and panics for standard input
  and the read end of a pipe.
- `Stdin::read` asserts a buffer of one byte (`filesystem/src/stdio.rs:18`), and
  `Stdout::write` unwraps `from_utf8` of the bytes (line 67).
- O_CLOEXEC is not kept when a file is opened (`filesystem/src/inode.rs:39`,
  against the doc of the flag in line 93); and the mark is one of the open
  file, so that a child's `fcntl` decides about its parent's descriptor.
- `sys_mkdirat` leaves a descriptor open that the program is not told of
  (`trap/syscall/fs.rs:44`).
- A break shrinks without a flush of the TLB (`memory/src/memory_set.rs:392`).
  The program may go on using the old frame, also after the break has grown
  again and the page has another one. It reaches no other process only as long
  as frames never come back: repairing `frame_leak` without adding the flush
  breaks `StaleReachesNoOther`.
- `init_stack` pushes the key of AT_RANDOM before its value, so that it ends up
  above it; for the other entries, and in the comment ("type 在低地址",
  `loader/stack.rs`), the key is below. `_start` does not read the vector.
- Arguments longer than the stack panic the kernel after the old program is
  gone (`loader/stack.rs:29`, action `ExecveTooLong`).
- `sys_wait4` takes the zombie out of the tree before it translates the pointer
  for the status (`trap/syscall/process.rs:173`): with a bad one the call fails
  and the status is lost.
- `sys_sigprocmask` writes the old mask before it reads the new set (line 417);
  with one address for both it works with the old mask (`Passed`).
- `sys_setpriority` and `sys_spawn` are `todo!()`, `wait4` and `execve` assert
  some of their arguments (`trap/syscall/process.rs:134` and 99), and a trap that
  is not handled panics (`trap/mod.rs:104`): any program stops the system this way
  (action `Unsupported`).
- The user library's `OpenFlags::CREATE` (`1 << 9`) is the kernel's O_TRUNC.
- `sys_unlinkat` finds only names in the root directory: what comes before the
  base name ends in a slash, which `open_inode` does not find. Removing what is
  missing, a directory in use or "/" panics.
- `sys_chdir` looks nothing up and takes a relative path relative to "/".
- A path relative to a descriptor of "/" has two slashes and is not found.
- `open_inode` looks a name up as it is and has it created without regard to
  case: O_CREAT | O_EXCL of "A" opens an existing "a", and panics if that is of
  the other kind. O_CREAT of a path with a final slash creates the empty name,
  and panics; so does a full volume.
- A file that was truncated has a slot on the volume that names free clusters
  until it is closed; a panic in between leaves it there.

## Not modelled

The kernel heap, the buddy crate's statistics and virtio; permissions of pages;
stacks and ids of further threads, as no call creates a thread; long names with
several slots, generated short names, times and the extension of directories of
the FAT library; trap entry and context switch (assembly); console and logging;
and calls that only report (`fstat`, `getdents64`, `getcwd`, `uname`, ...).
PROJECT.json lists each component with the reason.

## Plan

What is planned next is composition: `Pipe` with `FdTable`, so that the ends of
a pipe are held by the descriptors of processes that fork, dup and exit, and
`Names` over the bytes of `BlockCache`, for what a loss of power leaves of a
volume. Of the proofs, that `Names` implements `FileTree` is what is left.

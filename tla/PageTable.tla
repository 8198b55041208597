----------------------------- MODULE PageTable -----------------------------
(***************************************************************************)
(* memory/src/page_table.rs: page tables of three levels in frames of the  *)
(* allocator, through boot, exec, fork, brk, exit and reaping, with the    *)
(* page table register and the translation cache (TLB) of the processor.   *)
(*                                                                         *)
(* Module MemorySet has areas and what pages contain, and takes a page     *)
(* table for a map from pages to frames.  Here is how such a map is stored *)
(* and when the processor comes to know of it.  Permissions are left out.  *)
(***************************************************************************)
EXTENDS FrameAllocator

CONSTANTS
  Proc, INITPROC,
  PTE_PER_PAGE,
  KernelLines,     \* entries of a root that are the kernel's: 508, 510, 511
  PA_TO_VA,        \* in pages
  Linear,          \* frames that the kernel maps linearly
  DMA,             \* frames of the disk driver
  KSTACK,          \* KERNEL_STACK_SIZE / PAGE_SIZE
  StackPages,      \* USER_STACK_SIZE / PAGE_SIZE
  Images,          \* programs: the pages of each
  MaxHeap          \* bound on the pages of a heap

HALF == PTE_PER_PAGE \div 2
LOW_END == HALF * PTE_PER_PAGE * PTE_PER_PAGE
Page == 0 .. LOW_END - 1
Line == 0 .. PTE_PER_PAGE - 1
Stack == LOW_END - StackPages .. LOW_END - 1

Empty == 0                       \* an invalid entry
Nobody == "nobody"
KERNEL == "KERNEL_SPACE"
Space == Proc \cup {KERNEL}
NoFrame == BEGIN + Frames        \* a frame_alloc(1) that failed

\* The root's index first.
indexes(vpn) ==
  LET above == vpn \div PTE_PER_PAGE IN
  <<(above \div PTE_PER_PAGE) % PTE_PER_PAGE, above % PTE_PER_PAGE, vpn % PTE_PER_PAGE>>

ASSUME PageTableAssumption ==
  /\ INITPROC \in Proc /\ KERNEL \notin Proc /\ Nobody \notin Proc
  /\ PTE_PER_PAGE \in Nat /\ PTE_PER_PAGE > 0 /\ PTE_PER_PAGE % 2 = 0
  /\ KernelLines \subseteq HALF .. PTE_PER_PAGE - 1
  /\ {1, DMA, KSTACK} \subseteq Counts /\ KSTACK > 1
ASSUME LinearAssumption ==
  /\ PA_TO_VA \in Nat /\ Linear \subseteq 1 .. NoFrame - 1
  /\ \A f \in Linear : indexes(f + PA_TO_VA)[1] \in KernelLines
ASSUME ImagesAssumption ==
  /\ StackPages \in 0 .. LOW_END
  /\ \A image \in Images : image \subseteq Page \ Stack /\ image # {}

VARIABLES
  pte,       \* per frame that was ever taken: its entries, if it is a table
  space,     \* per address space: its root, its tables, its pages' frames
  image,     \* per process: the pages of its program
  kstack,    \* per process: the tracker of its kernel stack
  status,    \* per process: "none", "ready" or "zombie"
  current,   \* the process that runs
  satp,      \* the root that the processor uses
  tlb        \* a page and its frame that the processor remembers, if any

memory == <<free_list, trackers, pte>>
ptvars == <<memory, space, image, kstack, status, current, satp, tlb>>

None == [v \in {} |-> Empty]
NoSpace == [root |-> NoFrame, frames |-> {}, data |-> None]

-----------------------------------------------------------------------------
(* Operations on the memory and an address space s, together t.  t.ok is   *)
(* FALSE when an unwrap() or an assertion has panicked.                    *)

With(t, ptes, s, ok) == [fl |-> t.fl, tr |-> t.tr, pte |-> ptes, s |-> s, ok |-> ok]

Cleared == [i \in Line |-> Empty]

\* FrameTracker::new clears the frames.
Received(t, a) ==
  LET new == a.tracker.ppn .. a.tracker.ppn + a.tracker.num - 1 IN
  [fl |-> a.left, tr |-> t.tr \cup {a.tracker},
   pte |-> [f \in DOMAIN t.pte \cup new |-> IF f \in new THEN Cleared ELSE t.pte[f]],
   s |-> t.s, ok |-> t.ok]

Taken(t, num) ==
  IF CanAlloc(t.fl, num) THEN Received(t, Alloc(t.fl, num)) ELSE With(t, t.pte, t.s, FALSE)

TakenPpn(t, num) == IF CanAlloc(t.fl, num) THEN Alloc(t.fl, num).tracker.ppn ELSE NoFrame

\* FrameTracker::drop
drop(t, x) == [fl |-> GivenBack(t.fl, x), tr |-> t.tr \ {x}, pte |-> t.pte, s |-> t.s, ok |-> t.ok]

One(f) == [ppn |-> f, num |-> 1]
Ones(F) == {One(f) : f \in F}

\* The trackers of the frames F are dropped.
DropAll(t, F) ==
  LET at[n \in 0 .. NoFrame] ==
        IF n = 0 THEN t ELSE IF n - 1 \in F THEN drop(at[n - 1], One(n - 1)) ELSE at[n - 1]
  IN at[NoFrame]

Rooted(u, f) == With(u, u.pte, [root |-> f, frames |-> {f}, data |-> None], u.ok)
with_root(t) == Rooted(Taken(t, 1), TakenPpn(t, 1))

\* The frame of vpn in the tables below root, or Empty.
find_pte(ptes, root, vpn) ==
  LET i == indexes(vpn)
      down(f, j) == IF f = Empty THEN Empty ELSE ptes[f][j]
  IN down(down(down(root, i[1]), i[2]), i[3])

\* The table that entry i of the table f points to, created when missing.
Linked(u, f, i, new) ==
  With(u, [u.pte EXCEPT ![f][i] = new],
       [root |-> u.s.root, frames |-> u.s.frames \cup {new}, data |-> u.s.data], u.ok)
Table(t, f, i) ==
  IF t.pte[f][i] # Empty THEN t ELSE Linked(Taken(t, 1), f, i, TakenPpn(t, 1))

\* The two tables on the way to the last entry of vpn.
First(t, vpn) == t.pte[t.s.root][indexes(vpn)[1]]
Leaf(t, vpn) == t.pte[First(t, vpn)][indexes(vpn)[2]]

Below(u, vpn) == Table(u, First(u, vpn), indexes(vpn)[2])
find_pte_create(t, vpn) == Below(Table(t, t.s.root, indexes(vpn)[1]), vpn)

\* The last entry of vpn is set; it is asserted whether it was valid before.
SetEntry(u, vpn, entry, valid) ==
  With(u, [u.pte EXCEPT ![Leaf(u, vpn)][indexes(vpn)[3]] = entry], u.s,
       u.ok /\ (u.pte[Leaf(u, vpn)][indexes(vpn)[3]] # Empty) = valid)

map(t, vpn, ppn) == SetEntry(find_pte_create(t, vpn), vpn, ppn, FALSE)

\* Mutant: the entry stays.
unmap_nothing(t, vpn) == find_pte_create(t, vpn)

unmap(t, vpn) == SetEntry(find_pte_create(t, vpn), vpn, Empty, TRUE)

-----------------------------------------------------------------------------
(* Address spaces.                                                         *)

WithData(t, data) ==
  With(t, t.pte, [root |-> t.s.root, frames |-> t.s.frames, data |-> data], t.ok)

\* MapArea::map_one of a framed area
map_one(t, vpn) ==
  LET f == TakenPpn(t, 1)
      data == t.s.data
  IN WithData(map(Taken(t, 1), vpn, f),
              [v \in DOMAIN data \cup {vpn} |-> IF v = vpn THEN f ELSE data[v]])

unmap_one(t, vpn) ==
  LET data == t.s.data IN
  WithData(unmap(drop(t, One(data[vpn])), vpn), [v \in DOMAIN data \ {vpn} |-> data[v]])

\* The pages of V, in ascending order.
MapAll(t, V) ==
  LET at[n \in 0 .. LOW_END] ==
        IF n = 0 THEN t ELSE IF n - 1 \in V THEN map_one(at[n - 1], n - 1) ELSE at[n - 1]
  IN at[LOW_END]

UnmapAll(t, V) ==
  LET at[n \in 0 .. LOW_END] ==
        IF n = 0 THEN t ELSE IF n - 1 \in V THEN unmap_one(at[n - 1], n - 1) ELSE at[n - 1]
  IN at[LOW_END]

\* new_kernel: the linear map of the kernel.
new_kernel(t) ==
  LET at[n \in 0 .. NoFrame] ==
        IF n = 0 THEN with_root(t)
        ELSE IF n - 1 \in Linear THEN map(at[n - 1], n - 1 + PA_TO_VA, n - 1) ELSE at[n - 1]
  IN at[NoFrame]

\* The entries are copied, not the tables below them.
map_kernel_areas(t, root) ==
  With(t, [t.pte EXCEPT ![t.s.root] =
             [i \in Line |-> IF i \in KernelLines THEN t.pte[root][i] ELSE @[i]]], t.s, t.ok)

\* Mutant: the whole root is cleared.
ClearedRoot(entries) == [i \in Line |-> Empty]

\* root_page()[0..PAGE_SIZE / 2].fill(0)
ClearedHalf(entries) == [i \in Line |-> IF i < HALF THEN Empty ELSE entries[i]]

DataFrames(s) == {s.data[v] : v \in DOMAIN s.data}

\* The areas go, and with them their frames, then the tables but the root.
Bare(u) ==
  With(u, [u.pte EXCEPT ![u.s.root] = ClearedHalf(@)],
       [root |-> u.s.root, frames |-> {u.s.root}, data |-> None], u.ok)
recycle_user_pages(t) == Bare(DropAll(t, DataFrames(t.s) \cup (t.s.frames \ {t.s.root})))

\* Loader::load: sections and the stack of the main thread.
load(t, program) == MapAll(recycle_user_pages(t), program \cup Stack)

-----------------------------------------------------------------------------
(* Steps of the kernel.                                                    *)

At(s) == [fl |-> free_list, tr |-> trackers, pte |-> pte, s |-> s, ok |-> TRUE]

\* A panic stops the machine: there is no step then.
Becomes(p, t) ==
  /\ t.ok
  /\ free_list' = t.fl /\ trackers' = t.tr /\ pte' = t.pte
  /\ space' = [space EXCEPT ![p] = t.s]

Boot ==
  LET empty == [fl |-> InitialLists, tr |-> {},
                pte |-> [f \in {NoFrame} |-> Cleared], s |-> NoSpace, ok |-> TRUE]
  IN new_kernel(empty)

\* The kernel space, the driver's frames, the kernel stack of initproc and
\* its address space.
PTInit ==
  LET k == Boot
      d == Taken(k, DMA)
      bare == with_root(d)
  IN
  \E program \in Images :
    LET t == Taken(bare, KSTACK)
        u == load(map_kernel_areas(t, k.s.root), program)
    IN
    /\ u.ok
    /\ free_list = u.fl /\ trackers = u.tr /\ pte = u.pte
    /\ space = [p \in Space |-> IF p = KERNEL THEN k.s ELSE IF p = INITPROC THEN u.s ELSE NoSpace]
    /\ image = [p \in Proc |-> IF p = INITPROC THEN program ELSE {}]
    /\ kstack = [p \in Proc |-> IF p = INITPROC THEN TakenPpn(bare, KSTACK) ELSE NoFrame]
    /\ status = [p \in Proc |-> IF p = INITPROC THEN "ready" ELSE "none"]
    /\ current = Nobody
    /\ satp = k.s.root
    /\ tlb = {}

\* Mutant: a new root is written, and that is all.
FlushNever(root) == tlb

\* What is remembered when activate() finds `root`.
FlushIfSwitched(root) == IF root = satp THEN tlb ELSE {}

\* run_tasks with MemorySet::activate
activate(p) ==
  /\ current = Nobody /\ status[p] = "ready"
  /\ current' = p
  /\ satp' = space[p].root
  /\ tlb' = FlushIfSwitched(space[p].root)
  /\ UNCHANGED <<memory, space, image, kstack, status>>

suspend_curr_and_run_next(p) ==
  /\ current = p
  /\ current' = Nobody
  /\ UNCHANGED <<memory, space, image, kstack, status, satp, tlb>>

Heap(p) == {v \in DOMAIN space[p].data \ Stack : v > Max(image[p])}

\* The heap of p gets n pages, at least one: a break at or below the beginning
\* of the heap is not taken.  Nothing tells the processor.
set_user_brk(p, n) ==
  LET V == Max(image[p]) + 1 .. Max(image[p]) + n IN
  /\ current = p
  /\ \/ Becomes(p, MapAll(At(space[p]), V \ Heap(p)))  /\ Heap(p) \subseteq V
     \/ Becomes(p, UnmapAll(At(space[p]), Heap(p) \ V)) /\ V \subseteq Heap(p) /\ V # Heap(p)
  /\ UNCHANGED <<image, kstack, status, current, satp, tlb>>

\* Mutant: activate() will do.
ExecFlushNot == tlb

\* flush_tlb(None)
ExecFlush == {}

exec(p, program) ==
  /\ current = p
  /\ Becomes(p, load(At(space[p]), program))
  /\ image' = [image EXCEPT ![p] = program]
  /\ tlb' = ExecFlush
  /\ UNCHANGED <<kstack, status, current, satp>>

\* from_existed_user, then the kernel stack.
fork(p, q) ==
  LET t == map_kernel_areas(MapAll(with_root(At(NoSpace)), DOMAIN space[p].data),
                            space[p].root)
  IN
  /\ current = p /\ status[q] = "none"
  /\ Becomes(q, Taken(t, KSTACK))
  /\ kstack' = [kstack EXCEPT ![q] = TakenPpn(t, KSTACK)]
  /\ image' = [image EXCEPT ![q] = image[p]]
  /\ status' = [status EXCEPT ![q] = "ready"]
  /\ UNCHANGED <<current, satp, tlb>>

\* The stack is unmapped; the other pages lose their frames and stay in the
\* tables, which live on, as the kernel stack does, until q is reaped.
exit(p) ==
  LET t == UnmapAll(At(space[p]), Stack)
  IN
  /\ current = p /\ p # INITPROC
  /\ Becomes(p, WithData(DropAll(t, DataFrames(t.s)), None))
  /\ status' = [status EXCEPT ![p] = "zombie"]
  /\ current' = Nobody
  /\ UNCHANGED <<image, kstack, satp, tlb>>

\* wait4 of the parent drops the process: its tables and its kernel stack.
wait4(p, q) ==
  /\ current = p /\ status[q] = "zombie"
  /\ Becomes(q, drop(DropAll(At(NoSpace), space[q].frames), [ppn |-> kstack[q], num |-> KSTACK]))
  /\ kstack' = [kstack EXCEPT ![q] = NoFrame]
  /\ image' = [image EXCEPT ![q] = {}]
  /\ status' = [status EXCEPT ![q] = "none"]
  /\ UNCHANGED <<current, satp, tlb>>

\* The processor: the program touches page v, and the translation is
\* remembered.  One is enough, and any may be forgotten at any time: the
\* properties speak of each alone, and none keeps another from being used.
Touch(p, v) ==
  LET f == find_pte(pte, satp, v) IN
  /\ current = p /\ f # Empty
  /\ tlb' = {<<v, f>>}
  /\ UNCHANGED <<memory, space, image, kstack, status, current, satp>>

PTNext ==
  \E p \in Proc :
    \/ activate(p) \/ suspend_curr_and_run_next(p)
    \/ \E n \in 1 .. MaxHeap : set_user_brk(p, n)
    \/ \E program \in Images : exec(p, program)
    \/ \E q \in Proc : fork(p, q) \/ wait4(p, q)
    \/ exit(p)
    \/ \E v \in Page : Touch(p, v)

PTSpec == PTInit /\ [][PTNext]_ptvars

-----------------------------------------------------------------------------
(* Properties.                                                             *)

Live == {p \in Proc : status[p] = "ready"}

\* The tables below a root, in its lower half.
Tables(root) ==
  LET next(F, lines) == {pte[f][i] : f \in F, i \in lines} \ {Empty}
      first == next({root}, 0 .. HALF - 1)
  IN first \cup next(first, Line)

(* What the walk of the tables finds is what the areas of the process own, *)
(* page by page, and the tables it goes through are the ones that the      *)
(* process will free: after any exec, fork and brk there is neither a way  *)
(* to a frame that was given back nor a table that is lost.                *)
WalkIsMap ==
  \A p \in Live :
    /\ \A v \in Page : find_pte(pte, space[p].root, v) =
                         (IF v \in DOMAIN space[p].data THEN space[p].data[v] ELSE Empty)
    /\ space[p].frames = {space[p].root} \cup Tables(space[p].root)
    /\ Ones(space[p].frames \cup DataFrames(space[p])) \subseteq trackers

(* The kernel runs on the tables of whatever process was activated last,   *)
(* which may have exited since: this root is never freed, it maps the      *)
(* kernel's frames as the kernel's own root does, and it is the root of    *)
(* the process that runs, which curr_page_table() takes it for.            *)
KernelStaysMapped ==
  /\ One(satp) \in trackers
  /\ \A f \in Linear : find_pte(pte, satp, f + PA_TO_VA) = f
  /\ current # Nobody => satp = space[current].root

(* A page that brk has unmapped may still be translated by the processor,  *)
(* which is not told.  What a program reaches in this way belongs to the   *)
(* program or to nobody: neither to another process nor to the kernel, as  *)
(* a data frame, a table, a stack or a buffer.  It may still be the wrong  *)
(* frame: when the break has shrunk and grown again, the program may go on *)
(* using the frame it gave back.  The property rests on frames that are    *)
(* given back never being handed out again (FramesComeBack).               *)
StaleReachesNoOther ==
  current # Nobody =>
    \A e \in tlb : e[2] \in DataFrames(space[current]) \/
                   \A t \in trackers : e[2] \notin t.ppn .. t.ppn + t.num - 1

(* The pages of the program that runs and its stack are translated as its  *)
(* tables say, also after an exec, which keeps the root, so that activate()*)
(* sees no reason to flush.                                                *)
ProgramIsFresh ==
  current # Nobody =>
    \A e \in tlb : e[1] \in image[current] \cup Stack =>
                     e[2] = find_pte(pte, satp, e[1])
=============================================================================

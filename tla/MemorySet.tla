----------------------------- MODULE MemorySet -----------------------------
(***************************************************************************)
(* memory/src/memory_set.rs, the user half of address spaces: areas that   *)
(* own frames, the page table next to them, and the calls that change      *)
(* both: loading a program, brk, mmap, fork, exit and reaping.             *)
(*                                                                         *)
(* A three-level page table is a function from pages to frames here, and   *)
(* the permissions of a page are left out.  Addresses are counted in       *)
(* bytes, pages and frames by number.                                      *)
(***************************************************************************)
EXTENDS Integers, FiniteSets

CONSTANTS
  Proc, INITPROC,
  Frame,              \* frames of physical memory
  Value,              \* what a page contains
  PAGE_SIZE,
  Images,             \* programs: the first page and the end of each section
  MMAP_START,         \* first page that mmap hands out
  LOW_END,            \* end of the user's pages
  StackPages,         \* USER_STACK_SIZE / PAGE_SIZE
  MaxBrk,             \* bound on the argument of brk, in bytes
  MaxLen,             \* bound on the length passed to mmap, in bytes
  MaxMmaps            \* bound on the number of mmaps between two execs

Page == 0 .. LOW_END - 1
Zero == 0
Stack == LOW_END - StackPages .. LOW_END - 1    \* tid 0, the main thread

ASSUME ProcAssumption == INITPROC \in Proc
ASSUME SizesAssumption ==
  /\ PAGE_SIZE \in Nat \ {0} /\ MMAP_START \in Nat /\ LOW_END \in Nat
  /\ StackPages \in Nat \ {0} /\ MaxBrk \in Nat /\ MaxLen \in Nat /\ MaxMmaps \in Nat
  /\ MMAP_START < LOW_END - StackPages
  /\ MaxBrk <= MMAP_START * PAGE_SIZE
ASSUME ImagesAssumption ==
  \A image \in Images :
    /\ image \subseteq Nat \X Nat /\ image # {}
    /\ \A i \in image : i[1] \in 1 .. i[2] - 1 /\ i[2] \in 1 .. MMAP_START - 1
    /\ \A i, j \in image : i # j => i[2] <= j[1] \/ j[2] <= i[1]
ASSUME ValueAssumption == Zero \in Value

VARIABLES
  areas,        \* per process, first page of an area: its end and its frames
  page_table,   \* per process that runs, page: frame
  zombies,      \* per zombie, page: frame, what exit has left in its page table
  brk,          \* per process: the program break, in bytes
  heap_start,   \* per process: a page
  content,      \* per frame: what is in it
  live,         \* processes with an address space
  mmaps,        \* per process: mmaps since the last exec
  remapped,     \* some program has called mmap again before its next exec
  panic         \* why the kernel panicked, or "no"

heap == <<brk, heap_start>>
vars == <<areas, page_table, zombies, heap, content, live, mmaps, remapped, panic>>

None == [v \in {} |-> Zero]    \* an empty map

TypeOK ==
  /\ DOMAIN areas = Proc /\ DOMAIN page_table = Proc /\ DOMAIN zombies = Proc
  /\ \A p \in Proc :
       /\ DOMAIN areas[p] \subseteq Page
       /\ \A s \in DOMAIN areas[p] :
            /\ areas[p][s].end \in s .. LOW_END
            /\ areas[p][s].frames \in [s .. areas[p][s].end - 1 -> Frame]
       /\ DOMAIN page_table[p] \subseteq Page
       /\ page_table[p] \in [DOMAIN page_table[p] -> Frame]
       /\ DOMAIN zombies[p] \subseteq Page
       /\ zombies[p] \in [DOMAIN zombies[p] -> Frame]
  /\ brk \in [Proc -> Nat] /\ heap_start \in [Proc -> Page]
  /\ content \in [Frame -> Value]
  /\ live \subseteq Proc
  /\ mmaps \in [Proc -> Nat] /\ remapped \in BOOLEAN
  /\ panic \in {"no", "mapped before mapping", "invalid before unmapping", "no frame"}

-----------------------------------------------------------------------------
(* Frames.                                                                 *)

FramesOf(a) == UNION {{a[s].frames[v] : v \in DOMAIN a[s].frames} : s \in DOMAIN a}
Owned(all) == UNION {FramesOf(all[p]) : p \in Proc}

\* frame_alloc(1) for each page of V.  A frame may be taken when no tracker
\* holds it: the allocator (module FrameAllocator) hands out only such frames,
\* if not all of them.  Which one does not matter here, they are all alike.
HasFrames(V, free) == Cardinality(V) <= Cardinality(free)
Fresh(V, free) == CHOOSE f \in [V -> free] : \A v, w \in V : f[v] = f[w] => v = w
Free == Frame \ Owned(areas)

Over(f, g) == [v \in DOMAIN f \cup DOMAIN g |-> IF v \in DOMAIN f THEN f[v] ELSE g[v]]
Minus(f, V) == [v \in DOMAIN f \ V |-> f[v]]
Only(f, V) == [v \in V |-> f[v]]

-----------------------------------------------------------------------------
(* Steps of an address space.                                              *)

Runs(p) == p \in live /\ panic = "no"

Panic(why) == panic' = why /\ UNCHANGED <<areas, page_table, content>>

\* The address space of p becomes a, t, which drops the frames that no area
\* owns any more; the frames `new` are filled with the values `data`.
Becomes(p, a, t, new, data) ==
  /\ areas' = [areas EXCEPT ![p] = a]
  /\ page_table' = [page_table EXCEPT ![p] = t]
  /\ content' = [f \in Frame |->
                   IF \E v \in DOMAIN new : new[v] = f
                   THEN data[CHOOSE v \in DOMAIN new : new[v] = f] ELSE content[f]]
  /\ UNCHANGED panic

At(start, end, frames) == [s \in {start} |-> [end |-> end, frames |-> frames]]

\* MapArea::map and expand, then BTreeMap::insert, which replaces an area
\* that begins with the same page: the area at `start` has the frames `kept`
\* and new ones up to `end`.
Map(p, start, end, kept) ==
  LET V == (start .. end - 1) \ DOMAIN kept
      new == Fresh(V, Free)
  IN
  IF V \cap DOMAIN page_table[p] # {} THEN Panic("mapped before mapping")
  ELSE IF ~HasFrames(V, Free) THEN Panic("no frame")
  ELSE Becomes(p, Over(At(start, end, Over(new, kept)), areas[p]),
               Over(new, page_table[p]), new, [v \in V |-> Zero])

Shrunk(frames, V) == Minus(frames, V)

\* Mutant: the entries stay.
UnmappedNot(table, V) == table

Unmapped(table, V) == Minus(table, V)

shrink(p, start, new_end) ==
  LET area == areas[p][start]
      V == new_end .. area.end - 1
  IN
  IF ~(V \subseteq DOMAIN page_table[p]) THEN Panic("invalid before unmapping")
  ELSE Becomes(p, Over(At(start, new_end, Shrunk(area.frames, V)), areas[p]),
               Unmapped(page_table[p], V), None, None)

-----------------------------------------------------------------------------
(* brk and mmap.                                                           *)

\* Mutant: vpn() for vpn_ceil().
vpn_floor(addr) == addr \div PAGE_SIZE

\* In the release build, where `0 - 1` wraps around and back.
vpn_ceil(addr) == (addr + PAGE_SIZE - 1) \div PAGE_SIZE

\* A new_brk that is not above the beginning of the heap changes nothing.
set_user_brk(p, new_brk) ==
  LET new_end == vpn_ceil(new_brk)
      h == heap_start[p]
      mapped == h \in DOMAIN areas[p]
  IN
  /\ Runs(p) /\ new_end > h
  /\ \/ /\ mapped /\ areas[p][h].end >= new_end
        /\ shrink(p, h, new_end)
     \/ /\ mapped /\ areas[p][h].end < new_end
        /\ Map(p, h, new_end, areas[p][h].frames)
     \/ /\ ~mapped
        /\ Map(p, h, new_end, None)
  /\ brk' = [brk EXCEPT ![p] = new_brk]
  /\ UNCHANGED <<zombies, heap_start, live, mmaps, remapped>>

\* An iteration of the loop of try_map, for the area at s: b.start is where
\* the mapping would go, b.found whether the loop has returned.
Probe(a, len, b, s) ==
  IF b.found \/ s <= b.start \/ b.start + len > LOW_END THEN b
  ELSE IF b.start + len <= s THEN [start |-> b.start, found |-> TRUE]
  ELSE [start |-> a[s].end, found |-> FALSE]

\* The loop, over the areas in the order of their first pages: at[v] is where
\* it stands after the areas that begin before page v.
Search(a, len) ==
  LET at[v \in 0 .. LOW_END] ==
        IF v = 0 THEN [start |-> MMAP_START, found |-> FALSE]
        ELSE IF v - 1 \in DOMAIN a THEN Probe(a, len, at[v - 1], v - 1) ELSE at[v - 1]
  IN at[LOW_END]

\* An anonymous private mapping of `len` bytes; addr is not looked at.  The
\* number of pages is rounded down.  Without room the call fails.
sys_mmap(p, len) ==
  LET pages == len \div PAGE_SIZE
      r == Search(areas[p], pages)
  IN
  /\ Runs(p) /\ len > 0 /\ mmaps[p] < MaxMmaps
  /\ r.found
  /\ Map(p, r.start, r.start + pages, None)
  /\ mmaps' = [mmaps EXCEPT ![p] = @ + 1]
  /\ remapped' = (remapped \/ mmaps[p] > 0)
  /\ UNCHANGED <<zombies, heap, live>>

-----------------------------------------------------------------------------
(* Programs and processes.                                                 *)

Sections(image) == UNION {i[1] .. i[2] - 1 : i \in image}
ElfEnd(image) == CHOOSE e \in {i[2] : i \in image} : \A i \in image : i[2] <= e

\* The first program fits into memory.
ASSUME FrameAssumption ==
  IsFiniteSet(Frame) /\ \A image \in Images : HasFrames(Sections(image) \cup Stack, Frame)

\* The areas of a program in the frames `new`, with the stack of its main
\* thread.
Loaded(image, new) ==
  LET ranges == image \cup {<<LOW_END - StackPages, LOW_END>>} IN
  [s \in {i[1] : i \in ranges} |->
     LET end == CHOOSE e \in 0 .. LOW_END : <<s, e>> \in ranges IN
     [end |-> end, frames |-> Only(new, s .. end - 1)]]

ImageData(image, x) ==
  [v \in Sections(image) \cup Stack |-> IF v \in Stack THEN Zero ELSE x]

\* Loader::load: the user pages are recycled before the sections are mapped.
exec(p, image, x) ==
  LET V == Sections(image) \cup Stack
      free == Frame \ Owned([areas EXCEPT ![p] = None])
      new == Fresh(V, free)
  IN
  /\ Runs(p)
  /\ IF ~HasFrames(V, free) THEN Panic("no frame")
     ELSE Becomes(p, Loaded(image, new), new, new, ImageData(image, x))
  /\ brk' = [brk EXCEPT ![p] = ElfEnd(image) * PAGE_SIZE]
  /\ heap_start' = [heap_start EXCEPT ![p] = ElfEnd(image)]
  /\ mmaps' = [mmaps EXCEPT ![p] = 0]
  /\ UNCHANGED <<zombies, live, remapped>>

Init ==
  \E image \in Images, x \in Value :
    LET V == Sections(image) \cup Stack
        new == Fresh(V, Frame)
        data == ImageData(image, x)
    IN
    /\ areas = [p \in Proc |-> IF p = INITPROC THEN Loaded(image, new) ELSE None]
    /\ page_table = [p \in Proc |-> IF p = INITPROC THEN new ELSE None]
    /\ content = [f \in Frame |->
                    IF \E v \in V : new[v] = f THEN data[CHOOSE v \in V : new[v] = f]
                    ELSE Zero]
    /\ brk = [p \in Proc |-> IF p = INITPROC THEN ElfEnd(image) * PAGE_SIZE ELSE 0]
    /\ heap_start = [p \in Proc |-> IF p = INITPROC THEN ElfEnd(image) ELSE 0]
    /\ live = {INITPROC}
    /\ mmaps = [p \in Proc |-> 0]
    /\ zombies = [p \in Proc |-> None]
    /\ remapped = FALSE
    /\ panic = "no"

Pages(a) == UNION {s .. a[s].end - 1 : s \in DOMAIN a}

\* Mutant: the clone of the parent's map of frames is used as it is.
ChildSharing(p) == page_table[p]

\* from_another() clones the parent's frames, map() puts new ones over them.
ChildFrames(p) == Fresh(Pages(areas[p]), Free)

\* from_existed_user.  The pid of q is free: there is no such process, not
\* even a zombie.
fork(p, q) ==
  LET new == ChildFrames(p)
      a == areas[p]
  IN
  /\ Runs(p) /\ q \notin live /\ zombies[q] = None
  /\ IF ~HasFrames(Pages(a), Free) THEN Panic("no frame")
     ELSE Becomes(q, [s \in DOMAIN a |-> [end |-> a[s].end,
                                          frames |-> Only(new, s .. a[s].end - 1)]],
                  new, new, [v \in Pages(a) |-> content[page_table[p][v]]])
  /\ live' = live \cup {q}
  /\ brk' = [brk EXCEPT ![q] = brk[p]]
  /\ heap_start' = [heap_start EXCEPT ![q] = heap_start[p]]
  /\ mmaps' = [mmaps EXCEPT ![q] = mmaps[p]]
  /\ UNCHANGED <<zombies, remapped>>

\* The user stack is unmapped, then the areas are dropped, and with them the
\* frames.  The other entries of the page table stay, and name frames that are
\* free, until the zombie is reaped; nobody uses them in between.
exit(p) ==
  /\ Runs(p)
  /\ IF ~(Stack \subseteq DOMAIN page_table[p])
     THEN Panic("invalid before unmapping") /\ UNCHANGED zombies
     ELSE /\ Becomes(p, None, None, None, None)
          /\ zombies' = [zombies EXCEPT ![p] = Unmapped(page_table[p], Stack)]
  /\ live' = live \ {p}
  /\ brk' = [brk EXCEPT ![p] = 0]
  /\ heap_start' = [heap_start EXCEPT ![p] = 0]
  /\ mmaps' = [mmaps EXCEPT ![p] = 0]
  /\ UNCHANGED remapped

\* wait4 of the parent drops the process and with it the page table; INITPROC
\* has no parent.
reap(p) ==
  /\ panic = "no" /\ p # INITPROC /\ zombies[p] # None
  /\ zombies' = [zombies EXCEPT ![p] = None]
  /\ UNCHANGED <<areas, page_table, heap, content, live, mmaps, remapped, panic>>

\* The program writes to a page of its own.
Store(p, v, x) ==
  /\ Runs(p) /\ v \in DOMAIN page_table[p]
  /\ content' = [content EXCEPT ![page_table[p][v]] = x]
  /\ UNCHANGED <<areas, page_table, zombies, heap, live, mmaps, remapped, panic>>

Next ==
  \E p \in Proc :
    \/ \E n \in 0 .. MaxBrk : set_user_brk(p, n)
    \/ \E len \in 0 .. MaxLen : sys_mmap(p, len)
    \/ \E image \in Images, x \in Value : exec(p, image, x)
    \/ \E q \in Proc : fork(p, q)
    \/ exit(p) \/ reap(p)
    \/ \E v \in Page, x \in Value : Store(p, v, x)

Spec == Init /\ [][Next]_vars

-----------------------------------------------------------------------------
(* Properties.  A second mmap of a program is placed over the first one:   *)
(* the kernel panics or, when it is shorter than a page, gives frames back *)
(* that are still mapped.  What is claimed holds until a program does so.  *)

\* The page table maps exactly the pages of the areas, to their frames.
TablesMatch ==
  \A p \in Proc :
    /\ DOMAIN page_table[p] = Pages(areas[p])
    /\ \A s \in DOMAIN areas[p] : \A v \in DOMAIN areas[p][s].frames :
         v \in DOMAIN page_table[p] /\ page_table[p][v] = areas[p][s].frames[v]

FramesApart ==
  \A p, q \in Proc : \A v \in DOMAIN page_table[p], w \in DOMAIN page_table[q] :
    page_table[p][v] = page_table[q][w] => p = q /\ v = w

HeapsEnd ==
  \A p \in live : panic = "no" =>
    IF heap_start[p] \in DOMAIN areas[p]
    THEN LET end == areas[p][heap_start[p]].end IN
         (end - 1) * PAGE_SIZE < brk[p] /\ brk[p] <= end * PAGE_SIZE
    ELSE brk[p] = heap_start[p] * PAGE_SIZE

(* While a process runs its page table maps exactly the pages of its       *)
(* areas, to the frames these own: nothing stays mapped after its frame    *)
(* was given back, and no area owns a frame for a page it does not map, as *)
(* long as no program has called mmap twice.                               *)
MappedIsOwned == remapped \/ TablesMatch

(* No frame is mapped twice by running processes, by one or by two: after  *)
(* a fork, too, although from_another() first clones the references to the *)
(* frames; as long as no program has called mmap twice.                    *)
NoAliasing == remapped \/ FramesApart

(* The heap is mapped up to the page of the program break and no further,  *)
(* through any sequence of brk calls, forks and execs; there is no heap    *)
(* area until the break has moved.  As long as no program has called mmap  *)
(* twice.                                                                  *)
HeapEndsAtBrk == remapped \/ HeapsEnd

VM == INSTANCE VirtualMemory WITH
  Programs <- {ImageData(image, x) : image \in Images, x \in Value},
  memory <- [p \in Proc |-> [v \in DOMAIN page_table[p] |-> content[page_table[p][v]]]],
  trusted <- ~remapped

(* Every process has a memory of its own: new pages read as zero, also in  *)
(* frames that another process has used before or that a zombie's page     *)
(* table still names, a forked process begins with a copy, and no call or  *)
(* store of one changes what another reads.  All of it until a program     *)
(* calls mmap twice.                                                       *)
ImplementsVirtualMemory == VM!Spec

(* "is mapped before mapping", "is invalid before unmapping": the          *)
(* assertions of PageTable::map and unmap hold.                            *)
PageTableAssertions == panic \notin {"mapped before mapping", "invalid before unmapping"}

(* The assertions of PageTable::map and unmap hold through brk up and      *)
(* down, fork, exec and exit until a program calls mmap twice: nothing     *)
(* else makes them fail.                                                   *)
AssertionsUntilRemap == remapped \/ PageTableAssertions

\* Where the areas of a running program are, from below: its sections, the
\* heap behind them, what mmap has added, the stack; they do not overlap.
Layout(p) ==
  LET a == areas[p]
      h == heap_start[p]
      bottom == LOW_END - StackPages
  IN
  /\ h \in 1 .. MMAP_START - 1
  /\ bottom \in DOMAIN a /\ a[bottom].end = LOW_END
  /\ \A s \in DOMAIN a :
       \/ s < h /\ a[s].end \in s + 1 .. h
       \/ s = h /\ a[s].end \in h + 1 .. MMAP_START
       \/ s = MMAP_START /\ mmaps[p] > 0 /\ a[s].end \in MMAP_START .. bottom
       \/ s = bottom
  /\ \A s, t \in DOMAIN a : s < t => a[s].end <= t

\* What the proofs use.
Sound ==
  /\ TypeOK /\ TablesMatch /\ FramesApart /\ HeapsEnd /\ PageTableAssertions
  /\ panic = "no" => /\ \A p \in live : Layout(p)
                     /\ \A p \in Proc \ live : areas[p] = None /\ page_table[p] = None

MemoryInv == remapped \/ Sound
=============================================================================

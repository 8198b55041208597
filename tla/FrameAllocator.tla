--------------------------- MODULE FrameAllocator ---------------------------
(***************************************************************************)
(* memory/src/frame_allocator.rs on top of the buddy allocator of          *)
(* deps/buddy_system_allocator/src/frame.rs: trackers of physical frames,  *)
(* and the lists of free blocks behind them.                               *)
(*                                                                         *)
(* The allocator numbers the frames from 0, the kernel by their addresses, *)
(* from the first frame behind its image on.  The statistics, which nobody *)
(* reads, are left out.                                                    *)
(***************************************************************************)
EXTENDS Integers, FiniteSets, FiniteSetsExt

CONSTANTS
  ORDER,     \* BUDDY_ORDER: the number of lists
  Frames,    \* frames of memory behind the image of the kernel
  BEGIN,     \* physical_memory_begin_frame
  BITS,      \* the largest power of two in a usize is 2^BITS
  Counts     \* numbers of frames that are asked for

Exponent == 0 .. BITS
Pow2 == [n \in Exponent |-> 2^n]

\* All that the proofs use of 2^n.
ASSUME PowersAssumption ==
  /\ BITS \in Nat /\ Pow2[0] = 1
  /\ \A n \in Exponent \ {0} : Pow2[n] = 2 * Pow2[n - 1]
ASSUME OrderAssumption == ORDER \in Exponent \ {0} /\ Frames \in 1 .. Pow2[ORDER] - 1
ASSUME CountsAssumption == Counts \subseteq Nat \ {0}
\* The memory begins at 2^19 frames and has less than 2^15.
ASSUME BeginAssumption ==
  /\ BEGIN \in Nat /\ BEGIN >= Pow2[ORDER]
  /\ \A n \in Counts : BEGIN + Frames + n <= Pow2[BITS]

VARIABLES
  free_list,   \* per class c: the first frames of the free blocks of 2^c frames
  trackers     \* the FrameTrackers, and the frames lent to the device driver

vars == <<free_list, trackers>>

Class == 0 .. ORDER - 1
Tracker == [ppn : BEGIN .. BEGIN + Frames - 1, num : Counts]

Block(start, c) == start .. start + Pow2[c] - 1
prev_power_of_two(n) == Max({Pow2[c] : c \in {d \in Exponent : Pow2[d] <= n}})
\* The class of count.next_power_of_two().
ClassOf(n) == Min({c \in Exponent : n <= Pow2[c]})

-----------------------------------------------------------------------------
(* add_frame(0, Frames).                                                   *)

LowBit(s) == IF s = 0 THEN 32
             ELSE Max({Pow2[c] : c \in {d \in Exponent : s % Pow2[d] = 0}})

\* The size of the block that begins with frame s.
BlockSize(s) ==
  Min({LowBit(s), prev_power_of_two(Frames - s), Pow2[ORDER - 1]})

\* The first frames of the blocks from frame s on.
Starts ==
  LET from[s \in 0 .. Frames + Pow2[ORDER]] ==
        IF s >= Frames THEN {} ELSE {s} \cup from[s + BlockSize(s)]
  IN from[0]

InitialLists == [c \in Class |-> {s \in Starts : BlockSize(s) = Pow2[c]}]

Init ==
  /\ free_list = InitialLists
  /\ trackers = {}

-----------------------------------------------------------------------------
(* alloc_power_of_two.                                                     *)

\* Classes of the lists fl with a block that is large enough.
Fitting(fl, class) == {c \in Class : c >= class /\ fl[c] # {}}

\* The lists after the first block of class i, the first class that fits,
\* is split down to `class` and its lowest part is taken.
Split(fl, block, i, class) ==
  [c \in Class |-> IF c = i THEN fl[c] \ {block}
                   ELSE IF class <= c /\ c < i THEN fl[c] \cup {block + Pow2[c]}
                   ELSE fl[c]]

CanAlloc(fl, num) == Fitting(fl, ClassOf(num)) # {}

\* The tracker of num frames out of the lists fl, and the lists that are left.
Alloc(fl, num) ==
  LET class == ClassOf(num)
      i == Min(Fitting(fl, class))
      block == Min(fl[i])
  IN [tracker |-> [ppn |-> BEGIN + block, num |-> num], left |-> Split(fl, block, i, class)]

\* frame_alloc(num) when it succeeds; it changes nothing when it does not.
frame_alloc(num) ==
  /\ CanAlloc(free_list, num)
  /\ free_list' = Alloc(free_list, num).left
  /\ trackers' = trackers \cup {Alloc(free_list, num).tracker}

-----------------------------------------------------------------------------
(* dealloc_power_of_two.                                                   *)

Buddy(block, c) == IF (block \div Pow2[c]) % 2 = 0 THEN block + Pow2[c] ELSE block - Pow2[c]

\* The lists after a block is given back and merged with its free buddies.
Merged(fl, block, class) ==
  LET at[c \in 0 .. ORDER] ==     \* the block when the loop comes to class c
        IF c <= class THEN block ELSE Min({at[c - 1], Buddy(at[c - 1], c - 1)})
      alone == {c \in Class : c >= class /\ Buddy(at[c], c) \notin fl[c]}
      last == IF alone = {} THEN ORDER ELSE Min(alone)
  IN
  [c \in Class |-> IF class <= c /\ c < last THEN fl[c] \ {Buddy(at[c], c)}
                   ELSE IF c = last THEN fl[c] \cup {at[c]}
                   ELSE fl[c]]

\* Mutant: the allocator's own numbers, and one frame more than was taken.
GivenBackMore(fl, t) == Merged(fl, t.ppn - BEGIN, ClassOf(t.num + 1))

\* The range of frame numbers, as the kernel counts them, is passed for the
\* allocator's own number of the first frame and the number of frames.
GivenBack(fl, t) == Merged(fl, t.ppn, ClassOf(t.ppn + t.num))

\* FrameTracker::drop
frame_dealloc(t) ==
  /\ t \in trackers
  /\ trackers' = trackers \ {t}
  /\ free_list' = GivenBack(free_list, t)

Next ==
  \/ \E num \in Counts : frame_alloc(num)
  \/ \E t \in trackers : frame_dealloc(t)

Spec == Init /\ [][Next]_vars

-----------------------------------------------------------------------------
(* Properties.                                                             *)

\* The frames of a tracker, as the allocator counts them.  It owns the rest
\* of the block, too, when num is not a power of two.
Held(t) == Block(t.ppn - BEGIN, ClassOf(t.num))

(* Free blocks lie within the memory, each aligned to its size, as the     *)
(* merging of buddies and the doc of alloc_power_of_two assume.            *)
TypeOK ==
  /\ free_list \in [Class -> SUBSET (0 .. Frames - 1)]
  /\ trackers \subseteq Tracker
  /\ \A c \in Class : \A s \in free_list[c] : s % Pow2[c] = 0 /\ s + Pow2[c] <= Frames

(* No frame is in two trackers, in two free blocks, or in a tracker and in *)
(* a free block: through any splitting of blocks nobody is handed a frame  *)
(* that somebody else uses.                                                *)
NoFrameTwice ==
  /\ \A t, u \in trackers : t # u => Held(t) \cap Held(u) = {}
  /\ \A c, d \in Class : \A s \in free_list[c], r \in free_list[d] :
       <<c, s>> # <<d, r>> => Block(s, c) \cap Block(r, d) = {}
  /\ \A t \in trackers, c \in Class : \A s \in free_list[c] :
       Held(t) \cap Block(s, c) = {}

(* A frame lives as long as its tracker: when no tracker has it, it can be *)
(* allocated again.                                                        *)
FramesComeBack ==
  \A f \in 0 .. Frames - 1 :
    \/ \E t \in trackers : f \in Held(t)
    \/ \E c \in Class : \E s \in free_list[c] : f \in Block(s, c)
=============================================================================

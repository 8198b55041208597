------------------------------ MODULE UserStack ------------------------------
(***************************************************************************)
(* The first stack of a program (task/loader/stack.rs) and the entry point *)
(* of the user library that reads it (user/src/lib.rs, `_start`).          *)
(*                                                                         *)
(* The kernel writes through its own mapping of physical memory: `kva` is  *)
(* the physical place of `sp`, translated anew only when sp is at a page   *)
(* boundary, and a word written there covers the PTR_SIZE bytes that       *)
(* follow in physical memory.  The program reads through its page table.   *)
(* The pages of the stack lie in frames in any order.                      *)
(***************************************************************************)
EXTENDS Integers, Sequences, SequencesExt

CONSTANTS
  PTR_SIZE,    \* size_of::<usize>(), scaled down with the page
  PAGE_SIZE,
  FrameOf      \* the frames of the stack's pages, page 1 the lowest

ASSUME StackAssumption ==
  /\ PTR_SIZE \in Nat \ {0} /\ PAGE_SIZE \in Nat \ {0} /\ PAGE_SIZE % PTR_SIZE = 0
  /\ FrameOf \in Seq(Nat) /\ Cardinality(Range(FrameOf)) = Len(FrameOf)

AT_PAGESZ == 6
AT_RANDOM == 25
Time == 77                                 \* get_time(), any number

High == Len(FrameOf) * PAGE_SIZE           \* user_stack_high_addr()
Physical == 0 .. (Max(Range(FrameOf)) + 1) * PAGE_SIZE - 1

\* PageTable::trans_va; below the stack is its guard page.
Mapped(va) == va \in 0 .. High - 1
trans_va(va) == FrameOf[va \div PAGE_SIZE + 1] * PAGE_SIZE + (va % PAGE_SIZE)

(* A byte is a pair: <<c, 0>> is the character c, <<w, i>> the i-th byte of *)
(* the word w, and a word 0 is made of NULs.                               *)
NUL == <<0, 0>>
ByteOf(w, i) == IF w = 0 THEN NUL ELSE <<w, i + 1>>

-----------------------------------------------------------------------------
(* StackInit.  `ok` is FALSE once `trans_va(..).unwrap()` has panicked.    *)

\* Mutant: the kernel address is not translated at a page boundary.
SpDownFlat(s, len) ==
  [s EXCEPT !.sp = @ - len,
            !.kva = IF s.sp = High THEN trans_va(s.sp - len) ELSE @ - len]

sp_down(s, len) ==
  IF s.sp % PAGE_SIZE # 0
  THEN [s EXCEPT !.sp = @ - len, !.kva = @ - len]
  ELSE IF Mapped(s.sp - len)
  THEN [s EXCEPT !.sp = @ - len, !.kva = trans_va(s.sp - len)]
  ELSE [s EXCEPT !.ok = FALSE]

Store(s, bytes) ==
  [s EXCEPT !.mem = [a \in Physical |-> IF a - s.kva + 1 \in DOMAIN bytes
                                        THEN bytes[a - s.kva + 1] ELSE @[a]]]

\* A panic ends init_stack: nothing is pushed after it.
Push(s, bytes) ==
  LET down == sp_down(s, Len(bytes)) IN
  IF s.ok /\ down.ok THEN Store(down, bytes) ELSE [s EXCEPT !.ok = FALSE]

push_byte(s, c) == Push(s, <<<<c, 0>>>>)
push_usize(s, w) == Push(s, [i \in 1 .. PTR_SIZE |-> ByteOf(w, i - 1)])

push_usizes(s, ws) == FoldLeft(push_usize, s, ws)
push_str(s, str) == FoldLeft(push_byte, s, <<0>> \o Reverse(str))

\* sp and kva to a multiple of PTR_SIZE.
Align(s) == [s EXCEPT !.sp = @ - (@ % PTR_SIZE), !.kva = @ - (@ % PTR_SIZE)]

\* init_stack(), with the empty list of environment variables that load()
\* passes.  `argv` is what it returns, for the register a1.
init_stack(args) ==
  LET bare == [sp |-> High, kva |-> 0, ok |-> TRUE, mem |-> [a \in Physical |-> NUL]]
      random == push_usizes(bare, <<0, Time, Time>>)
      PushArg(r, str) == LET s == push_str(r.s, str)
                         IN  [s |-> s, argv |-> Append(r.argv, s.sp)]
      strings == FoldLeft(PushArg, [s |-> push_usize(random, 0), argv |-> <<>>], args)
      vectors == push_usizes(Align(strings.s),
                   <<0, 0, AT_RANDOM, random.sp, PAGE_SIZE, AT_PAGESZ, 0, 0>>
                     \o Reverse(strings.argv))
      top == push_usize(vectors, Len(args))
  IN  [ok |-> top.ok, sp |-> top.sp, argv |-> vectors.sp, argc |-> Len(args),
       mem |-> top.mem]

-----------------------------------------------------------------------------
(* The user library.                                                       *)

Load(st, va) == st.mem[trans_va(va)]

ReadWord(st, va) ==
  LET first == Load(st, va) IN
  IF Mapped(va + PTR_SIZE - 1)
     /\ \A i \in 0 .. PTR_SIZE - 1 : Load(st, va + i) = ByteOf(first[1], i)
  THEN first[1] ELSE -1

CStr(st, va) ==
  LET len == CHOOSE n \in 0 .. High - va - 1 :
               /\ Load(st, va + n) = NUL
               /\ \A k \in 0 .. n - 1 : Load(st, va + k) # NUL
  IN  [k \in 1 .. len |-> Load(st, va + k - 1)[1]]

Readable(st, va) == Mapped(va) /\ \E a \in va .. High - 1 : Load(st, a) = NUL

\* What `_start` collects for main(): the strings argv points to; a pointer
\* that leads nowhere is a fault, an empty list here.
Start(st) ==
  LET ptr(i) == ReadWord(st, st.argv + (i - 1) * PTR_SIZE) IN
  IF \A i \in 1 .. st.argc : Readable(st, ptr(i))
  THEN [i \in 1 .. st.argc |-> CStr(st, ptr(i))] ELSE <<>>
=============================================================================

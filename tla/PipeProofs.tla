----------------------------- MODULE PipeProofs -----------------------------
(* Proofs about Pipe, for every number of processes, set of bytes, size of *)
(* the ring and length of a call's buffer.                                 *)
EXTENDS Pipe, TLAPS, SequenceTheorems

\* The count of bytes lies between 0 and the size, and is 0 exactly when the
\* buffer is empty and the size exactly when it is full.
LEMMA Counts ==
  ASSUME TypeOK, RingInv
  PROVE  /\ available_read \in 0 .. RING_BUFFER_SIZE
         /\ available_write \in 0 .. RING_BUFFER_SIZE
         /\ available_read = 0 <=> status = "Empty"
         /\ available_write = 0 <=> status = "Full"
  BY SizeAssumption DEF TypeOK, RingInv, Slot, available_read, available_write

\* read_byte on a buffer that is not empty takes one byte.
LEMMA ReadByteCounts ==
  ASSUME TypeOK, RingInv, available_read > 0, read_byte
  PROVE  /\ head' \in Slot /\ tail' \in Slot
         /\ status' \in {"Full", "Empty", "Normal"}
         /\ RingInv'
         /\ available_read' = available_read - 1
  BY SizeAssumption
  DEF TypeOK, RingInv, Slot, available_read, read_byte, Succ

\* write_byte on a buffer that is not full adds one byte.
LEMMA WriteByteCounts ==
  ASSUME TypeOK, RingInv, available_write > 0, NEW b \in Byte, write_byte(b)
  PROVE  /\ head' \in Slot /\ tail' \in Slot /\ arr' \in [Slot -> Byte]
         /\ status' \in {"Full", "Empty", "Normal"}
         /\ RingInv'
         /\ available_read' = available_read + 1
  BY SizeAssumption
  DEF TypeOK, RingInv, Slot, available_read, available_write, write_byte, Succ

-----------------------------------------------------------------------------
(* The invariant.                                                          *)

\* The ring and the ends are as before and so are the counts.
LEMMA SameRing ==
  ASSUME UNCHANGED ring
  PROVE  /\ available_read' = available_read
         /\ available_write' = available_write
         /\ RingInv' <=> RingInv
  BY DEF ring, available_read, available_write, RingInv

\* make_pipe() establishes the invariant.
LEMMA InitInv == Init => Inv
  <1> SUFFICES ASSUME Init PROVE Inv
    OBVIOUS
  <1>1. <<>> \in Seq(Byte) /\ 0 \in Slot
    BY SizeAssumption DEF Slot
  <1>2. TypeOK
    BY <1>1, ProcAssumption, ByteAssumption DEF Init, TypeOK
  <1>3. RingInv /\ EofInv /\ ~panic
    BY DEF Init, RingInv, EofInv
  <1>4. CallInv
    BY DEF Init, CallInv
  <1> QED BY <1>2, <1>3, <1>4 DEF Inv

\* Calls that begin or are resumed, and changes of the ends, preserve the
\* invariant.
LEMMA OuterInv ==
  ASSUME Inv, NEW p \in Proc,
         \/ \E n \in 0 .. MaxLen : sys_read(p, n)
         \/ \E buf \in Buffer : sys_write(p, buf)
         \/ Resume(p)
         \/ \E q \in Proc : Fork(p, q)
         \/ \E E \in SUBSET {"r", "w"} : Close(p, E)
  PROVE  Inv'
  <1>1. UNCHANGED ring
    BY DEF sys_read, sys_write, Resume, Fork, Close
  <1>2. CASE \E n \in 0 .. MaxLen : sys_read(p, n)
    <2> PICK n \in 0 .. MaxLen : sys_read(p, n)
      BY <1>2
    <2>1. TypeOK'
      BY SizeAssumption DEF sys_read, InUser, Inv, TypeOK, ring
    <2>2. CallInv' /\ EofInv' /\ ~panic'
      BY <1>1, SameRing, NoneAssumption DEF sys_read, InUser, Inv, TypeOK, CallInv, EofInv
    <2> QED BY <2>1, <2>2, <1>1, SameRing DEF Inv
  <1>3. CASE \E buf \in Buffer : sys_write(p, buf)
    <2> PICK buf \in Buffer : sys_write(p, buf)
      BY <1>3
    <2>0. buf \in Seq(Byte)
      BY SizeAssumption DEF Buffer
    <2>1. TypeOK'
      BY <2>0 DEF sys_write, InUser, Inv, TypeOK, ring
    <2>2. CallInv' /\ EofInv' /\ ~panic'
      BY <1>1, SameRing, NoneAssumption DEF sys_write, InUser, Inv, TypeOK, CallInv, EofInv
    <2> QED BY <2>1, <2>2, <1>1, SameRing DEF Inv
  <1>4. CASE Resume(p)
    <2>1. TypeOK'
      BY <1>4 DEF Resume, Inv, TypeOK, ring
    <2>2. CallInv' /\ EofInv' /\ ~panic'
      BY <1>1, <1>4, SameRing, NoneAssumption DEF Resume, Inv, TypeOK, CallInv, EofInv
    <2> QED BY <2>1, <2>2, <1>1, SameRing DEF Inv
  <1>5. CASE \E q \in Proc : Fork(p, q)
    <2> PICK q \in Proc : Fork(p, q)
      BY <1>5
    <2>1. TypeOK'
      BY DEF Fork, InUser, Inv, TypeOK, ring, calls
    <2>2. CallInv' /\ EofInv' /\ ~panic'
      BY <1>1, SameRing DEF Fork, InUser, Inv, TypeOK, CallInv, EofInv, calls
    <2> QED BY <2>1, <2>2, <1>1, SameRing DEF Inv
  <1>6. CASE \E E \in SUBSET {"r", "w"} : Close(p, E)
    <2> PICK E \in SUBSET {"r", "w"} : Close(p, E)
      BY <1>6
    <2>1. TypeOK'
      BY DEF Close, InUser, Inv, TypeOK, ring, calls
    <2>2. CallInv' /\ EofInv' /\ ~panic'
      BY <1>1, SameRing DEF Close, InUser, Inv, TypeOK, CallInv, EofInv, calls
    <2> QED BY <2>1, <2>2, <1>1, SameRing DEF Inv
  <1> QED BY <1>2, <1>3, <1>4, <1>5, <1>6

\* The top of the outer loop of Pipe::read preserves the invariant.
LEMMA ReadTopInv ==
  ASSUME Inv, NEW p \in Proc, ReadTop(p)
  PROVE  Inv'
  <1>1. UNCHANGED ring /\ ~borrowed /\ UNCHANGED <<ends, unborn>>
    BY NoneAssumption DEF ReadTop, Inv, CallInv
  <1>2. available_read \in Nat
    BY Counts, SizeAssumption DEF Inv
  <1>3. TypeOK' /\ CallInv' /\ ~panic'
    <2>0. <<>> \in Seq(Byte) /\ ~panic' /\ panic' \in BOOLEAN
      <3>1. panic' = borrowed /\ borrowed \in BOOLEAN
        BY DEF ReadTop, Inv, TypeOK
      <3> QED BY <3>1, <1>1
    <2>1. CASE available_read = 0 /\ all_write_ends_closed
      <3>1. /\ Return(p) /\ UNCHANGED from /\ eof' = TRUE
        BY <2>1 DEF ReadTop
      <3>2. TypeOK'
        BY <3>1, <2>0, <1>1 DEF Return, Inv, TypeOK, ring
      <3>3. CallInv'
        BY <3>1, <1>1, SameRing, NoneAssumption
        DEF Return, ReadTop, Inv, TypeOK, CallInv
      <3> QED BY <3>2, <3>3, <2>0
    <2>2. CASE available_read = 0 /\ ~all_write_ends_closed
      <3>1. /\ Suspend(p) /\ UNCHANGED <<from, into, room, eof>>
        BY <2>2 DEF ReadTop
      <3>2. TypeOK'
        BY <3>1, <2>0, <1>1 DEF Suspend, Inv, TypeOK, ring
      <3>3. CallInv'
        BY <3>1, <1>1, SameRing, NoneAssumption
        DEF Suspend, ReadTop, Inv, TypeOK, CallInv
      <3> QED BY <3>2, <3>3, <2>0
    <2>3. CASE available_read # 0
      <3>1. /\ loop' = [loop EXCEPT ![p] = available_read]
            /\ pc' = [pc EXCEPT ![p] = "copy_out"]
            /\ borrowed' = TRUE /\ cpu' = cpu
            /\ UNCHANGED <<from, into, room, eof>>
        BY <2>3 DEF ReadTop, Goto
      <3>2. TypeOK'
        BY <3>1, <2>0, <1>1, <1>2 DEF Inv, TypeOK, ring
      <3>3. CallInv'
        BY <3>1, <1>1, <1>2, SameRing, NoneAssumption
        DEF ReadTop, Inv, TypeOK, CallInv
      <3> QED BY <3>2, <3>3, <2>0
    <2> QED BY <2>1, <2>2, <2>3
  <1>5. EofInv'
    BY <1>1, SameRing
    DEF ReadTop, Suspend, Return, Goto, Inv, EofInv, all_write_ends_closed
  <1> QED BY <1>1, <1>3, <1>5, SameRing DEF Inv

\* The top of the outer loop of Pipe::write preserves the invariant.
LEMMA WriteTopInv ==
  ASSUME Inv, NEW p \in Proc, WriteTop(p)
  PROVE  Inv'
  <1>1. UNCHANGED ring /\ ~borrowed /\ UNCHANGED <<ends, unborn, eof>>
    BY NoneAssumption DEF WriteTop, Inv, CallInv
  <1>2. available_write \in Nat
    BY Counts, SizeAssumption DEF Inv
  <1>3. TypeOK'
    BY <1>1, <1>2 DEF WriteTop, Suspend, Return, Goto, Inv, TypeOK, ring
  <1>4. CallInv' /\ ~panic'
    <2>1. CASE available_write = 0
      BY <2>1, <1>1, SameRing, NoneAssumption
      DEF WriteTop, Suspend, Inv, TypeOK, CallInv
    <2>2. CASE available_write # 0
      BY <2>2, <1>1, <1>2, SameRing, NoneAssumption
      DEF WriteTop, Goto, Inv, TypeOK, CallInv
    <2> QED BY <2>1, <2>2
  <1>5. EofInv'
    BY <1>1, SameRing DEF Inv, EofInv
  <1> QED BY <1>1, <1>3, <1>4, <1>5, SameRing DEF Inv

\* An iteration of the `for` loop of Pipe::read preserves the invariant.
LEMMA ReadLoopInv ==
  ASSUME Inv, NEW p \in Proc, ReadLoop(p)
  PROVE  Inv'
  <1>1. CASE loop[p] > 0 /\ room[p] > 0
    <2>1. available_read > 0
      BY <1>1, Counts DEF ReadLoop, Inv, CallInv, TypeOK
    <2>2. read_byte
      BY <1>1 DEF ReadLoop, Inv, TypeOK
    <2>3. /\ head' \in Slot /\ tail' \in Slot
          /\ status' \in {"Full", "Empty", "Normal"}
          /\ RingInv' /\ available_read' = available_read - 1
      BY <2>1, <2>2, ReadByteCounts DEF Inv
    <2>4. arr[head] \in Byte
      BY DEF Inv, TypeOK
    <2>5. TypeOK'
      <3>1. /\ into' = [into EXCEPT ![p] = Append(@, arr[head])]
            /\ room' = [room EXCEPT ![p] = @ - 1]
            /\ loop' = [loop EXCEPT ![p] = @ - 1]
            /\ UNCHANGED <<cpu, pc, borrowed, ends, unborn, from, eof, panic, arr>>
        BY <1>1, <2>2 DEF ReadLoop, Inv, TypeOK, read_byte
      <3>2. into' \in [Proc -> Seq(Byte)]
        BY <3>1, <2>4 DEF Inv, TypeOK
      <3>3. room' \in [Proc -> Nat] /\ loop' \in [Proc -> Nat]
        <4>1. room \in [Proc -> Nat] /\ loop \in [Proc -> Nat]
          BY DEF Inv, TypeOK
        <4> QED BY <4>1, <3>1, <1>1
      <3> QED BY <3>1, <3>2, <3>3, <2>3 DEF Inv, TypeOK
    <2>6. CallInv' /\ ~panic'
      <3>1. /\ cpu' = cpu /\ pc' = pc /\ borrowed' = borrowed /\ ends' = ends /\ ~panic'
            /\ loop' = [loop EXCEPT ![p] = @ - 1] /\ cpu = p /\ pc[p] = "copy_out"
        BY <1>1 DEF ReadLoop
      <3>2. loop \in [Proc -> Nat] /\ CallInv
        BY DEF Inv, TypeOK
      <3>3. available_read \in Int
        BY Counts DEF Inv
      <3>4. loop'[p] <= available_read'
        BY <2>3, <3>1, <3>2, <3>3 DEF CallInv
      <3>5. \A q \in Proc : pc[q] \in {"copy_out", "copy_in"} => q = p
        BY <3>1, <3>2 DEF CallInv
      <3> QED BY <3>1, <3>2, <3>4, <3>5 DEF CallInv
    <2>7. EofInv'
      BY <2>1 DEF ReadLoop, Inv, EofInv
    <2> QED BY <2>3, <2>5, <2>6, <2>7 DEF Inv
  <1>2. CASE ~(loop[p] > 0 /\ room[p] > 0)
    <2>1. UNCHANGED ring
      BY <1>2 DEF ReadLoop
    <2>2. TypeOK'
      <3>1. <<>> \in Seq(Byte)
        OBVIOUS
      <3>2. CASE loop[p] = 0
        <4>1. /\ pc' = [pc EXCEPT ![p] = "read"] /\ borrowed' = FALSE
              /\ UNCHANGED <<cpu, into, room, from, loop, ends, unborn, eof, panic>>
          BY <3>2 DEF ReadLoop, Goto
        <4> QED BY <4>1, <2>1 DEF Inv, TypeOK, ring
      <3>3. CASE loop[p] > 0 /\ room[p] = 0
        <4>1. Return(p) /\ UNCHANGED <<from, ends, unborn, eof, panic>>
          BY <3>3 DEF ReadLoop, Inv, TypeOK
        <4> QED BY <3>1, <4>1, <2>1 DEF Return, Inv, TypeOK, ring
      <3>4. loop[p] \in Nat /\ room[p] \in Nat
        BY DEF Inv, TypeOK
      <3> QED BY <3>2, <3>3, <3>4, <1>2
    <2>3. CallInv' /\ EofInv' /\ ~panic'
      BY <1>2, <2>1, SameRing, NoneAssumption
      DEF ReadLoop, Return, Goto, Inv, TypeOK, CallInv, EofInv
    <2> QED BY <2>1, <2>2, <2>3, SameRing DEF Inv
  <1> QED BY <1>1, <1>2

\* An iteration of the `for` loop of Pipe::write preserves the invariant.
LEMMA WriteLoopInv ==
  ASSUME Inv, NEW p \in Proc, WriteLoop(p)
  PROVE  Inv'
  <1>1. CASE loop[p] > 0 /\ from[p] # <<>>
    <2>1. available_write > 0
      BY <1>1, Counts DEF WriteLoop, Inv, CallInv, TypeOK
    <2>2. Head(from[p]) \in Byte /\ Tail(from[p]) \in Seq(Byte)
      BY <1>1 DEF Inv, TypeOK
    <2>3. write_byte(Head(from[p]))
      BY <1>1 DEF WriteLoop
    <2>4. /\ head' \in Slot /\ tail' \in Slot /\ arr' \in [Slot -> Byte]
          /\ status' \in {"Full", "Empty", "Normal"}
          /\ RingInv' /\ available_read' = available_read + 1
      BY <2>1, <2>2, <2>3, WriteByteCounts DEF Inv
    <2>5. /\ from' = [from EXCEPT ![p] = Tail(@)]
          /\ loop' = [loop EXCEPT ![p] = @ - 1]
          /\ UNCHANGED <<cpu, pc, borrowed, ends, unborn, into, room, eof, panic>>
      BY <1>1 DEF WriteLoop, Inv, TypeOK
    <2>a. TypeOK'
      <3>1. from' \in [Proc -> Seq(Byte)] /\ loop' \in [Proc -> Nat]
        BY <2>5, <2>2, <1>1 DEF Inv, TypeOK
      <3> QED BY <2>4, <2>5, <3>1 DEF Inv, TypeOK
    <2>b. available_read \in Nat /\ available_write' = available_write - 1
      BY <2>4, Counts, SizeAssumption DEF available_write, Inv
    <2>6. CallInv' /\ ~panic'
      <3>1. \A q \in Proc : q # p => pc[q] \notin {"copy_in", "copy_out"}
        BY NoneAssumption DEF WriteLoop, Inv, CallInv
      <3>2. pc[p] = "copy_in" /\ loop[p] <= available_write /\ cpu = p
        BY DEF WriteLoop, Inv, CallInv
      <3> QED BY <3>1, <3>2, <2>5, <2>b, Counts, SizeAssumption, NoneAssumption
           DEF Inv, TypeOK, CallInv
    <2>7. EofInv'
      BY DEF WriteLoop, Inv, CallInv, EofInv
    <2> QED BY <2>4, <2>a, <2>6, <2>7 DEF Inv
  <1>2. CASE ~(loop[p] > 0 /\ from[p] # <<>>)
    <2>1. UNCHANGED ring
      BY <1>2 DEF WriteLoop
    <2>2. TypeOK'
      <3>1. <<>> \in Seq(Byte)
        OBVIOUS
      <3>2. CASE loop[p] = 0
        <4>1. /\ pc' = [pc EXCEPT ![p] = "write"] /\ borrowed' = FALSE
              /\ UNCHANGED <<cpu, into, room, from, loop, ends, unborn, eof, panic>>
          BY <3>2 DEF WriteLoop, Goto
        <4> QED BY <4>1, <2>1 DEF Inv, TypeOK, ring
      <3>3. CASE loop[p] > 0 /\ from[p] = <<>>
        <4>1. Return(p) /\ UNCHANGED <<from, ends, unborn, eof, panic>>
          BY <3>3 DEF WriteLoop, Inv, TypeOK
        <4> QED BY <3>1, <4>1, <2>1 DEF Return, Inv, TypeOK, ring
      <3>4. loop[p] \in Nat /\ room[p] \in Nat
        BY DEF Inv, TypeOK
      <3> QED BY <3>2, <3>3, <3>4, <1>2
    <2>3. CallInv' /\ EofInv' /\ ~panic'
      BY <1>2, <2>1, SameRing, NoneAssumption
      DEF WriteLoop, Return, Goto, Inv, TypeOK, CallInv, EofInv
    <2> QED BY <2>1, <2>2, <2>3, SameRing DEF Inv
  <1> QED BY <1>1, <1>2

\* Every step preserves the invariant.
LEMMA NextInv == Inv /\ [Next]_vars => Inv'
  <1> SUFFICES ASSUME Inv, [Next]_vars PROVE Inv'
    OBVIOUS
  <1>1. CASE UNCHANGED vars
    <2>1. UNCHANGED ring
      BY <1>1 DEF vars
    <2> QED BY <1>1, <2>1, SameRing
      DEF vars, ring, calls, Inv, TypeOK, CallInv, EofInv
  <1>2. CASE Next
    BY <1>2, OuterInv, ReadTopInv, WriteTopInv, ReadLoopInv, WriteLoopInv DEF Next
  <1> QED BY <1>1, <1>2

\* The inductive invariant holds in every reachable state.
THEOREM Invariance == Spec => []Inv
  BY InitInv, NextInv, PTL DEF Spec

\* Indices, status, buffers and calls keep their types: head and tail stay
\* within the array of the ring buffer.
THEOREM Typing == Spec => []TypeOK
  BY Invariance, PTL DEF Inv

\* read_byte and write_byte are only called on a buffer that has a byte, or
\* room for one.
THEOREM ByteContract == Spec => []CallerContract
  <1>1. Inv => CallerContract
    BY Counts DEF Inv, TypeOK, CallInv, CallerContract
  <1> QED BY <1>1, Invariance, PTL

\* The ring buffer's cell is never borrowed across a suspension.
THEOREM BorrowContract == Spec => []NeverBorrowedTwice
  <1>1. Inv => NeverBorrowedTwice
    BY DEF Inv, CallInv, NeverBorrowedTwice
  <1> QED BY <1>1, Invariance, PTL

\* Pipe::write returns only when everything is written, Pipe::read with less
\* than it was asked for only at the end of the file.
THEOREM Completeness == Spec => CallsComplete
  <1> DEFINE A == \A p \in Proc : pc[p] # "user" /\ pc'[p] = "user" =>
                    IF pc[p] = "copy_in" THEN from[p] = <<>>
                    ELSE room[p] = 0 \/ (available_read = 0 /\ ends["w"] = {})
  <1>1. Inv /\ [Next]_vars => [A]_vars
    <2> SUFFICES ASSUME Inv, Next, NEW q \in Proc, pc[q] # "user", pc'[q] = "user"
                 PROVE  IF pc[q] = "copy_in" THEN from[q] = <<>>
                        ELSE room[q] = 0 \/ (available_read = 0 /\ ends["w"] = {})
      BY DEF A
    <2>1. PICK p \in Proc :
            \/ \E n \in 0 .. MaxLen : sys_read(p, n)
            \/ \E buf \in Buffer : sys_write(p, buf)
            \/ Resume(p)
            \/ ReadTop(p) \/ ReadLoop(p)
            \/ WriteTop(p) \/ WriteLoop(p)
            \/ \E r \in Proc : Fork(p, r)
            \/ \E E \in SUBSET {"r", "w"} : Close(p, E)
      BY DEF Next
    <2>2. CASE \E n \in 0 .. MaxLen : sys_read(p, n)
      BY <2>2 DEF sys_read, Inv, TypeOK
    <2>3. CASE \E buf \in Buffer : sys_write(p, buf)
      BY <2>3 DEF sys_write, Inv, TypeOK
    <2>4. CASE Resume(p) \/ \E r \in Proc : Fork(p, r)
                         \/ \E E \in SUBSET {"r", "w"} : Close(p, E)
      BY <2>4 DEF Resume, Fork, Close, calls
    <2>5. CASE ReadTop(p)
      BY <2>5 DEF ReadTop, Return, Suspend, Goto, all_write_ends_closed, Inv, TypeOK
    <2>6. CASE WriteTop(p)
      BY <2>6 DEF WriteTop, Suspend, Goto, Inv, TypeOK
    <2>7. CASE ReadLoop(p)
      BY <2>7 DEF ReadLoop, Return, Goto, Inv, TypeOK
    <2>8. CASE WriteLoop(p)
      BY <2>8 DEF WriteLoop, Return, Goto, Inv, TypeOK
    <2> QED BY <2>1, <2>2, <2>3, <2>4, <2>5, <2>6, <2>7, <2>8
  <1>2. CallsComplete <=> [][A]_vars
    BY DEF CallsComplete
  <1> QED BY <1>1, <1>2, Invariance, PTL DEF Spec

-----------------------------------------------------------------------------
(* Refinement: the ring buffer implements the channel.                     *)

\* read_byte takes the first byte of the queue.
LEMMA ReadByteContents ==
  ASSUME TypeOK, RingInv, available_read > 0, read_byte
  PROVE  /\ Contents # <<>> /\ Head(Contents) = arr[head]
         /\ Contents' = Tail(Contents)
  <1>1. available_read' = available_read - 1 /\ available_read \in Nat \ {0}
    BY ReadByteCounts, Counts
  <1>2. Contents \in Seq(Byte) /\ Len(Contents) = available_read
    BY <1>1, SizeAssumption, Counts DEF Contents, At, TypeOK, Slot
  <1>3. Contents[1] = arr[head]
    BY <1>1, SizeAssumption DEF Contents, At, TypeOK, Slot
  <1>4. Contents' = [i \in 1 .. available_read - 1 |-> arr[At(i)']]
    BY <1>1 DEF Contents, read_byte
  <1>5. \A i \in 1 .. available_read - 1 : At(i)' = At(i + 1)
    BY <1>1, SizeAssumption, Counts DEF At, read_byte, Succ, TypeOK, Slot
  <1>6. \A i \in 1 .. available_read - 1 : Contents[i + 1] = arr[At(i + 1)]
    BY <1>1 DEF Contents
  <1>7. Tail(Contents) = [i \in 1 .. available_read - 1 |-> Contents[i + 1]]
    <2> DEFINE t == [i \in 1 .. available_read - 1 |-> Contents[i + 1]]
    <2>1. Contents # <<>>
      BY <1>1, <1>2
    <2>2. /\ Tail(Contents) \in Seq(Byte) /\ Len(Tail(Contents)) = available_read - 1
          /\ \A i \in 1 .. Len(Tail(Contents)) : Tail(Contents)[i] = Contents[i + 1]
      BY <2>1, <1>2, HeadTailProperties
    <2>3. t \in Seq(Byte) /\ Len(t) = available_read - 1
      BY <1>1, <1>2
    <2> HIDE DEF t
    <2>4. \A i \in 1 .. Len(t) : t[i] = Contents[i + 1]
      BY <2>3 DEF t
    <2>5. t = Tail(Contents)
      BY <2>2, <2>3, <2>4, SeqEqual
    <2> QED BY <2>5 DEF t
  <1> QED BY <1>1, <1>2, <1>3, <1>4, <1>5, <1>6, <1>7

\* write_byte adds a byte at the end of the queue.
LEMMA WriteByteContents ==
  ASSUME TypeOK, RingInv, available_write > 0, NEW b \in Byte, write_byte(b)
  PROVE  /\ Len(Contents) < RING_BUFFER_SIZE
         /\ Contents' = Append(Contents, b)
  <1>1. /\ available_read' = available_read + 1 /\ available_read \in Nat
        /\ available_read < RING_BUFFER_SIZE
    BY WriteByteCounts, Counts, SizeAssumption DEF available_write
  <1>2. Contents \in Seq(Byte) /\ Len(Contents) = available_read
    BY <1>1, SizeAssumption, Counts DEF Contents, At, TypeOK, Slot
  <1>3. Contents' = [i \in 1 .. available_read + 1 |-> arr'[At(i)]]
    BY <1>1 DEF Contents, write_byte, At
  <1>4. At(available_read + 1) = tail
    BY <1>1, SizeAssumption, Counts
    DEF At, available_read, available_write, TypeOK, RingInv, Slot
  <1>5. \A i \in 1 .. available_read : At(i) # tail /\ At(i) \in Slot
    BY <1>1, SizeAssumption, Counts
    DEF At, available_read, available_write, TypeOK, RingInv, Slot
  <1>6. arr'[tail] = b /\ \A j \in Slot : j # tail => arr'[j] = arr[j]
    BY DEF write_byte, TypeOK
  <1>7. \A i \in 1 .. available_read : arr'[At(i)] = Contents[i]
    BY <1>1, <1>5, <1>6 DEF Contents
  <1>8. Append(Contents, b) = [i \in 1 .. available_read + 1 |->
                                 IF i = available_read + 1 THEN b ELSE Contents[i]]
    <2> DEFINE t == [i \in 1 .. available_read + 1 |->
                        IF i = available_read + 1 THEN b ELSE Contents[i]]
               a == Append(Contents, b)
    <2>1. /\ a \in Seq(Byte) /\ Len(a) = available_read + 1
          /\ \A i \in 1 .. Len(Contents) : a[i] = Contents[i]
          /\ a[Len(Contents) + 1] = b
      BY <1>2, AppendProperties
    <2>2. t \in Seq(Byte) /\ Len(t) = available_read + 1
      BY <1>1, <1>2
    <2> HIDE DEF t, a
    <2>3. \A i \in 1 .. Len(t) : t[i] = a[i]
      <3> SUFFICES ASSUME NEW i \in 1 .. Len(t) PROVE t[i] = a[i]
        OBVIOUS
      <3>1. t[i] = IF i = available_read + 1 THEN b ELSE Contents[i]
        BY <2>2 DEF t
      <3>2. i = available_read + 1 \/ i \in 1 .. Len(Contents)
        BY <2>2, <1>1, <1>2
      <3> QED BY <3>1, <3>2, <2>1, <1>1, <1>2
    <2>4. t = a
      BY <2>1, <2>2, <2>3, SeqEqual
    <2> QED BY <2>4 DEF t, a
  <1> QED BY <1>1, <1>2, <1>3, <1>4, <1>6, <1>7, <1>8

\* Without a change of the ring the queue stays.
LEMMA SameContents ==
  ASSUME UNCHANGED ring
  PROVE  Contents' = Contents
  BY DEF ring, Contents, At, available_read

\* An iteration of a `for` loop is one send, one receive, the return of a
\* call, or nothing to the channel.
LEMMA LoopRefines ==
  ASSUME Inv, NEW p \in Proc, ReadLoop(p) \/ WriteLoop(p)
  PROVE  [Chan!Next]_(Chan!chan)
  <1>1. CASE ReadLoop(p) /\ loop[p] > 0 /\ room[p] > 0
    <2>1. available_read > 0
      BY <1>1, Counts DEF ReadLoop, Inv, CallInv, TypeOK
    <2>2. /\ read_byte
          /\ into' = [into EXCEPT ![p] = Append(@, arr[head])]
          /\ UNCHANGED <<ends, eof>>
      BY <1>1 DEF ReadLoop, Inv, TypeOK
    <2>3. Chan!Receive(p)
      BY <2>1, <2>2, ReadByteContents DEF Inv, Chan!Receive
    <2> QED BY <2>3 DEF Chan!Next
  <1>2. CASE WriteLoop(p) /\ loop[p] > 0 /\ from[p] # <<>>
    <2>1. available_write > 0
      BY <1>2, Counts DEF WriteLoop, Inv, CallInv, TypeOK
    <2>2. /\ write_byte(Head(from[p])) /\ Head(from[p]) \in Byte
          /\ UNCHANGED <<into, ends, eof>>
      BY <1>2 DEF WriteLoop, Inv, TypeOK
    <2>3. p \in ends["w"] /\ ~eof
      BY <1>2 DEF WriteLoop, Inv, CallInv, EofInv
    <2>4. Chan!Send(p, Head(from[p]))
      BY <2>1, <2>2, <2>3, WriteByteContents DEF Inv, Chan!Send
    <2> QED BY <2>2, <2>4 DEF Chan!Next
  <1>3. CASE \/ ReadLoop(p) /\ loop[p] > 0 /\ room[p] = 0
             \/ WriteLoop(p) /\ loop[p] > 0 /\ from[p] = <<>>
    <2>1. UNCHANGED ring /\ Return(p) /\ UNCHANGED <<ends, eof>>
      BY <1>3 DEF ReadLoop, WriteLoop, Inv, TypeOK
    <2>2. Chan!Take(p)
      BY <2>1, SameContents DEF Return, Chan!Take
    <2> QED BY <2>2 DEF Chan!Next
  <1>4. CASE loop[p] = 0
    <2>1. UNCHANGED ring /\ UNCHANGED <<into, ends, eof>>
      BY <1>4 DEF ReadLoop, WriteLoop
    <2> QED BY <2>1, SameContents DEF Chan!chan
  <1>5. loop[p] \in Nat /\ room[p] \in Nat
    BY DEF Inv, TypeOK
  <1> QED BY <1>1, <1>2, <1>3, <1>4, <1>5

\* Every other step changes at most the references to the ends, or is a
\* read that ends with the file.
LEMMA OuterRefines ==
  ASSUME Inv, NEW p \in Proc,
         \/ \E n \in 0 .. MaxLen : sys_read(p, n)
         \/ \E buf \in Buffer : sys_write(p, buf)
         \/ Resume(p) \/ ReadTop(p) \/ WriteTop(p)
         \/ \E q \in Proc : Fork(p, q)
         \/ \E E \in SUBSET {"r", "w"} : Close(p, E)
  PROVE  [Chan!Next]_(Chan!chan)
  <1>1. UNCHANGED ring
    BY DEF sys_read, sys_write, Resume, Fork, Close, ReadTop, WriteTop
  <1>2. Contents' = Contents
    BY <1>1, SameContents
  <1>3. CASE \/ \E n \in 0 .. MaxLen : sys_read(p, n)
             \/ \E buf \in Buffer : sys_write(p, buf)
             \/ Resume(p) \/ WriteTop(p)
    <2>1. UNCHANGED <<into, ends, eof>>
      BY <1>3 DEF sys_read, sys_write, Resume, WriteTop
    <2> QED BY <2>1, <1>2 DEF Chan!chan
  <1>4. CASE ReadTop(p) /\ available_read = 0 /\ ends["w"] = {}
    <2>1. Return(p) /\ eof' = TRUE /\ ends' = ends
      BY <1>4 DEF ReadTop, all_write_ends_closed
    <2>2. Contents = <<>>
      BY <1>4 DEF Contents
    <2>3. Chan!EndOfFile(p)
      BY <1>2, <1>4, <2>1, <2>2 DEF Return, Chan!EndOfFile
    <2> QED BY <2>3 DEF Chan!Next
  <1>5. CASE ReadTop(p) /\ ~(available_read = 0 /\ ends["w"] = {})
    <2>1. UNCHANGED <<into, ends, eof>>
      BY <1>5 DEF ReadTop, all_write_ends_closed
    <2> QED BY <2>1, <1>2 DEF Chan!chan
  <1>6. CASE \E q \in Proc : Fork(p, q)
    <2> PICK q \in Proc : Fork(p, q)
      BY <1>6
    <2>1. UNCHANGED <<into, eof>>
      BY DEF Fork, calls
    <2>2. CASE p \in ends["w"]
      <3>1. ends'["w"] = ends["w"] \cup {q}
        BY <2>2 DEF Fork
      <3>2. Chan!Inherit(p, q)
        BY <3>1, <2>1, <2>2, <1>2 DEF Chan!Inherit
      <3> QED BY <3>2 DEF Chan!Next
    <2>3. CASE p \notin ends["w"]
      <3>1. ends'["w"] = ends["w"]
        BY <2>3 DEF Fork
      <3> QED BY <3>1, <2>1, <1>2 DEF Chan!chan
    <2> QED BY <2>2, <2>3
  <1>7. CASE \E E \in SUBSET {"r", "w"} : Close(p, E)
    <2> PICK E \in SUBSET {"r", "w"} : Close(p, E)
      BY <1>7
    <2>1. UNCHANGED <<into, eof>>
      BY DEF Close, calls
    <2>2. CASE "w" \in E
      <3>1. ends'["w"] = ends["w"] \ {p}
        BY <2>2 DEF Close
      <3>2. Chan!Leave(p)
        BY <3>1, <2>1, <1>2 DEF Chan!Leave
      <3> QED BY <3>2 DEF Chan!Next
    <2>3. CASE "w" \notin E
      <3>1. ends'["w"] = ends["w"]
        BY <2>3 DEF Close
      <3> QED BY <3>1, <2>1, <1>2 DEF Chan!chan
    <2> QED BY <2>2, <2>3
  <1> QED BY <1>3, <1>4, <1>5, <1>6, <1>7

\* A pipe is a channel: every behaviour of the ring buffer and its calls is,
\* seen through Contents, a behaviour of Channel.
THEOREM Refinement == Spec => ImplementsChannel
  <1>1. Init => Chan!Init
    <2> SUFFICES ASSUME Init PROVE Chan!Init
      OBVIOUS
    <2>1. Contents = <<>>
      BY DEF Init, Contents, available_read
    <2>2. ends["w"] \subseteq Proc
      BY ProcAssumption DEF Init
    <2> QED BY <2>1, <2>2 DEF Init, Chan!Init
  <1>2. Inv /\ [Next]_vars => [Chan!Next]_(Chan!chan)
    <2> SUFFICES ASSUME Inv, [Next]_vars PROVE [Chan!Next]_(Chan!chan)
      OBVIOUS
    <2>1. CASE UNCHANGED vars
      <3>1. UNCHANGED ring /\ UNCHANGED <<into, ends, eof>>
        BY <2>1 DEF vars, calls
      <3> QED BY <3>1, SameContents DEF Chan!chan
    <2>2. CASE Next
      BY <2>2, LoopRefines, OuterRefines DEF Next
    <2> QED BY <2>1, <2>2
  <1> QED BY <1>1, <1>2, Invariance, PTL DEF Spec, ImplementsChannel, Chan!Spec

=============================================================================

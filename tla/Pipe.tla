-------------------------------- MODULE Pipe --------------------------------
(***************************************************************************)
(* filesystem/src/pipe.rs: the ring buffer behind a pipe, and the calls    *)
(* Pipe::read and Pipe::write of the processes that hold its ends.         *)
(*                                                                         *)
(* A call runs in the kernel without interference until it returns or      *)
(* gives the processor up (`cpu` is the process whose call runs); one      *)
(* action is one iteration of a loop.  A suspended call starts over at the *)
(* top of its outer loop whenever the scheduler picks its thread.          *)
(***************************************************************************)
EXTENDS Integers, Sequences

CONSTANTS
  Proc,               \* processes
  Byte,               \* values of a byte
  RING_BUFFER_SIZE,
  MaxLen,             \* bound on the length of a buffer passed to a call
  Creator             \* the process that calls sys_pipe2

ASSUME SizeAssumption == RING_BUFFER_SIZE \in Nat \ {0} /\ MaxLen \in Nat
ASSUME ByteAssumption == 0 \in Byte
ASSUME ProcAssumption == Creator \in Proc

None == "none"        \* no process
ASSUME NoneAssumption == None \notin Proc

VARIABLES
  arr, head, tail, status,  \* fields of PipeRingBuffer
  borrowed,     \* the UPSafeCell around it is borrowed
  ends,         \* "r", "w": the processes with a reference to that end
  unborn,       \* processes that do not exist yet
  cpu,          \* the process whose call runs, or None
  pc,           \* per process: where its call is
  into, room,   \* per read call: the bytes read, and room left in the buffer
  from,         \* per write call: the bytes still to be written
  loop,         \* iterations left of the `for` loop
  eof,          \* history: some read has returned because of the end of file
  panic         \* "already borrowed"

ring == <<arr, head, tail, status>>
calls == <<cpu, pc, into, room, from, loop>>
vars == <<ring, borrowed, ends, unborn, calls, eof, panic>>

Slot == 0 .. RING_BUFFER_SIZE - 1
Buffer == UNION {[1 .. n -> Byte] : n \in 0 .. MaxLen}

TypeOK ==
  /\ arr \in [Slot -> Byte] /\ head \in Slot /\ tail \in Slot
  /\ status \in {"Full", "Empty", "Normal"}
  /\ borrowed \in BOOLEAN /\ eof \in BOOLEAN /\ panic \in BOOLEAN
  /\ ends \in [{"r", "w"} -> SUBSET Proc]
  /\ unborn \subseteq Proc
  /\ cpu \in Proc \cup {None}
  /\ pc \in [Proc -> {"user", "read", "copy_out", "write", "copy_in"}]
  /\ into \in [Proc -> Seq(Byte)]
  /\ from \in [Proc -> Seq(Byte)]
  /\ room \in [Proc -> Nat]
  /\ loop \in [Proc -> Nat]

\* make_pipe() by Creator.
Init ==
  /\ arr = [i \in Slot |-> 0]
  /\ head = 0 /\ tail = 0
  /\ status = "Empty"
  /\ borrowed = FALSE /\ eof = FALSE /\ panic = FALSE
  /\ ends = [e \in {"r", "w"} |-> {Creator}]
  /\ unborn = Proc \ {Creator}
  /\ cpu = None
  /\ pc = [p \in Proc |-> "user"]
  /\ into = [p \in Proc |-> <<>>]
  /\ from = [p \in Proc |-> <<>>]
  /\ room = [p \in Proc |-> 0]
  /\ loop = [p \in Proc |-> 0]

-----------------------------------------------------------------------------
(* PipeRingBuffer.                                                         *)

\* (i + 1) % RING_BUFFER_SIZE
Succ(i) == IF i = RING_BUFFER_SIZE - 1 THEN 0 ELSE i + 1

\* Mutant: head = tail always counts as a full buffer.
available_read_no_empty ==
  IF tail > head THEN tail - head ELSE tail + RING_BUFFER_SIZE - head

\* Mutant: head = tail always counts as an empty buffer.
available_read_no_full ==
  IF tail >= head THEN tail - head ELSE tail + RING_BUFFER_SIZE - head

available_read ==
  IF status = "Empty" THEN 0
  ELSE IF tail > head THEN tail - head
  ELSE tail + RING_BUFFER_SIZE - head

available_write == RING_BUFFER_SIZE - available_read

\* Mutant: only the reference of the creating process counts.
creator_closed == Creator \notin ends["w"]

\* Mutant: the strong count of the buffer instead of the write end's.
buffer_unreferenced == ends["w"] = {} /\ ends["r"] = {}

all_write_ends_closed == ends["w"] = {}

read_byte ==
  /\ head' = Succ(head)
  /\ status' = IF Succ(head) = tail THEN "Empty" ELSE "Normal"
  /\ UNCHANGED <<arr, tail>>

write_byte(b) ==
  /\ arr' = [arr EXCEPT ![tail] = b]
  /\ tail' = Succ(tail)
  /\ status' = IF head = Succ(tail) THEN "Full" ELSE "Normal"
  /\ UNCHANGED head

-----------------------------------------------------------------------------
(* Entering, leaving, suspending and resuming a call.                      *)

InUser(p) == ~panic /\ cpu = None /\ pc[p] = "user" /\ p \notin unborn

sys_read(p, n) ==
  /\ InUser(p) /\ p \in ends["r"]
  /\ cpu' = p
  /\ pc' = [pc EXCEPT ![p] = "read"]
  /\ room' = [room EXCEPT ![p] = n]
  /\ UNCHANGED <<ring, borrowed, ends, unborn, into, from, loop, eof, panic>>

sys_write(p, buf) ==
  /\ InUser(p) /\ p \in ends["w"]
  /\ cpu' = p
  /\ pc' = [pc EXCEPT ![p] = "write"]
  /\ from' = [from EXCEPT ![p] = buf]
  /\ UNCHANGED <<ring, borrowed, ends, unborn, into, room, loop, eof, panic>>

\* The scheduler picks a thread that was suspended inside its call.
Resume(p) ==
  /\ ~panic /\ cpu = None /\ pc[p] # "user"
  /\ cpu' = p
  /\ UNCHANGED <<ring, borrowed, ends, unborn, pc, into, room, from, loop, eof, panic>>

\* Mutant: suspended with the buffer borrowed.
SuspendBorrowed(p) ==
  /\ cpu' = None
  /\ borrowed' = TRUE
  /\ UNCHANGED <<pc, loop>>

\* `drop(ring_buffer)` comes before __suspend_curr_and_run_next().
Suspend(p) ==
  /\ cpu' = None
  /\ borrowed' = FALSE
  /\ UNCHANGED <<pc, loop>>

\* The program has its result, the local variables are gone.
Return(p) ==
  /\ cpu' = None
  /\ pc' = [pc EXCEPT ![p] = "user"]
  /\ loop' = [loop EXCEPT ![p] = 0]
  /\ room' = [room EXCEPT ![p] = 0]
  /\ into' = [into EXCEPT ![p] = <<>>]
  /\ borrowed' = FALSE

Goto(p, label) ==
  /\ pc' = [pc EXCEPT ![p] = label]
  /\ UNCHANGED cpu

-----------------------------------------------------------------------------
(* The top of the outer loop: exclusive_access() and the number of bytes   *)
(* to copy.                                                                *)

ReadTop(p) ==
  /\ ~panic /\ cpu = p /\ pc[p] = "read"
  /\ panic' = borrowed
  /\ IF available_read = 0
     THEN IF all_write_ends_closed THEN Return(p) /\ eof' = TRUE
          ELSE Suspend(p) /\ UNCHANGED <<into, room, eof>>
     ELSE /\ loop' = [loop EXCEPT ![p] = available_read]
          /\ borrowed' = TRUE
          /\ Goto(p, "copy_out")
          /\ UNCHANGED <<into, room, eof>>
  /\ UNCHANGED <<ring, ends, unborn, from>>

WriteTop(p) ==
  /\ ~panic /\ cpu = p /\ pc[p] = "write"
  /\ panic' = borrowed
  /\ IF available_write = 0
     THEN Suspend(p)
     ELSE /\ loop' = [loop EXCEPT ![p] = available_write]
          /\ borrowed' = TRUE
          /\ Goto(p, "copy_in")
  /\ UNCHANGED <<ring, ends, unborn, into, room, from, eof>>

(* The `for` loops.  When the user's buffer is used up first, the call     *)
(* returns; when the loop ends first, even together with the buffer, the   *)
(* borrow ends and the outer loop starts over.                             *)

ReadLoop(p) ==
  /\ ~panic /\ cpu = p /\ pc[p] = "copy_out"
  /\ \/ /\ loop[p] = 0
        /\ Goto(p, "read") /\ borrowed' = FALSE
        /\ UNCHANGED <<ring, into, room, loop>>
     \/ /\ loop[p] > 0 /\ room[p] > 0
        /\ into' = [into EXCEPT ![p] = Append(@, arr[head])]
        /\ read_byte
        /\ room' = [room EXCEPT ![p] = @ - 1]
        /\ loop' = [loop EXCEPT ![p] = @ - 1]
        /\ UNCHANGED <<cpu, pc, borrowed>>
     \/ /\ loop[p] > 0 /\ room[p] = 0
        /\ Return(p)
        /\ UNCHANGED ring
  /\ UNCHANGED <<ends, unborn, from, eof, panic>>

WriteLoop(p) ==
  /\ ~panic /\ cpu = p /\ pc[p] = "copy_in"
  /\ \/ /\ loop[p] = 0
        /\ Goto(p, "write") /\ borrowed' = FALSE
        /\ UNCHANGED <<ring, into, room, from, loop>>
     \/ /\ loop[p] > 0 /\ from[p] # <<>>
        /\ write_byte(Head(from[p]))
        /\ from' = [from EXCEPT ![p] = Tail(@)]
        /\ loop' = [loop EXCEPT ![p] = @ - 1]
        /\ UNCHANGED <<cpu, pc, borrowed, into, room>>
     \/ /\ loop[p] > 0 /\ from[p] = <<>>
        /\ Return(p)
        /\ UNCHANGED <<ring, from>>
  /\ UNCHANGED <<ends, unborn, eof, panic>>

-----------------------------------------------------------------------------
(* References to the ends: sys_clone copies the descriptor table, sys_close *)
(* of a process's last descriptor and exit drop references.                *)

Fork(p, q) ==
  /\ InUser(p) /\ q \in unborn
  /\ unborn' = unborn \ {q}
  /\ ends' = [e \in {"r", "w"} |-> ends[e] \cup (IF p \in ends[e] THEN {q} ELSE {})]
  /\ UNCHANGED <<ring, borrowed, calls, eof, panic>>

Close(p, E) ==
  /\ InUser(p) /\ E # {}
  /\ ends' = [e \in {"r", "w"} |-> IF e \in E THEN ends[e] \ {p} ELSE ends[e]]
  /\ UNCHANGED <<ring, borrowed, unborn, calls, eof, panic>>

Next ==
  \E p \in Proc :
    \/ \E n \in 0 .. MaxLen : sys_read(p, n)
    \/ \E buf \in Buffer : sys_write(p, buf)
    \/ Resume(p)
    \/ ReadTop(p) \/ ReadLoop(p)
    \/ WriteTop(p) \/ WriteLoop(p)
    \/ \E q \in Proc : Fork(p, q)
    \/ \E E \in SUBSET {"r", "w"} : Close(p, E)

Spec == Init /\ [][Next]_vars

-----------------------------------------------------------------------------
(* Safety.                                                                 *)

\* The bytes in the ring, oldest first.
At(i) == IF head + i - 1 < RING_BUFFER_SIZE THEN head + i - 1
         ELSE head + i - 1 - RING_BUFFER_SIZE
Contents == [i \in 1 .. available_read |-> arr[At(i)]]

Chan == INSTANCE Channel WITH queue <- Contents, writers <- ends["w"],
                              Capacity <- RING_BUFFER_SIZE

(* The ring buffer with its suspended and resumed calls is a FIFO channel: *)
(* no byte is lost, doubled or reordered between any number of readers and *)
(* writers, and after an end of file nothing is ever written.              *)
ImplementsChannel == Chan!Spec

(* What the comments of read_byte and write_byte leave to the caller: the  *)
(* buffer is not empty, or not full, whenever they are called, although    *)
(* the loop count was taken once, before the loop.                         *)
CallerContract ==
  \A p \in Proc : loop[p] > 0 =>
    /\ pc[p] = "copy_out" => status # "Empty"
    /\ pc[p] = "copy_in" => status # "Full"

(* No call is suspended with the cell borrowed: another call would panic   *)
(* in exclusive_access().                                                  *)
NeverBorrowedTwice == ~panic /\ (cpu = None => ~borrowed)

(* A write returns only when it has written everything; a read returns     *)
(* with less than it was asked for only at the end of the file.            *)
CallsComplete ==
  [][\A p \in Proc : pc[p] # "user" /\ pc'[p] = "user" =>
       IF pc[p] = "copy_in" THEN from[p] = <<>>
       ELSE room[p] = 0 \/ (available_read = 0 /\ ends["w"] = {})]_vars

(* What the proofs add.                                                    *)
RingInv == status \in {"Empty", "Full"} <=> head = tail

CallInv ==
  /\ cpu # None => pc[cpu] # "user"
  /\ borrowed => cpu # None /\ pc[cpu] \in {"copy_out", "copy_in"}
  /\ \A p \in Proc :
       /\ pc[p] \in {"copy_out", "copy_in"} => cpu = p
       /\ pc[p] = "copy_out" => loop[p] <= available_read
       /\ pc[p] = "copy_in" => loop[p] <= available_write
       /\ pc[p] \in {"read", "copy_out"} => p \in ends["r"]
       /\ pc[p] \in {"write", "copy_in"} => p \in ends["w"]

EofInv == eof => available_read = 0 /\ ends["w"] = {}

Inv == TypeOK /\ RingInv /\ CallInv /\ EofInv /\ ~panic

-----------------------------------------------------------------------------
(* Liveness.  The kernel runs; the scheduler is round robin, so a thread   *)
(* suspended in a call is picked again and again.  A process in user mode  *)
(* need not do anything.                                                   *)

Fairness ==
  \A p \in Proc :
    /\ SF_vars(Resume(p))
    /\ WF_vars(ReadTop(p)) /\ WF_vars(ReadLoop(p))
    /\ WF_vars(WriteTop(p)) /\ WF_vars(WriteLoop(p))

FairSpec == Spec /\ Fairness

Reading(p) == pc[p] \in {"read", "copy_out"}
Writing(p) == pc[p] \in {"write", "copy_in"}

(* When the last write end is gone every reader's call returns.            *)
EofReleasesReaders ==
  \A p \in Proc : Reading(p) /\ ends["w"] = {} ~> pc[p] = "user"

(* Bytes do not stay in the buffer while calls keep asking for them.       *)
ReadersDrain ==
  \A p \in Proc : Reading(p) /\ room[p] > 0 /\ status # "Empty"
                     ~> room[p] = 0 \/ status = "Empty" \/ pc[p] = "user"

(* A read call returns when its buffer is full.                            *)
FullReadReturns == \A p \in Proc : Reading(p) /\ room[p] = 0 ~> pc[p] = "user"
=============================================================================

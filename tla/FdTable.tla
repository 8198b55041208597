------------------------------ MODULE FdTable ------------------------------
(***************************************************************************)
(* The descriptor tables of processes (task/process.rs) and the calls of   *)
(* trap/syscall/fs.rs that change them or go through them: openat,         *)
(* mkdirat, close, pipe2, dup, dup3, fcntl, read(v), write(v); fork, exec  *)
(* and exit as far as they concern the tables.                             *)
(*                                                                         *)
(* Paths and contents are left out: which file openat finds is a choice.   *)
(* Every call runs to its end before another one starts, apart from the    *)
(* waiting inside Pipe::read and Pipe::write, which module Pipe describes. *)
(***************************************************************************)
EXTENDS Integers, Sequences, FiniteSets

CONSTANTS
  Proc,        \* processes
  INITPROC,    \* the first one
  Object,      \* open files with a state: Arc<InodeFile>, Arc<Pipe>
  Found,       \* what openat may find
  MaxFds       \* bound on the length of a table, which the code does not have

ASSUME ProcAssumption == INITPROC \in Proc
ASSUME BoundAssumption == MaxFds \in Nat /\ MaxFds >= 3

None == "none"       \* a free slot
Stdin == "stdin"     \* files without a state: one stands for all of them
Stdout == "stdout"
File == Object \cup {Stdin, Stdout}
ASSUME NamesAssumption == Object \cap {None, Stdin, Stdout} = {}

VARIABLES
  fd_table,  \* per process, None or a file per descriptor (1 is descriptor 0)
  object,    \* what an open file is; Gone when it has been dropped
  cloexec,   \* per open file: OpenFlags::O_CLOEXEC in InodeFileInner.flags
  live,      \* processes that exist
  panic      \* why the kernel panicked, or "no"

vars == <<fd_table, object, cloexec, live, panic>>

Inode == [type : {"file", "dir"}, readable : BOOLEAN, writable : BOOLEAN]
Mode == {m \in Inode : m.readable \/ m.writable}     \* OpenFlags::read_write
ReadEnd == [type |-> "pipe", readable |-> TRUE, writable |-> FALSE]
WriteEnd == [type |-> "pipe", readable |-> FALSE, writable |-> TRUE]
Passwd == [type |-> "passwd", readable |-> TRUE, writable |-> FALSE]
Gone == [type |-> "gone", readable |-> FALSE, writable |-> FALSE]

ASSUME FoundAssumption == Found \subseteq Mode \cup {Passwd}

Fd == 1 .. MaxFds
Tables == UNION {[1 .. n -> File \cup {None}] : n \in 0 .. MaxFds}

TypeOK ==
  /\ fd_table \in [Proc -> Tables]
  /\ object \in [Object -> Mode \cup {Passwd, ReadEnd, WriteEnd, Gone}]
  /\ cloexec \in [Object -> BOOLEAN]
  /\ live \subseteq Proc
  /\ panic \in {"no", "not writable", "stdin length", "not utf8"}
  /\ \A p \in Proc \ live : fd_table[p] = <<>>

Init ==
  /\ fd_table = [p \in Proc |-> IF p = INITPROC THEN <<Stdin, Stdout, Stdout>> ELSE <<>>]
  /\ object = [f \in Object |-> Gone]
  /\ cloexec = [f \in Object |-> FALSE]
  /\ live = {INITPROC}
  /\ panic = "no"

-----------------------------------------------------------------------------
(* Tables and references.                                                  *)

Runs(p) == p \in live /\ panic = "no"

\* `fd_table.get(fd)` is Some(Some(_)).
Open(t, fd) == fd \in DOMAIN t /\ t[fd] # None

readable(f) == f = Stdin \/ (f \in Object /\ object[f].readable)
writable(f) == f = Stdout \/ (f \in Object /\ object[f].writable)
is_dir(f) == f \in Object /\ object[f].type = "dir"

Names(t) == {t[fd] : fd \in DOMAIN t}
Unreferenced == {f \in Object : \A p \in Proc : f \notin Names(fd_table[p])}

\* Vec::extend and resize: t with free slots up to length n.
Extended(t, n) == IF n > Len(t) THEN t \o [i \in 1 .. n - Len(t) |-> None] ELSE t

\* Mutant: the search begins one slot late.
FreeSlotsLate(t, min) == {fd \in DOMAIN t : fd > min /\ t[fd] = None}

FreeSlots(t, min) == {fd \in DOMAIN t : fd >= min /\ t[fd] = None}

\* Mutant: when there is no free slot the last one is taken.
alloc_fd_from_no_push(t, min) ==
  LET free == FreeSlots(t, min) IN
  IF free = {} THEN Len(t) ELSE CHOOSE fd \in free : \A other \in free : fd <= other

\* The descriptor alloc_fd_from(min) returns, t being long enough for min.
alloc_fd_from(t, min) ==
  LET free == FreeSlots(t, min) IN
  IF free = {} THEN Len(t) + 1 ELSE CHOOSE fd \in free : \A other \in free : fd <= other

\* t with f at the descriptor that alloc_fd_from(min) returns.
Place(t, min, f) ==
  LET u == Extended(t, min - 1)
      fd == alloc_fd_from(u, min)
  IN [Extended(u, fd) EXCEPT ![fd] = f]

\* The tables become `tables`.  A file that no table names is dropped.
SetTables(tables, objects, flags) ==
  LET held == {f \in Object : \E p \in Proc : f \in Names(tables[p])} IN
  /\ \A p \in Proc : Len(tables[p]) <= MaxFds
  /\ fd_table' = tables
  /\ object' = [f \in Object |-> IF f \in held THEN objects[f] ELSE Gone]
  /\ cloexec' = [f \in Object |-> f \in held /\ flags[f]]

SetTable(p, t) == SetTables([fd_table EXCEPT ![p] = t], object, cloexec)

-----------------------------------------------------------------------------
(* Calls that open, copy and close descriptors.  A call that fails changes *)
(* nothing and is left out.                                                *)

\* InodeFile::new begins with OpenFlags::empty(): O_CLOEXEC is not kept.
sys_openat(p, f, mode) ==
  /\ Runs(p) /\ f \in Unreferenced
  /\ SetTables([fd_table EXCEPT ![p] = Place(@, 1, f)],
               [object EXCEPT ![f] = mode], cloexec)
  /\ UNCHANGED <<live, panic>>

\* "/dev/tty"
OpenTty(p) ==
  /\ Runs(p)
  /\ SetTable(p, Place(fd_table[p], 1, Stdout))
  /\ UNCHANGED <<live, panic>>

\* The new directory stays open although the call returns 0.  It is opened
\* with O_CREAT | O_DIRECTORY, whose mode bits say O_RDONLY.
sys_mkdirat(p, f) ==
  sys_openat(p, f, [type |-> "dir", readable |-> TRUE, writable |-> FALSE])

sys_close(p, fd) ==
  /\ Runs(p) /\ Open(fd_table[p], fd)
  /\ SetTable(p, [fd_table[p] EXCEPT ![fd] = None])
  /\ UNCHANGED <<live, panic>>

sys_pipe2(p, r, w) ==
  /\ Runs(p) /\ {r, w} \subseteq Unreferenced /\ r # w
  /\ SetTables([fd_table EXCEPT ![p] = Place(Place(@, 1, r), 1, w)],
               [object EXCEPT ![r] = ReadEnd, ![w] = WriteEnd], cloexec)
  /\ UNCHANGED <<live, panic>>

sys_dup(p, fd) ==
  /\ Runs(p) /\ Open(fd_table[p], fd)
  /\ SetTable(p, Place(fd_table[p], 1, fd_table[p][fd]))
  /\ UNCHANGED <<live, panic>>

\* The table is resized before the old descriptor is looked at: also a call
\* that fails because `old` is free leaves a longer table.
sys_dup3(p, old, new) ==
  LET t == Extended(fd_table[p], new) IN
  /\ Runs(p) /\ old \in DOMAIN fd_table[p]
  /\ SetTable(p, IF t[old] = None THEN t ELSE [t EXCEPT ![new] = t[old]])
  /\ UNCHANGED <<live, panic>>

\* set_close_on_exec() does nothing for other files than inodes.
Marked(f, bit) ==
  IF f \in Object /\ object[f].type \in {"file", "dir"} THEN [cloexec EXCEPT ![f] = bit]
  ELSE cloexec

\* F_DUPFD, and F_DUPFD_CLOEXEC when `mark`.
FcntlDup(p, fd, min, mark) ==
  LET f == fd_table[p][fd] IN
  /\ Runs(p) /\ Open(fd_table[p], fd)
  /\ SetTables([fd_table EXCEPT ![p] = Place(@, min, f)], object,
               IF mark THEN Marked(f, TRUE) ELSE cloexec)
  /\ UNCHANGED <<live, panic>>

FcntlSetFd(p, fd, bit) ==
  LET f == fd_table[p][fd] IN
  /\ Runs(p) /\ Open(fd_table[p], fd)
  /\ cloexec' = Marked(f, bit)
  /\ UNCHANGED <<fd_table, object, live, panic>>

-----------------------------------------------------------------------------
(* Reading and writing: what matters here is which calls reach a file that *)
(* cannot serve them.                                                      *)

\* prepare_io() returns the file.
prepare_io(p, fd, is_read) ==
  LET f == fd_table[p][fd] IN
  /\ Open(fd_table[p], fd)
  /\ IF is_read THEN readable(f) ELSE writable(f)
  /\ ~is_dir(f)

\* Stdin::read asserts that the buffer has one byte.
ReadFile(f, n) == panic' = IF f = Stdin /\ n # 1 THEN "stdin length" ELSE panic

\* Pipe::write asserts that its end is writable, Stdin and Passwd panic.  A
\* regular file does not look.  Stdout unwraps from_utf8: `text` is whether the
\* bytes are UTF-8.
WriteFile(f, text) ==
  panic' = IF ~writable(f) /\ (f = Stdin \/ object[f].type \in {"pipe", "passwd"})
           THEN "not writable"
           ELSE IF f = Stdout /\ ~text THEN "not utf8" ELSE panic

\* read and readv, of n bytes
sys_read(p, fd, n) ==
  /\ Runs(p) /\ prepare_io(p, fd, TRUE)
  /\ ReadFile(fd_table[p][fd], n)
  /\ UNCHANGED <<fd_table, object, cloexec, live>>

sys_write(p, fd, text) ==
  /\ Runs(p) /\ prepare_io(p, fd, FALSE)
  /\ WriteFile(fd_table[p][fd], text)
  /\ UNCHANGED <<fd_table, object, cloexec, live>>

\* It asks prepare_io() for a file to read.
sys_writev(p, fd, text) ==
  /\ Runs(p) /\ prepare_io(p, fd, TRUE)
  /\ WriteFile(fd_table[p][fd], text)
  /\ UNCHANGED <<fd_table, object, cloexec, live>>

-----------------------------------------------------------------------------
(* Processes.                                                              *)

\* `parent_inner.fd_table.clone()`: the files are shared.
Forked(p) == fd_table[p]

fork(p, q) ==
  /\ Runs(p) /\ q \notin live
  /\ live' = live \cup {q}
  /\ SetTable(q, Forked(p))
  /\ UNCHANGED panic

KeptOnExec(t) == [fd \in DOMAIN t |-> IF t[fd] \in Object /\ cloexec[t[fd]] THEN None
                                      ELSE t[fd]]

exec(p) ==
  /\ Runs(p)
  /\ SetTable(p, KeptOnExec(fd_table[p]))
  /\ UNCHANGED <<live, panic>>

\* `fd_table.clear()`
exit(p) ==
  /\ Runs(p)
  /\ live' = live \ {p}
  /\ SetTable(p, <<>>)
  /\ UNCHANGED panic

Opens(p) ==
  \/ \E f \in Object, mode \in Found : sys_openat(p, f, mode)
  \/ OpenTty(p)
  \/ \E f \in Object : sys_mkdirat(p, f)

Next ==
  \E p \in Proc :
    \/ Opens(p)
    \/ \E r, w \in Object : sys_pipe2(p, r, w)
    \/ \E fd \in Fd : sys_close(p, fd) \/ sys_dup(p, fd)
    \/ \E fd \in Fd, text \in BOOLEAN : sys_write(p, fd, text) \/ sys_writev(p, fd, text)
    \/ \E old, new \in Fd : sys_dup3(p, old, new)
    \/ \E fd, min \in Fd, mark \in BOOLEAN : FcntlDup(p, fd, min, mark)
    \/ \E fd \in Fd, bit \in BOOLEAN : FcntlSetFd(p, fd, bit)
    \/ \E fd \in Fd, n \in 0 .. 2 : sys_read(p, fd, n)
    \/ \E q \in Proc : fork(p, q)
    \/ exec(p)
    \/ exit(p)

Spec == Init /\ [][Next]_vars

-----------------------------------------------------------------------------
(* Properties.                                                             *)

holders == [f \in Object |-> {p \in Proc : f \in Names(fd_table[p])}]

Held == INSTANCE Holders

(* Whatever calls dup, dup3, fcntl, close, fork, exec and exit are mixed:  *)
(* a process holds an open file (an end of a pipe, say) only because it    *)
(* opened it or was forked from a holder, one step drops files of one      *)
(* process only, and the end of a process drops all of its files.          *)
ImplementsHolders == Held!Spec

(* What openat, mkdirat and pipe2 open goes to the lowest descriptors that *)
(* were free: afterwards everything below is open, and no descriptor that  *)
(* was open has lost its file, whatever dup3 beyond the end of the table   *)
(* (also one that failed), fcntl with a minimum, close and exec have made  *)
(* of it.                                                                  *)
OpensAtLowest ==
  [][\A p \in Proc : \A f \in Unreferenced, fd \in DOMAIN fd_table'[p] :
       fd_table'[p][fd] = f =>
         /\ \A lower \in 1 .. fd - 1 : Open(fd_table'[p], lower)
         /\ \A other \in DOMAIN fd_table[p] :
              Open(fd_table[p], other) => fd_table'[p][other] = fd_table[p][other]
    ]_vars
=============================================================================

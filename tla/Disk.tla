-------------------------------- MODULE Disk --------------------------------
(***************************************************************************)
(* What the disk driver promises to the file system: a flat array of bytes *)
(* with a cursor.  `data` is what reads return, `stable` what is left when *)
(* the power goes off.  Any part of `data` may become stable on its own,   *)
(* and during a flush part after part does; when a flush is over all of it *)
(* is.                                                                     *)
(***************************************************************************)
EXTENDS Integers, Sequences

CONSTANTS
  Size,   \* number of bytes
  Value   \* values of a byte

VARIABLES
  data,     \* what a read returns
  stable,   \* what is left without power
  pos,      \* the cursor
  into,     \* the bytes a read call has returned so far
  buf,      \* the bytes a write call has yet to write
  flushing  \* whether a flush has begun and not returned

Addr == 0 .. Size - 1
disk_vars == <<data, stable, pos, into, buf, flushing>>

Init ==
  /\ data \in [Addr -> Value]
  /\ stable = data
  /\ pos = 0
  /\ into = <<>> /\ buf = <<>>
  /\ flushing = FALSE

\* Any byte may be written back, which the user does not see.
WrittenBack ==
  /\ DOMAIN stable' = Addr
  /\ \A a \in Addr : stable'[a] \in {stable[a], data[a]}

\* n more bytes of a read call.
Read(n) ==
  /\ pos + n <= Size
  /\ into' = into \o [i \in 1 .. n |-> data[pos + i - 1]]
  /\ pos' = pos + n
  /\ WrittenBack
  /\ UNCHANGED <<data, buf, flushing>>

StartWrite ==
  /\ buf = <<>> /\ buf' \in Seq(Value)
  /\ UNCHANGED <<data, stable, pos, into, flushing>>

\* The next n bytes of a write call.
Write(n) ==
  /\ pos + n <= Size /\ n <= Len(buf)
  /\ data' = [a \in Addr |-> IF a \in pos .. pos + n - 1
                             THEN buf[a - pos + 1] ELSE data[a]]
  /\ buf' = SubSeq(buf, n + 1, Len(buf))
  /\ pos' = pos + n
  /\ WrittenBack
  /\ UNCHANGED <<into, flushing>>

Done == into' = <<>> /\ UNCHANGED <<data, stable, pos, buf, flushing>>

Seek == pos' \in 0 .. Size /\ UNCHANGED <<data, stable, into, buf, flushing>>

StartFlush == ~flushing /\ flushing' = TRUE /\ UNCHANGED <<data, stable, pos, into, buf>>

\* Part of a flush.
Sync == flushing /\ WrittenBack /\ UNCHANGED <<data, pos, into, buf, flushing>>

EndFlush ==
  /\ flushing /\ stable = data
  /\ flushing' = FALSE
  /\ UNCHANGED <<data, stable, pos, into, buf>>

PowerOff ==
  /\ data' = stable
  /\ pos' = 0
  /\ into' = <<>> /\ buf' = <<>>
  /\ flushing' = FALSE
  /\ UNCHANGED stable

Next ==
  \/ \E n \in 1 .. Size : Read(n) \/ Write(n)
  \/ StartWrite \/ Done \/ Seek
  \/ StartFlush \/ Sync \/ EndFlush \/ PowerOff

Spec == Init /\ [][Next]_disk_vars
=============================================================================

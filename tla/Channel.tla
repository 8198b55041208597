------------------------------ MODULE Channel ------------------------------
(***************************************************************************)
(* What a pipe promises: a bounded FIFO of bytes between the processes     *)
(* that hold its ends.  Every byte goes to one reader, in the order of     *)
(* writing, whoever writes and reads; the end of the file is announced     *)
(* only when nothing is left and nobody can ever write again.              *)
(***************************************************************************)
EXTENDS Naturals, Sequences

CONSTANTS Proc, Byte, Capacity

VARIABLES
  queue,     \* bytes written and not yet read
  into,      \* per reader: the bytes its current read call has received
  writers,   \* processes that hold the write end
  eof        \* some reader has been told that the file has ended

chan == <<queue, into, writers, eof>>

Init ==
  /\ queue = <<>>
  /\ into = [p \in Proc |-> <<>>]
  /\ writers \subseteq Proc
  /\ eof = FALSE

\* A read call returns and hands over what it has received.
Take(p) ==
  /\ into' = [into EXCEPT ![p] = <<>>]
  /\ UNCHANGED <<queue, writers, eof>>

Send(p, b) ==
  /\ p \in writers /\ Len(queue) < Capacity /\ ~eof
  /\ queue' = Append(queue, b)
  /\ UNCHANGED <<into, writers, eof>>

Receive(p) ==
  /\ queue # <<>>
  /\ into' = [into EXCEPT ![p] = Append(@, Head(queue))]
  /\ queue' = Tail(queue)
  /\ UNCHANGED <<writers, eof>>

Inherit(p, q) ==
  /\ p \in writers
  /\ writers' = writers \cup {q}
  /\ UNCHANGED <<queue, into, eof>>

Leave(p) ==
  /\ writers' = writers \ {p}
  /\ UNCHANGED <<queue, into, eof>>

EndOfFile(p) ==
  /\ queue = <<>> /\ writers = {}
  /\ eof' = TRUE
  /\ into' = [into EXCEPT ![p] = <<>>]
  /\ UNCHANGED <<queue, writers>>

Next ==
  \/ \E p \in Proc : Receive(p) \/ Take(p) \/ EndOfFile(p) \/ Leave(p)
  \/ \E p \in Proc, b \in Byte : Send(p, b)
  \/ \E p, q \in Proc : Inherit(p, q)

Spec == Init /\ [][Next]_chan
=============================================================================

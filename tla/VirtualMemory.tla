--------------------------- MODULE VirtualMemory ---------------------------
(***************************************************************************)
(* What address spaces promise to programs: every process has a memory of  *)
(* its own.  Pages it gets read as zero, a forked process begins with a    *)
(* copy, and nothing but its own stores and calls changes what it reads.   *)
(* The promise ends for good when a program does what breaks it, which the *)
(* module that implements this one says.                                   *)
(***************************************************************************)
CONSTANTS
  Proc, Page, Value, Zero,
  Programs   \* what a memory contains when its program begins

VARIABLES
  memory,   \* per process: its mapped pages and what they contain
  trusted   \* whether the promise still holds

Empty == [v \in {} |-> Zero]

Init ==
  /\ memory \in [Proc -> Programs \cup {Empty}]
  /\ trusted = TRUE

\* The memory of p becomes m, nobody else's changes.
Becomes(p, m) == memory' = [memory EXCEPT ![p] = m]

Store(p, v, x) ==
  /\ v \in DOMAIN memory[p]
  /\ Becomes(p, [memory[p] EXCEPT ![v] = x])

\* brk and mmap add pages, brk removes them.
Grow(p) ==
  /\ DOMAIN memory'[p] \subseteq Page
  /\ Becomes(p, [v \in DOMAIN memory[p] \cup DOMAIN memory'[p] |->
                   IF v \in DOMAIN memory[p] THEN memory[p][v] ELSE Zero])

Shrink(p) ==
  Becomes(p, [v \in DOMAIN memory[p] \cap DOMAIN memory'[p] |-> memory[p][v]])

Copy(p, q) ==
  /\ memory[q] = Empty
  /\ Becomes(q, memory[p])

\* exec: a program in place of everything.
Load(p, m) == Becomes(p, m)

End(p) == Becomes(p, Empty)

Promised ==
  \E p \in Proc :
    \/ \E v \in Page, x \in Value : Store(p, v, x)
    \/ Grow(p) \/ Shrink(p)
    \/ \E q \in Proc : Copy(p, q)
    \/ \E m \in Programs : Load(p, m)
    \/ End(p)

Next ==
  \/ trusted' = FALSE
  \/ trusted /\ Promised /\ UNCHANGED trusted

Spec == Init /\ [][Next]_<<memory, trusted>>
=============================================================================

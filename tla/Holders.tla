------------------------------ MODULE Holders ------------------------------
(***************************************************************************)
(* What descriptor tables promise about the lifetime of an open file: a    *)
(* process comes to hold it by opening it or by being forked from a        *)
(* holder, and in no other way; it is gone when its last holder drops it.  *)
(* This is what the ends of a pipe rely on (see Pipe and Channel).         *)
(***************************************************************************)
CONSTANTS Proc, Object

VARIABLES
  live,      \* processes that exist
  holders    \* per open file: the processes that hold it

Init ==
  /\ live \subseteq Proc
  /\ holders = [f \in Object |-> {}]

\* Opening: all of F is new, nothing else changes hands.
Create(p, F) ==
  /\ p \in live
  /\ \A f \in F : holders[f] = {}
  /\ holders' = [f \in Object |-> IF f \in F THEN {p} ELSE holders[f]]
  /\ UNCHANGED live

\* A forked process holds what its parent holds.
Inherit(p, q) ==
  /\ p \in live /\ q \notin live
  /\ live' = live \cup {q}
  /\ holders' = [f \in Object |-> IF p \in holders[f] THEN holders[f] \cup {q}
                                  ELSE holders[f]]

Drop(p, F) ==
  /\ p \in live
  /\ holders' = [f \in Object |-> IF f \in F THEN holders[f] \ {p} ELSE holders[f]]
  /\ UNCHANGED live

\* The end of a process drops everything it holds.
End(p) ==
  /\ p \in live
  /\ live' = live \ {p}
  /\ holders' = [f \in Object |-> holders[f] \ {p}]

Next ==
  \/ \E p \in Proc, F \in SUBSET Object : Create(p, F) \/ Drop(p, F)
  \/ \E p, q \in Proc : Inherit(p, q)
  \/ \E p \in Proc : End(p)

Spec == Init /\ [][Next]_<<live, holders>>
=============================================================================

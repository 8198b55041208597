----------------------------- MODULE MCFdTable -----------------------------
(* Instances of FdTable for TLC.                                           *)
EXTENDS FdTable, TLC

RegularFile == {[type |-> "file", readable |-> TRUE, writable |-> TRUE]}
(* Processes are told apart in Init only: which of them is the first one   *)
(* makes no difference to the steps that follow.                           *)
Symmetry == Permutations(Object) \cup Permutations(Proc)

(* A table beyond the three descriptors of Init is explored only while its *)
(* process is alone; the steps that leave these states are checked.        *)
GrownAlone == Cardinality(live) = 1 \/ \A p \in live : Len(fd_table[p]) <= 3
=============================================================================

---------------------------- MODULE MCPageTable ----------------------------
(* Instance of PageTable for TLC: see MCPageTable.cfg. *)
EXTENDS PageTable

const_Images == {{0}, {0, 1}}
const_Linear == {32, 33}
=============================================================================

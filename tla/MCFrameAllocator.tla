-------------------------- MODULE MCFrameAllocator --------------------------
(* Instances of FrameAllocator for TLC: see the .cfg files. *)
EXTENDS FrameAllocator
=============================================================================

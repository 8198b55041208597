---------------------------- MODULE MCMemorySet ----------------------------
(* Instances of MemorySet for TLC.                                         *)
EXTENDS MemorySet

OneSection == {{<<1, 2>>}}
\* Nothing is claimed of what follows a second mmap.
NotRemapped == ~remapped

TwoImages == {{<<1, 2>>}, {<<1, 2>>, <<3, 4>>}}
=============================================================================

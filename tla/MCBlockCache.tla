---------------------------- MODULE MCBlockCache ----------------------------
(* Instances of BlockCache for TLC.                                        *)
EXTENDS BlockCache
=============================================================================

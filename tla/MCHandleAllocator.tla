------------------------- MODULE MCHandleAllocator -------------------------
(* Instances of HandleAllocator for TLC.                                   *)
EXTENDS HandleAllocator
=============================================================================

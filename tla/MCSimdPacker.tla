---------------------------- MODULE MCSimdPacker ----------------------------
(* Model checking of SimdPacker.  The sizes run from an invalid one past   *)
(* two 64-byte blocks, so that every combination of blocks, 16-byte tail   *)
(* and single bytes occurs.                                                *)
EXTENDS SimdPacker

MCSizes == -1 .. 130
=============================================================================

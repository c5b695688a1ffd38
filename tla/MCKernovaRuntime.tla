--------------------------- MODULE MCKernovaRuntime ---------------------------
(* Model checking of KernovaRuntime.  The cfg files give the constants     *)
(* their values; with liveness among the properties no symmetry is used.   *)
EXTENDS KernovaRuntime
=============================================================================

---------------------------- MODULE MCTraceEngine ----------------------------
(* Model checking of TraceEngine: a buffer that three events fill, a type  *)
(* that is CRITICAL, one whose low byte is, and a watchpoint at address 0. *)
EXTENDS TraceEngine

MCTypes == {TRACE_SEVERITY_CRITICAL, 256 + TRACE_SEVERITY_CRITICAL, TRACE_EVENT_INTEGRITY_FAIL}
MCAddresses == {0, 4096}
MCWatchSizes == {3, 4}
=============================================================================

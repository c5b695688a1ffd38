------------------------------- MODULE EventLog -------------------------------
(***************************************************************************)
(* What the trace engine promises its callers: a log of bounded capacity   *)
(* which keeps what was recorded, in order, until it is cleared, and       *)
(* refuses an event only when it is full.                                  *)
(***************************************************************************)
EXTENDS Naturals, Sequences

CONSTANTS
  LogCapacity,  \* a natural number
  Entries

VARIABLES
  log,     \* the recorded entries
  answer   \* what the last call did

logVars == <<log, answer>>

LogInit == log = <<>> /\ answer = "none"

Record(e) ==
  /\ Len(log) < LogCapacity
  /\ log' = Append(log, e)
  /\ answer' = "recorded"

Refuse ==
  /\ Len(log) = LogCapacity
  /\ answer' = "refused"
  /\ UNCHANGED log

Clear == log' = <<>> /\ answer' = "none"

(* A call that has nothing to do with the log.                             *)
Other == answer' = "none" /\ UNCHANGED log

LogNext == (\E e \in Entries : Record(e)) \/ Refuse \/ Clear \/ Other

LogSpec == LogInit /\ [][LogNext]_logVars
=============================================================================

------------------------------- MODULE Mailbox -------------------------------
(***************************************************************************)
(* What the enclave buffer of main.cpp is to its callers: a mailbox that   *)
(* is opened empty, in which a put lays its message, reversed, over the    *)
(* front of what is there, and from which a take copies any prefix.  Each  *)
(* is one step here.  It speaks of the bytes, not of the results: who uses *)
(* a closed box may still be told that all went well.                      *)
(***************************************************************************)
EXTENDS Integers, Sequences

CONSTANTS
  ENCLAVE_SIZE,
  DATA_BUFFER_SIZE,
  Messages

VARIABLES
  open,
  box,    \* the bytes
  taken   \* what the call that has just returned took out

mailboxVars == <<open, box, taken>>

Empty == [k \in 0 .. ENCLAVE_SIZE - 1 |-> 0]

Over(m, b) == [k \in 0 .. ENCLAVE_SIZE - 1 |-> IF k < Len(m) THEN m[Len(m) - k] ELSE b[k]]

Init ==
  /\ open = FALSE
  /\ box = Empty
  /\ taken = <<>>

Open ==
  /\ ~open
  /\ open' = TRUE
  /\ UNCHANGED <<box, taken>>

Put ==
  /\ open
  /\ \E m \in Messages :
       /\ Len(m) \in 1 .. DATA_BUFFER_SIZE
       /\ box' = Over(m, box)
  /\ UNCHANGED <<open, taken>>

Take ==
  /\ open
  /\ \E n \in 1 .. DATA_BUFFER_SIZE : taken' = [k \in 1 .. n |-> box[k - 1]]
  /\ UNCHANGED <<open, box>>

(* A shutdown, a new initialisation or the end of the process.  Nothing of *)
(* what was in the box is there when it is opened again.                   *)
Close ==
  /\ open
  /\ open' = FALSE
  /\ box' = Empty
  /\ taken' = <<>>

(* The next call begins.                                                   *)
Begin ==
  /\ taken' = <<>>
  /\ UNCHANGED <<open, box>>

Next == Open \/ Put \/ Take \/ Close \/ Begin

Spec == Init /\ [][Next]_mailboxVars
=============================================================================

-------------------------- MODULE MCKernovaServices --------------------------
(* Model checking of KernovaServices: messages from none at all to one     *)
(* byte more than the data buffer takes, in an enclave larger than it.     *)
EXTENDS KernovaServices

MCMessages == UNION {[1 .. n -> Bytes] : n \in 0 .. 4}
                \cup {[k \in 1 .. DATA_BUFFER_SIZE + 1 |-> CHOOSE b \in Bytes : TRUE]}
=============================================================================

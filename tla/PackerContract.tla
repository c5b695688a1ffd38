---------------------------- MODULE PackerContract ----------------------------
(***************************************************************************)
(* What a caller of simd_packer.asm sees: a call is made, and in one step  *)
(* it comes back with everything done, or it never does.  The registers    *)
(* and the loops are gone; SimdPacker is shown to implement this, and      *)
(* KernovaServices uses the packer by it.  It is the contract the code     *)
(* keeps, not the one its headers state: see Outcomes in PackerCalls.      *)
(***************************************************************************)
EXTENDS PackerCalls

VARIABLES
  avx512,
  call,
  state,   \* of the call: "none", "made", "back" or "lost"
  result,  \* of a call that is back, 0 otherwise
  moved    \* the destination of a call that is back, blank otherwise

contractVars == <<avx512, call, state, result, moved>>

Init ==
  /\ avx512 \in Avx512
  /\ call = NoCall
  /\ state = "none"
  /\ result = 0
  /\ moved = Blank

Make ==
  /\ state = "none"
  /\ call' \in Calls
  /\ state' = "made"
  /\ UNCHANGED <<avx512, result, moved>>

(* The AVX-512 loop of pack is taken where the caller asks for it and the  *)
(* CPU has it.                                                             *)
Wide == call.fn = "pack" /\ call.flag /\ avx512

(* In one step the call has ended, in one of the ways PackerCalls lists.   *)
End ==
  /\ state = "made"
  /\ \E o \in Outcomes(call, Wide, 64) :
       /\ state' = IF o.back THEN "back" ELSE "lost"
       /\ result' = o.result
       /\ moved' = o.moved
  /\ UNCHANGED <<avx512, call>>

Collect ==
  /\ state = "back"
  /\ call' = NoCall
  /\ state' = "none"
  /\ result' = 0
  /\ moved' = Blank
  /\ UNCHANGED avx512

Next == Make \/ End \/ Collect

Spec == Init /\ [][Next]_contractVars
=============================================================================

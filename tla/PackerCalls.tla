----------------------------- MODULE PackerCalls -----------------------------
(***************************************************************************)
(* The calls of the copying routines of src/marshall/simd_packer.asm, what *)
(* each tests on entry, and how their memory is described: by where each   *)
(* byte of the destination came from.                                      *)
(***************************************************************************)
EXTENDS Integers, Sequences

CONSTANTS
  Sizes,     \* the size arguments, as signed 64-bit numbers
  Capacity,  \* bytes of the destination buffer
  Avx512     \* CPUID.7.EBX[16]: the values considered

ASSUME SizeAssumption ==
  /\ Capacity \in Nat
  /\ Sizes \subseteq Int
  /\ \A n \in Sizes : n <= Capacity
ASSUME CpuidAssumption == Avx512 \subseteq BOOLEAN

(* A byte is the index of the source byte it is a copy of, or one of these.*)
Untouched == -1
Zeroed == -2

(* mov eax, -1 clears the upper half of rax, and the C++ callers declare   *)
(* the result as int64_t.  It is 2^32 - 1, which TLC cannot hold: a number *)
(* above every capacity stands for it.                                     *)
MinusOneInEax == Capacity + 1

Functions == {"pack", "unpack", "memcpy", "zero"}
Offsets == 0 .. Capacity - 1

(* fn: the routine.  dest, src: whether the pointers are not NULL.         *)
NoCall == [fn |-> "pack", dest |-> FALSE, src |-> FALSE, size |-> 0, flag |-> FALSE]

(* memcpy and zero do not look at the sign of the size, and memcpy not at  *)
(* its pointers: they are called with those that exist.  Only pack and     *)
(* unpack have a flag, and zero has no source.                             *)
Legal(c) == /\ c.fn \in {"memcpy", "zero"} => c.size >= 0 /\ c.src /\ ~c.flag
            /\ c.fn = "memcpy" => c.dest

Calls ==
  {c \in [fn : Functions, dest : BOOLEAN, src : BOOLEAN, size : Sizes, flag : BOOLEAN] : Legal(c)}

(* The tests on entry.                                                     *)
Nulls(c) == ~c.dest \/ ~c.src
Runs(c) == /\ c.fn \in {"pack", "unpack"} => ~Nulls(c) /\ c.size > 0
           /\ c.fn = "zero" => c.dest /\ c.size > 0

(* The invalid_param of simd_unpack_data runs on into zero_size.  Where    *)
(* simd_zero_memory has nothing to do rax was never written.               *)
Rejection(c) ==
  CASE c.fn = "pack" /\ (Nulls(c) \/ c.size < 0) -> {MinusOneInEax}
    [] c.fn = "zero" -> {0, MinusOneInEax}
    [] OTHER -> {0}

(* What c makes of byte i of the destination, and of its first n bytes.    *)
Moved(c, i) == IF c.fn = "zero" THEN Zeroed ELSE i
Prefix(c, n) == [i \in Offsets |-> IF i < n THEN Moved(c, i) ELSE Untouched]
Blank == [i \in Offsets |-> Untouched]

(* How a call may end.  A rejection moves nothing.  A call that runs moves *)
(* its size and returns it; the AVX-512 loop, whose blocks are of this     *)
(* many bytes, moves as much but returns what is left of whole blocks, a   *)
(* zero, and never comes back from anything else.  Against the headers     *)
(* ("bytes transferred, -1 on error") are that zero, the loss, the 0 of a  *)
(* refused unpack and a -1 that its callers read as 4294967295.            *)
Lost == [back |-> FALSE, result |-> 0, moved |-> Blank]

Outcomes(c, wide, block) ==
  CASE ~Runs(c) -> {[back |-> TRUE, result |-> r, moved |-> Blank] : r \in Rejection(c)}
    [] Runs(c) /\ ~wide -> {[back |-> TRUE, result |-> c.size, moved |-> Prefix(c, c.size)]}
    [] Runs(c) /\ wide /\ c.size % block = 0 ->
         {[back |-> TRUE, result |-> 0, moved |-> Prefix(c, c.size)]}
    [] OTHER -> {Lost}
=============================================================================

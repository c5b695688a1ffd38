------------------------------ MODULE SimdPacker ------------------------------
(***************************************************************************)
(* The copying routines of src/marshall/simd_packer.asm: simd_pack_data    *)
(* with its AVX2 and AVX-512 loops, simd_unpack_data, simd_secure_memcpy   *)
(* and simd_zero_memory.  One step is one pass of a loop, one block move   *)
(* or one way out; the registers are those the loops run on, and of the    *)
(* stack the model keeps what call, push rbp, pop rbp and ret do to it.    *)
(* Memory is described by where each byte of the destination came from.    *)
(***************************************************************************)
EXTENDS PackerCalls

VARIABLES
  avx512,  \* what check_avx512_support finds
  call,    \* [fn, dest, src, size, flag]: the call; dest, src: not NULL
  pc,
  base,    \* how far r12 and r13 were advanced
  r14,     \* the remaining size
  rbx,     \* the byte counter
  rax,
  stack,   \* return addresses and saved frame pointers, top first
  dest

vars == <<avx512, call, pc, base, r14, rbx, rax, stack, dest>>
fixed == <<avx512, call>>

Labels == {"idle", "enter", "pack512", "pack256", "tail", "bytes", "complete",
           "loop32", "rest", "returned", "crashed"}

Init ==
  /\ avx512 \in Avx512
  /\ call = NoCall
  /\ pc = "idle"
  /\ base = 0 /\ r14 = 0 /\ rbx = 0 /\ rax = 0
  /\ stack = <<>>
  /\ dest = Blank

-----------------------------------------------------------------------------
Call ==
  /\ pc = "idle"
  /\ call' \in Calls
  /\ pc' = "enter"
  /\ r14' = call'.size
  /\ UNCHANGED <<avx512, base, rbx, rax, stack, dest>>

(* The caller has used the result; the next call sets every register, and  *)
(* works on another buffer.                                                *)
Collect ==
  /\ pc = "returned"
  /\ pc' = "idle"
  /\ base' = 0 /\ r14' = 0 /\ rbx' = 0 /\ rax' = 0
  /\ stack' = <<>>
  /\ dest' = Blank
  /\ call' = NoCall
  /\ UNCHANGED avx512

Return(value) ==
  /\ pc' = "returned"
  /\ rax' = value
  /\ UNCHANGED <<fixed, base, r14, rbx, stack, dest>>

Jump(l) ==
  /\ pc' = l
  /\ UNCHANGED <<fixed, base, r14, rbx, rax, stack, dest>>

Remaining == r14 - rbx

(* n bytes at the byte counter.                                            *)
Move(n) ==
  dest' = [i \in Offsets |-> IF i \in base + rbx .. base + rbx + n - 1
                             THEN Moved(call, i) ELSE dest[i]]

-----------------------------------------------------------------------------
(* The ways in.                                                            *)
Reject ==
  /\ pc = "enter"
  /\ ~Runs(call)
  /\ \E value \in Rejection(call) : Return(value)

Enter ==
  /\ pc = "enter"
  /\ call.fn # "pack"
  /\ Runs(call)
  /\ Jump("loop32")

(* simd_pack_data calls one of its loops, which saves rbp.                 *)
(* Mutant: the flag alone chooses AVX-512.                                 *)
EnterPackUnchecked ==
  /\ pc = "enter"
  /\ call.fn = "pack"
  /\ Runs(call)
  /\ pc' = IF call.flag THEN "pack512" ELSE "pack256"
  /\ stack' = <<"rbp", "ret">>
  /\ UNCHANGED <<fixed, base, r14, rbx, rax, dest>>

EnterPack ==
  /\ pc = "enter"
  /\ call.fn = "pack"
  /\ Runs(call)
  /\ pc' = IF call.flag /\ avx512 THEN "pack512" ELSE "pack256"
  /\ stack' = <<"rbp", "ret">>
  /\ UNCHANGED <<fixed, base, r14, rbx, rax, dest>>

-----------------------------------------------------------------------------
(* simd_pack_512bit                                                        *)
Block512 ==
  /\ pc = "pack512"
  /\ Remaining >= 64
  /\ Move(64)
  /\ rbx' = rbx + 64
  /\ UNCHANGED <<fixed, pc, base, r14, rax, stack>>

(* The fall back is a jump to simd_pack_256bit, which pushes rbp again.    *)
(* Mutant: the pointers are not advanced.                                  *)
FallBackInPlace ==
  /\ pc = "pack512"
  /\ Remaining < 64
  /\ r14' = r14 - rbx
  /\ IF r14' = 0
     THEN pc' = "complete" /\ UNCHANGED <<rbx, stack>>
     ELSE pc' = "pack256" /\ rbx' = 0 /\ stack' = <<"rbp">> \o stack
  /\ UNCHANGED <<fixed, base, rax, dest>>

FallBack ==
  /\ pc = "pack512"
  /\ Remaining < 64
  /\ base' = base + rbx
  /\ r14' = r14 - rbx
  /\ IF r14' = 0
     THEN pc' = "complete" /\ UNCHANGED <<rbx, stack>>
     ELSE pc' = "pack256" /\ rbx' = 0 /\ stack' = <<"rbp">> \o stack
  /\ UNCHANGED <<fixed, rax, dest>>

(* simd_pack_256bit                                                        *)
(* Mutant: the loop also takes a last block that is not whole.             *)
Block256Long ==
  /\ pc = "pack256"
  /\ Remaining >= 31
  /\ Move(32)
  /\ rbx' = rbx + 32
  /\ UNCHANGED <<fixed, pc, base, r14, rax, stack>>

Block256 ==
  /\ pc = "pack256"
  /\ Remaining >= 32
  /\ Move(32)
  /\ rbx' = rbx + 32
  /\ UNCHANGED <<fixed, pc, base, r14, rax, stack>>

EndOfBlocks256 ==
  /\ pc = "pack256"
  /\ Remaining < 32
  /\ Jump(IF Remaining = 0 THEN "complete" ELSE IF Remaining >= 16 THEN "tail" ELSE "bytes")

(* Mutant: the 16 bytes are not counted.                                   *)
TailUncounted ==
  /\ pc = "tail"
  /\ Move(16)
  /\ pc' = "complete"
  /\ UNCHANGED <<fixed, base, r14, rbx, rax, stack>>

Tail16 ==
  /\ pc = "tail"
  /\ Move(16)
  /\ rbx' = rbx + 16
  /\ pc' = IF r14 - rbx' = 0 THEN "complete" ELSE "bytes"
  /\ UNCHANGED <<fixed, base, r14, rax, stack>>

CopyBytes ==
  /\ pc = "bytes"
  /\ Move(Remaining)
  /\ pc' = "complete"
  /\ UNCHANGED <<fixed, base, r14, rbx, rax, stack>>

(* mov rax, r14; pop rbp; ret.  What is popped as the return address is    *)
(* executed.                                                               *)
(* Mutant: the byte counter is returned.                                   *)
CompleteReturnsCounter ==
  /\ pc = "complete"
  /\ rax' = rbx
  /\ pc' = IF stack[2] = "ret" THEN "returned" ELSE "crashed"
  /\ stack' = Tail(Tail(stack))
  /\ UNCHANGED <<fixed, base, r14, rbx, dest>>

Complete ==
  /\ pc = "complete"
  /\ rax' = r14
  /\ pc' = IF stack[2] = "ret" THEN "returned" ELSE "crashed"
  /\ stack' = Tail(Tail(stack))
  /\ UNCHANGED <<fixed, base, r14, rbx, dest>>

-----------------------------------------------------------------------------
(* simd_unpack_data, simd_secure_memcpy and simd_zero_memory: 32 bytes at  *)
(* a time, then the rest.                                                  *)
(* Mutant: the byte counter is not advanced.                               *)
Block32Stuck ==
  /\ pc = "loop32"
  /\ Remaining >= 32
  /\ Move(32)
  /\ UNCHANGED <<fixed, pc, base, r14, rbx, rax, stack>>

Block32 ==
  /\ pc = "loop32"
  /\ Remaining >= 32
  /\ Move(32)
  /\ rbx' = rbx + 32
  /\ UNCHANGED <<fixed, pc, base, r14, rax, stack>>

EndOfBlocks32 ==
  /\ pc = "loop32"
  /\ Remaining < 32
  /\ Jump("rest")

Rest ==
  /\ pc = "rest"
  /\ Move(Remaining)
  /\ rax' = r14
  /\ pc' = "returned"
  /\ UNCHANGED <<fixed, base, r14, rbx, stack>>

Step == \/ Reject \/ Enter \/ EnterPack
        \/ Block512 \/ FallBack
        \/ Block256 \/ EndOfBlocks256 \/ Tail16 \/ CopyBytes \/ Complete
        \/ Block32 \/ EndOfBlocks32 \/ Rest

Next == Call \/ Collect \/ Step

Spec == Init /\ [][Next]_vars
FairSpec == Spec /\ WF_vars(Step)

-----------------------------------------------------------------------------
(* Properties                                                              *)

(* Every variable has its type.                                            *)
TypeOK ==
  /\ avx512 \in BOOLEAN
  /\ call \in [fn : Functions, dest : BOOLEAN, src : BOOLEAN,
               size : Sizes \cup {0}, flag : BOOLEAN]
  /\ pc \in Labels
  /\ base \in Nat /\ rbx \in Nat
  /\ r14 \in Int /\ rax \in Int
  /\ stack \in Seq({"rbp", "ret"})
  /\ dest \in [Offsets -> Offsets \cup {Untouched, Zeroed}]

(* The first n bytes have been moved and no other.                         *)
MovedTo(n) == dest = Prefix(call, n)

(* A routine that returns has moved each byte to its place, whatever mix   *)
(* of 64-, 32-, 16- and 1-byte moves the size asked for, and nothing if it *)
(* rejected its arguments.                                                 *)
TransferExact == pc = "returned" => MovedTo(IF Runs(call) THEN call.size ELSE 0)

(* At no time, a last block or a crash included, has a byte beyond the     *)
(* size been written.                                                      *)
NoOverrun == \A i \in Offsets : dest[i] # Untouched => i < call.size

(* ret takes the return address and not a saved rbp.                       *)
ReturnsToCaller == pc # "crashed"

(* Every call comes to an end.                                             *)
CallEnds == pc = "enter" ~> pc \in {"returned", "crashed"}

-----------------------------------------------------------------------------
(* The inductive invariant: what each loop has done when it is entered     *)
(* again.  The sum base + rbx counts the bytes moved, base + r14 is always *)
(* the size that was asked for.                                            *)
PackLabels == {"pack512", "pack256", "tail", "bytes"}
Working == PackLabels \cup {"loop32", "rest"}

Progress ==
  /\ pc \in Working =>
       /\ Runs(call)
       /\ base + r14 = call.size
       /\ rbx <= r14
       /\ MovedTo(base + rbx)
  /\ pc \in {"complete", "crashed"} => Runs(call) /\ MovedTo(call.size)
  /\ pc \in {"idle", "enter"} => MovedTo(0)

Frames == {<<"rbp", "ret">>, <<"rbp">> \o <<"rbp", "ret">>}

Registers ==
  /\ pc \in PackLabels \cup {"complete"} => call.fn = "pack" /\ stack \in Frames
  /\ pc \in {"loop32", "rest"} => call.fn # "pack"
  /\ pc = "pack512" => stack = <<"rbp", "ret">>
  /\ pc = "enter" => base = 0 /\ rbx = 0 /\ r14 = call.size /\ Legal(call)
  /\ pc = "idle" => base = 0 /\ rbx = 0
  /\ pc = "pack512" => base = 0
  /\ pc \in {"loop32", "rest"} => base = 0
  /\ pc = "rest" => Remaining < 32
  /\ pc = "tail" => 16 <= Remaining
  /\ pc = "complete" => base + r14 = call.size

TransferInv == TypeOK /\ Progress /\ Registers /\ TransferExact

(* The AVX-512 loop has moved whole blocks, and what it has left decides   *)
(* between its own return and a jump that leaves a second frame.  Every    *)
(* other routine never moves its base and pops the one frame it has pushed.*)
(* This says what the code returns, which for the AVX-512 loop is not what *)
(* its header promises: see ReturnsBytes and ReturnsToCaller.              *)
Wide == call.fn = "pack" /\ call.flag /\ avx512

ReturnInv ==
  /\ pc = "pack512" => Wide /\ rbx % 64 = 0
  /\ pc \in {"pack256", "tail", "bytes", "complete"} =>
       IF Wide
       THEN /\ base % 64 = 0
            /\ r14 \in 0 .. 63
            /\ stack = IF r14 = 0 THEN <<"rbp", "ret">> ELSE <<"rbp">> \o <<"rbp", "ret">>
       ELSE base = 0 /\ stack = <<"rbp", "ret">>
  /\ pc = "crashed" => Wide /\ call.size % 64 # 0
  /\ pc = "returned" /\ Runs(call) => IF Wide THEN rax = 0 /\ call.size % 64 = 0
                                              ELSE rax = call.size

(* "Returns: EAX = bytes transferred": the result of a call that runs is   *)
(* the size it was asked to move, as the header of each routine and        *)
(* tests/test_simd.cpp require, with AVX-512 or without.                   *)
ReturnsBytes == pc = "returned" /\ Runs(call) => rax = call.size

(* A call that does not take the AVX-512 loop keeps that promise and comes *)
(* back, on every CPU: the flag alone must not lead into the loop.         *)
Avx2KeepsPromise == ~Wide => ReturnsBytes /\ ReturnsToCaller

-----------------------------------------------------------------------------
(* The contract.  Its one step of a call is the step that returns, so the  *)
(* destination counts only then.  It lists what the routines do, in the    *)
(* three cases where that is not what their headers say as well.           *)
Outcome == CASE pc = "idle" -> "none"
             [] pc = "returned" -> "back"
             [] pc = "crashed" -> "lost"
             [] OTHER -> "made"

Contract == INSTANCE PackerContract WITH
  state <- Outcome,
  result <- IF pc = "returned" THEN rax ELSE 0,
  moved <- IF pc = "returned" THEN dest ELSE Blank

(* Whatever blocks and tails a call takes, its caller sees one of the few  *)
(* outcomes PackerContract names: everything moved and the size returned,  *)
(* nothing moved and a rejection, or with AVX-512 a loss or a zero.  This  *)
(* is what KernovaServices may rely on, and no claim that it is right.     *)
ImplementsContract == Contract!Spec
=============================================================================

-------------------------- MODULE SimdPacker_proofs --------------------------
(* Proofs about SimdPacker: what the loops move, for every size.           *)
EXTENDS SimdPacker, TLAPS

(* Moving n bytes at the end of a moved prefix makes it n bytes longer.    *)
LEMMA MoveExtends ==
  ASSUME NEW k \in Nat, NEW n \in Nat,
         base + rbx = k, MovedTo(k), Move(n), call' = call
  PROVE  MovedTo(k + n)'
  BY SizeAssumption DEF MovedTo, Prefix, Move, Moved, Offsets

(* What is moved does not depend on the registers.                         *)
LEMMA MovedKept ==
  ASSUME NEW k \in Nat, MovedTo(k), UNCHANGED <<call, dest>>
  PROVE  MovedTo(k)'
  BY DEF MovedTo, Prefix, Moved, Offsets

LEMMA SizeIsInt ==
  ASSUME TypeOK
  PROVE  call.size \in Int
  <1>1. call.size \in Sizes \cup {0}
    BY DEF TypeOK
  <1>2. \A n \in Sizes : n \in Int
    BY SizeAssumption
  <1>3. CASE call.size \in Sizes
    BY <1>2, <1>3
  <1>4. CASE call.size = 0
    BY <1>4
  <1> QED
    BY <1>1, <1>3, <1>4

LEMMA InitTransferInv == Init => TransferInv
  <1> SUFFICES ASSUME Init PROVE TransferInv
    OBVIOUS
  <1>1. TypeOK
    BY SizeAssumption, CpuidAssumption
    DEF Init, TypeOK, Blank, NoCall, Functions, Labels, Untouched, Zeroed
  <1>2. Progress
    BY SizeAssumption DEF Init, Blank, Progress, MovedTo, Prefix, Offsets, Working, PackLabels
  <1>3. Registers /\ TransferExact
    BY DEF Init, Registers, TransferExact, NoCall, PackLabels
  <1> QED
    BY <1>1, <1>2, <1>3 DEF TransferInv

(* The type invariant, step by step.                                       *)
LEMMA TypeStep == TransferInv /\ [Next]_vars => TypeOK'
  <1> SUFFICES ASSUME TransferInv, [Next]_vars PROVE TypeOK'
    OBVIOUS
  <1>1. TypeOK
    BY DEF TransferInv
  <1>2. ASSUME NEW n \in Nat, Move(n), call' = call
        PROVE  dest' \in [Offsets -> Offsets \cup {Untouched, Zeroed}]
    BY <1>1, <1>2 DEF TypeOK, Move, Moved
  <1> USE SizeAssumption, <1>1 DEF TypeOK, Labels, fixed
  <1>3. CASE Call
    BY <1>3 DEF Call, Calls
  <1>4. CASE Collect
    BY <1>4 DEF Collect, Blank, NoCall, Functions, Untouched, Zeroed
  <1>5. CASE Reject
    <2>1. Rejection(call) \subseteq Int
      BY DEF Rejection, MinusOneInEax
    <2> QED
      BY <1>5, <2>1 DEF Reject, Return
  <1>6. CASE Enter
    BY <1>6 DEF Enter, Jump
  <1>7. CASE EnterPack
    BY <1>7 DEF EnterPack
  <1>8. CASE Block512
    BY <1>2, <1>8 DEF Block512
  <1>9. CASE FallBack
    <2>1. stack = <<"rbp", "ret">>
      BY <1>9 DEF FallBack, TransferInv, Registers
    <2>2. <<"rbp">> \o <<"rbp", "ret">> \in Seq({"rbp", "ret"})
      OBVIOUS
    <2>3. stack' \in Seq({"rbp", "ret"})
      BY <1>9, <2>1, <2>2 DEF FallBack
    <2> QED
      BY <1>9, <2>3 DEF FallBack
  <1>10. CASE Block256
    BY <1>2, <1>10 DEF Block256
  <1>11. CASE EndOfBlocks256
    BY <1>11 DEF EndOfBlocks256, Jump
  <1>12. CASE Tail16
    BY <1>2, <1>12 DEF Tail16
  <1>13. CASE CopyBytes
    <2>1. Remaining \in Nat
      BY <1>13 DEF TransferInv, Progress, CopyBytes, Working, PackLabels, Remaining
    <2> QED
      BY <2>1, <1>2, <1>13 DEF CopyBytes
  <1>14. CASE Complete
    <2>1. stack \in Frames
      BY <1>14 DEF Complete, TransferInv, Registers
    <2>2. stack' = Tail(Tail(stack))
      BY <1>14 DEF Complete
    <2>3. Tail(Tail(<<"rbp", "ret">>)) \in Seq({"rbp", "ret"})
      OBVIOUS
    <2>4. Tail(Tail(<<"rbp">> \o <<"rbp", "ret">>)) \in Seq({"rbp", "ret"})
      <3>1. /\ <<"rbp">> \o <<"rbp", "ret">> \in Seq({"rbp", "ret"})
            /\ Len(<<"rbp">> \o <<"rbp", "ret">>) = 3
        OBVIOUS
      <3>2. \A s \in Seq({"rbp", "ret"}) : s # <<>> => /\ Tail(s) \in Seq({"rbp", "ret"})
                                                    /\ Len(Tail(s)) = Len(s) - 1
        OBVIOUS
      <3> QED
        BY <3>1, <3>2
    <2>5. stack' \in Seq({"rbp", "ret"})
      BY <2>1, <2>2, <2>3, <2>4 DEF Frames
    <2> QED
      BY <1>14, <2>5 DEF Complete
  <1>15. CASE Block32
    BY <1>2, <1>15 DEF Block32
  <1>16. CASE EndOfBlocks32
    BY <1>16 DEF EndOfBlocks32, Jump
  <1>17. CASE Rest
    <2>1. Remaining \in Nat
      BY <1>17 DEF TransferInv, Progress, Rest, Working, PackLabels, Remaining
    <2> QED
      BY <2>1, <1>2, <1>17 DEF Rest
  <1>18. CASE UNCHANGED vars
    BY <1>18 DEF vars
  <1> QED
    BY <1>3, <1>4, <1>5, <1>6, <1>7, <1>8, <1>9, <1>10, <1>11, <1>12, <1>13,
       <1>14, <1>15, <1>16, <1>17, <1>18 DEF Next, Step

(* The account is kept by a pass of a loop that moves n of the remaining   *)
(* bytes and counts them.                                                  *)
LEMMA CountedMove ==
  ASSUME TransferInv, TypeOK', pc \in Working, NEW n \in Nat, n <= Remaining,
         Move(n), rbx' = rbx + n, UNCHANGED <<fixed, base, r14>>
  PROVE  /\ Runs(call)'
         /\ (base + r14 = call.size)'
         /\ (rbx <= r14)'
         /\ MovedTo(base + rbx)'
  <1>1. /\ TypeOK /\ Runs(call) /\ base + r14 = call.size
        /\ rbx <= r14 /\ MovedTo(base + rbx)
    BY DEF TransferInv, Progress
  <1>2. \E k \in Nat : k = base + rbx
    BY <1>1 DEF TypeOK
  <1>3. PICK k \in Nat : k = base + rbx
    BY <1>2
  <1>4. MovedTo(k + n)'
    BY <1>1, <1>3, MoveExtends DEF fixed
  <1>5. base' + rbx' = k + n
    BY <1>1, <1>3 DEF TypeOK
  <1>6. MovedTo(base + rbx)'
    BY <1>3, <1>4, <1>5 DEF MovedTo, Prefix
  <1> QED
    BY <1>1, <1>6 DEF TypeOK, Remaining, fixed, Runs, Nulls

(* The last move takes all that remains, counted or not.                   *)
LEMMA LastMove ==
  ASSUME TransferInv, pc \in Working, Move(Remaining), UNCHANGED call
  PROVE  Runs(call)' /\ MovedTo(call.size)'
  <1>1. /\ TypeOK /\ Runs(call) /\ base + r14 = call.size
        /\ rbx <= r14 /\ MovedTo(base + rbx)
    BY DEF TransferInv, Progress
  <1>2. /\ Remaining \in Nat /\ base + rbx \in Nat
        /\ (base + rbx) + Remaining = call.size
    BY <1>1, SizeAssumption DEF TypeOK, Remaining
  <1>3. PICK k \in Nat, n \in Nat : k = base + rbx /\ n = Remaining
    BY <1>2
  <1>4. MovedTo(k) /\ Move(n)
    BY <1>1, <1>3 DEF Move
  <1>5. MovedTo(k + n)'
    BY <1>3, <1>4, MoveExtends
  <1>6. k + n = call'.size
    BY <1>2, <1>3
  <1>7. MovedTo(call.size)'
    BY <1>5, <1>6 DEF MovedTo, Prefix
  <1> QED
    BY <1>1, <1>7 DEF Runs, Nulls

(* The account, step by step.                                              *)
LEMMA ProgressStep == TransferInv /\ [Next]_vars => Progress'
  <1> SUFFICES ASSUME TransferInv, [Next]_vars PROVE Progress'
    OBVIOUS
  <1>1. TypeOK /\ TypeOK' /\ Progress /\ Registers
    BY TypeStep DEF TransferInv
  <1>2. ASSUME UNCHANGED <<call, dest>>, NEW k \in Int, MovedTo(k)
        PROVE  MovedTo(k)'
    BY <1>2 DEF MovedTo, Prefix, Moved, Offsets
  <1>3. ASSUME UNCHANGED call, Runs(call) PROVE Runs(call)'
    BY <1>3 DEF Runs, Nulls
  <1>4. base + rbx \in Int /\ call.size \in Int
    <2>1. base + rbx \in Int
      BY <1>1 DEF TypeOK
    <2> QED
      BY <1>1, <2>1, SizeIsInt
  <1>5. CASE Call
    <2>1. pc' = "enter" /\ MovedTo(0)
      BY <1>1, <1>5 DEF Call, Progress
    <2>2. MovedTo(0)'
      BY <1>5, <2>1, SizeAssumption DEF MovedTo, Prefix, Call, Offsets
    <2> QED
      BY <2>1, <2>2 DEF Progress, Working, PackLabels
  <1>6. CASE Collect
    <2>1. MovedTo(0)'
      BY <1>6, SizeAssumption DEF MovedTo, Prefix, Blank, Collect, Offsets
    <2> QED
      BY <1>6, <2>1 DEF Progress, Working, PackLabels, Collect
  <1>7. CASE Reject
    BY <1>7 DEF Reject, Return, Progress, Working, PackLabels
  <1>8. CASE Enter \/ EnterPack
    <2>1. /\ MovedTo(0) /\ base = 0 /\ rbx = 0 /\ r14 = call.size
          /\ Legal(call) /\ Runs(call)
      BY <1>1, <1>8 DEF Enter, EnterPack, Progress, Registers
    <2>2. /\ UNCHANGED <<call, dest, base, rbx, r14>>
          /\ pc' \in {"loop32", "pack512", "pack256"}
      BY <1>8 DEF Enter, EnterPack, Jump, fixed
    <2>3. MovedTo(0)' /\ Runs(call)'
      BY <1>2, <1>3, <2>1, <2>2
    <2>4. call.size >= 0
      BY <1>1, <2>1 DEF Legal, Runs, TypeOK, Functions
    <2>5. MovedTo(base + rbx)'
      BY <2>1, <2>2, <2>3 DEF MovedTo, Prefix
    <2> QED
      BY <1>4, <2>1, <2>2, <2>3, <2>4, <2>5 DEF Progress
  <1>9. CASE Block512 \/ Block256 \/ Block32
    <2>1. PICK n \in {32, 64} :
            /\ n <= Remaining /\ Move(n) /\ rbx' = rbx + n
            /\ UNCHANGED <<fixed, base, r14, pc>>
      BY <1>1, <1>9 DEF Block512, Block256, Block32, TypeOK, Remaining
    <2>2. pc \in Working
      BY <1>9 DEF Block512, Block256, Block32, Working, PackLabels
    <2>3. /\ Runs(call)' /\ (base + r14 = call.size)'
          /\ (rbx <= r14)' /\ MovedTo(base + rbx)'
      BY <1>1, <2>1, <2>2, CountedMove
    <2> QED
      BY <2>1, <2>2, <2>3 DEF Progress, Working, PackLabels
  <1>10. CASE FallBack
    <2>1. /\ Runs(call) /\ base + r14 = call.size
          /\ rbx <= r14 /\ MovedTo(base + rbx)
      BY <1>1, <1>10 DEF FallBack, Progress, Working, PackLabels
    <2>2. MovedTo(base + rbx)' \/ r14' = 0
      <3>1. CASE r14' # 0
        <4>1. base' + rbx' = base + rbx
          BY <1>1, <1>10, <3>1 DEF FallBack, TypeOK
        <4> QED
          BY <1>10, <2>1, <4>1, <1>2, <1>4 DEF MovedTo, Prefix, FallBack, fixed, Moved, Offsets
      <3> QED
        BY <3>1
    <2>3. Runs(call)' /\ base' + r14' = call'.size
      BY <1>1, <1>3, <1>4, <1>10, <2>1 DEF FallBack, fixed, TypeOK
    <2>4. CASE r14' = 0
      <3>1. base + rbx = call.size
        BY <1>1, <1>4, <1>10, <2>1, <2>4 DEF FallBack, TypeOK
      <3>2. MovedTo(call.size)'
        BY <1>10, <2>1, <3>1 DEF MovedTo, Prefix, FallBack, fixed, Moved, Offsets
      <3> QED
        BY <1>10, <2>3, <2>4, <3>2 DEF FallBack, Progress, Working, PackLabels
    <2>5. CASE r14' # 0
      BY <1>1, <1>10, <2>1, <2>2, <2>3, <2>5
      DEF FallBack, Progress, Working, PackLabels, TypeOK
    <2> QED
      BY <2>4, <2>5
  <1>11. CASE EndOfBlocks256 \/ EndOfBlocks32
    <2>1. /\ Runs(call) /\ base + r14 = call.size
          /\ rbx <= r14 /\ MovedTo(base + rbx)
      BY <1>1, <1>11 DEF EndOfBlocks256, EndOfBlocks32, Progress, Working, PackLabels
    <2>2. /\ UNCHANGED <<call, dest, base, rbx, r14>>
          /\ pc' \in {"complete", "tail", "bytes", "rest"}
          /\ pc' = "complete" => Remaining = 0
      BY <1>11 DEF EndOfBlocks256, EndOfBlocks32, Jump, fixed
    <2>3. MovedTo(base + rbx)' /\ Runs(call)'
      BY <2>1, <2>2, <1>3 DEF MovedTo, Prefix, Moved, Offsets
    <2>4. Remaining = 0 => base + rbx = call.size
      BY <1>1, <1>4, <2>1 DEF Remaining, TypeOK
    <2>5. pc' = "complete" => MovedTo(call.size)'
      BY <2>2, <2>3, <2>4 DEF MovedTo, Prefix
    <2> QED
      BY <2>1, <2>2, <2>3, <2>5 DEF Progress, Working, PackLabels
  <1>12. CASE Tail16
    <2>1. pc \in Working /\ 16 <= Remaining
      BY <1>1, <1>12 DEF Tail16, Registers, Working, PackLabels
    <2>2. /\ Runs(call)' /\ (base + r14 = call.size)'
          /\ (rbx <= r14)' /\ MovedTo(base + rbx)'
      BY <1>1, <1>12, <2>1, CountedMove DEF Tail16
    <2>3. r14 - rbx' = 0 => base' + rbx' = call'.size
      BY <1>1, <1>12, <2>2 DEF Tail16, TypeOK
    <2>4. pc' = "complete" => MovedTo(call.size)'
      BY <1>12, <2>2, <2>3 DEF MovedTo, Prefix, Tail16
    <2> QED
      BY <1>12, <2>2, <2>4 DEF Tail16, Progress, Working, PackLabels
  <1>13. CASE CopyBytes \/ Rest
    <2>1. /\ pc \in Working /\ Move(Remaining) /\ UNCHANGED call
          /\ pc' \in {"complete", "returned"}
      BY <1>13 DEF CopyBytes, Rest, Working, PackLabels, fixed
    <2>2. Runs(call)' /\ MovedTo(call.size)'
      BY <2>1, LastMove
    <2> QED
      BY <2>1, <2>2 DEF Progress, Working, PackLabels
  <1>14. CASE Complete
    <2>1. Runs(call) /\ MovedTo(call.size)
      BY <1>1, <1>14 DEF Complete, Progress
    <2>2. Runs(call)' /\ MovedTo(call.size)'
      BY <1>2, <1>3, <1>4, <1>14, <2>1 DEF Complete, fixed, MovedTo, Prefix, Moved, Offsets
    <2> QED
      BY <1>14, <2>2 DEF Complete, Progress, Working, PackLabels
  <1>15. CASE UNCHANGED vars
    BY <1>1, <1>15 DEF vars, Progress, MovedTo, Prefix, Moved, Offsets, Runs, Nulls
  <1> QED
    BY <1>5, <1>6, <1>7, <1>8, <1>9, <1>10, <1>11, <1>12, <1>13, <1>14, <1>15
    DEF Next, Step

(* Where the routine is and what its registers and frames hold.            *)
LEMMA RegistersStep == TransferInv /\ [Next]_vars => Registers'
  <1> SUFFICES ASSUME TransferInv, [Next]_vars PROVE Registers'
    OBVIOUS
  <1>1. TypeOK /\ TypeOK' /\ Progress /\ Registers
    BY TypeStep DEF TransferInv
  <1> USE <1>1 DEF Registers, PackLabels, fixed
  <1>2. CASE Call
    BY <1>2 DEF Call, Calls, Legal
  <1>3. CASE Collect
    BY <1>3 DEF Collect
  <1>4. CASE Reject
    BY <1>4 DEF Reject, Return
  <1>5. CASE Enter
    BY <1>5 DEF Enter, Jump
  <1>6. CASE EnterPack
    BY <1>6 DEF EnterPack, Frames
  <1>7. CASE Block512
    BY <1>7 DEF Block512
  <1>8. CASE FallBack
    <2>1. base + r14 = call.size
      BY <1>8 DEF FallBack, Progress, Working
    <2>2. base' + r14' = call'.size
      BY <1>8, <2>1, SizeAssumption DEF FallBack, TypeOK
    <2>4. stack' \in Frames
      BY <1>8 DEF FallBack, Frames
    <2> QED
      BY <1>8, <2>2, <2>4 DEF FallBack
  <1>9. CASE Block256
    BY <1>9 DEF Block256
  <1>10. CASE EndOfBlocks256
    BY <1>10 DEF EndOfBlocks256, Jump, Remaining, Progress, Working
  <1>11. CASE Tail16
    BY <1>11 DEF Tail16, Progress, Working
  <1>12. CASE CopyBytes
    BY <1>12 DEF CopyBytes, Progress, Working
  <1>13. CASE Complete \/ Rest
    BY <1>13 DEF Complete, Rest
  <1>14. CASE Block32
    BY <1>14 DEF Block32
  <1>15. CASE EndOfBlocks32
    BY <1>15 DEF EndOfBlocks32, Jump, Remaining
  <1>16. CASE UNCHANGED vars
    BY <1>16 DEF vars, Remaining, Legal
  <1> QED
    BY <1>2, <1>3, <1>4, <1>5, <1>6, <1>7, <1>8, <1>9, <1>10, <1>11, <1>12,
       <1>13, <1>14, <1>15, <1>16 DEF Next, Step

(* What the returned routine has moved.                                    *)
LEMMA ExactStep == TransferInv /\ [Next]_vars => TransferExact'
  <1> SUFFICES ASSUME TransferInv, [Next]_vars, pc' = "returned"
               PROVE  MovedTo(IF Runs(call) THEN call.size ELSE 0)'
    BY DEF TransferExact
  <1>1. Progress /\ TransferExact
    BY DEF TransferInv
  <1>2. CASE Reject
    <2>1. MovedTo(0) /\ ~Runs(call)
      BY <1>1, <1>2 DEF Reject, Progress
    <2> QED
      BY <1>2, <2>1 DEF Reject, Return, fixed, MovedTo, Prefix, Moved, Offsets, Runs, Nulls
  <1>3. CASE Complete
    <2>1. MovedTo(call.size) /\ Runs(call)
      BY <1>1, <1>3 DEF Complete, Progress
    <2> QED
      BY <1>3, <2>1 DEF Complete, fixed, MovedTo, Prefix, Moved, Offsets, Runs, Nulls
  <1>4. CASE Rest
    <2>1. pc \in Working /\ Move(Remaining) /\ UNCHANGED call
      BY <1>4 DEF Rest, Working, fixed
    <2> QED
      BY <2>1, LastMove
  <1>5. CASE UNCHANGED vars
    BY <1>1, <1>5 DEF vars, TransferExact, MovedTo, Prefix, Moved, Offsets, Runs, Nulls
  <1>6. ~(\/ Call \/ Collect \/ Enter \/ EnterPack \/ Block512 \/ FallBack
          \/ Block256 \/ EndOfBlocks256 \/ Tail16 \/ CopyBytes
          \/ Block32 \/ EndOfBlocks32)
    BY DEF Call, Collect, Enter, EnterPack, Jump, Block512, FallBack, Block256,
           EndOfBlocks256, Tail16, CopyBytes, Block32, EndOfBlocks32
  <1> QED
    BY <1>2, <1>3, <1>4, <1>5, <1>6 DEF Next, Step

(* The account of the loops holds for every set of sizes and buffer:       *)
(* base + rbx bytes have been moved, base + r14 is the size asked for.     *)
THEOREM TransferInvariance == Spec => []TransferInv
  <1>1. TransferInv /\ [Next]_vars => TransferInv'
    BY TypeStep, ProgressStep, RegistersStep, ExactStep DEF TransferInv
  <1> QED
    BY InitTransferInv, <1>1, PTL DEF Spec

(* pack, unpack, memcpy and zero move exactly the bytes they are asked     *)
(* for, whatever the size.                                                 *)
THEOREM Exact == Spec => []TransferExact
  BY TransferInvariance, PTL DEF TransferInv

(* No routine writes beyond the size, in any state.                        *)
THEOREM InBounds == Spec => []NoOverrun
  <1>1. TransferInv => NoOverrun
    <2> SUFFICES ASSUME TransferInv, NEW i \in Offsets, dest[i] # Untouched
                 PROVE  i < call.size
      BY DEF NoOverrun
    <2>1. TypeOK /\ Progress /\ TransferExact
      BY DEF TransferInv
    <2>2. i \in Int /\ i >= 0
      BY SizeAssumption DEF Offsets
    <2>3. \A n \in Int : MovedTo(n) => i < n
      BY <2>2 DEF MovedTo, Prefix
    <2>4. call.size \in Int
      BY <2>1, SizeIsInt
    <2>5. CASE pc \in Working
      <3>1. MovedTo(base + rbx) /\ base + rbx <= call.size /\ base + rbx \in Int
        BY <2>1, <2>4, <2>5 DEF Progress, TypeOK
      <3> QED
        BY <2>2, <2>3, <2>4, <3>1
    <2>6. CASE pc \in {"complete", "crashed"}
      BY <2>1, <2>3, <2>4, <2>6 DEF Progress
    <2>7. CASE pc \in {"idle", "enter"}
      <3>1. MovedTo(0)
        BY <2>1, <2>7 DEF Progress
      <3> QED
        BY <2>2, <2>3, <3>1
    <2>8. CASE pc = "returned"
      <3>1. CASE Runs(call)
        BY <2>1, <2>3, <2>4, <2>8, <3>1 DEF TransferExact
      <3>2. CASE ~Runs(call)
        <4>1. MovedTo(0)
          BY <2>1, <2>8, <3>2 DEF TransferExact
        <4> QED
          BY <2>2, <2>3, <4>1
      <3> QED
        BY <3>1, <3>2
    <2> QED
      BY <2>1, <2>5, <2>6, <2>7, <2>8 DEF TypeOK, Labels, Working, PackLabels
  <1> QED
    BY TransferInvariance, <1>1, PTL

-----------------------------------------------------------------------------
(* How a routine comes back.  A block of the AVX-512 loop keeps its        *)
(* counter a multiple of 64, so what the loop leaves is size % 64.         *)
LEMMA WideKept ==
  ASSUME UNCHANGED fixed
  PROVE  /\ Wide' <=> Wide
         /\ Runs(call)' <=> Runs(call)
         /\ call'.size = call.size
  BY DEF fixed, Wide, Runs, Nulls

LEMMA ReturnStep == TransferInv /\ ReturnInv /\ [Next]_vars => ReturnInv'
  <1> SUFFICES ASSUME TransferInv, ReturnInv, [Next]_vars PROVE ReturnInv'
    OBVIOUS
  <1>1. TypeOK /\ TypeOK' /\ Progress /\ Registers
    BY TypeStep DEF TransferInv
  <1>2. call.size \in Int /\ base \in Nat /\ rbx \in Nat /\ r14 \in Int
    BY <1>1, SizeIsInt DEF TypeOK
  <1>3. CASE Call \/ Collect
    BY <1>3 DEF Call, Collect, ReturnInv
  <1>4. CASE Reject
    <2>1. pc' = "returned" /\ ~Runs(call)'
      BY <1>4, WideKept DEF Reject, Return
    <2> QED
      BY <2>1 DEF ReturnInv
  <1>5. CASE Enter
    BY <1>5 DEF Enter, Jump, ReturnInv
  <1>6. CASE EnterPack
    <2>1. /\ base' = 0 /\ rbx' = 0 /\ stack' = <<"rbp", "ret">>
          /\ pc' = IF Wide THEN "pack512" ELSE "pack256"
      BY <1>1, <1>6 DEF EnterPack, Registers, Wide
    <2> QED
      BY <1>6, <2>1, WideKept DEF EnterPack, ReturnInv
  <1>7. CASE Block512
    <2>1. pc' = "pack512" /\ Wide /\ rbx % 64 = 0 /\ rbx' = rbx + 64
      BY <1>7 DEF Block512, ReturnInv
    <2>2. rbx' % 64 = 0
      BY <1>2, <2>1
    <2> QED
      BY <1>7, <2>1, <2>2, WideKept DEF Block512, ReturnInv
  <1>8. CASE FallBack
    <2>1. /\ Wide /\ rbx % 64 = 0 /\ base = 0 /\ stack = <<"rbp", "ret">>
          /\ rbx <= r14 /\ r14 - rbx < 64
      BY <1>1, <1>8 DEF FallBack, ReturnInv, Registers, Progress, Working, PackLabels, Remaining
    <2>2. base' % 64 = 0 /\ r14' \in 0 .. 63
      BY <1>2, <1>8, <2>1 DEF FallBack
    <2>3. stack' = IF r14' = 0 THEN <<"rbp", "ret">> ELSE <<"rbp">> \o <<"rbp", "ret">>
      BY <1>8, <2>1 DEF FallBack
    <2>4. pc' \in {"complete", "pack256"}
      BY <1>8 DEF FallBack
    <2> QED
      BY <1>8, <2>1, <2>2, <2>3, <2>4, WideKept DEF FallBack, ReturnInv
  <1>9. CASE Block256 \/ EndOfBlocks256 \/ Tail16 \/ CopyBytes
    <2>1. /\ pc \in {"pack256", "tail", "bytes"}
          /\ pc' \in {"pack256", "tail", "bytes", "complete"}
          /\ UNCHANGED <<fixed, base, r14, stack>>
      BY <1>9 DEF Block256, EndOfBlocks256, Tail16, CopyBytes, Jump
    <2> QED
      BY <2>1, WideKept DEF ReturnInv
  <1>10. CASE Complete
    <2>1. Runs(call) /\ base + r14 = call.size /\ rax' = r14 /\ UNCHANGED fixed
      BY <1>1, <1>10 DEF Complete, Progress, Registers
    <2>2. CASE Wide
      <3>1. base % 64 = 0 /\ r14 \in 0 .. 63
        BY <1>10, <2>2 DEF ReturnInv, Complete
      <3>2. CASE r14 = 0
        <4>1. stack[2] = "ret"
          BY <1>10, <2>2, <3>2 DEF ReturnInv, Complete
        <4>2. call.size % 64 = 0 /\ rax' = 0
          BY <1>2, <2>1, <3>1, <3>2
        <4> QED
          BY <1>10, <2>1, <2>2, <4>1, <4>2, WideKept DEF Complete, ReturnInv
      <3>3. CASE r14 # 0
        <4>1. (<<"rbp">> \o <<"rbp", "ret">>)[2] = "rbp"
          OBVIOUS
        <4>2. stack[2] = "rbp"
          BY <1>10, <2>2, <3>3, <4>1 DEF ReturnInv, Complete
        <4>3. call.size % 64 # 0
          BY <1>2, <2>1, <3>1, <3>3
        <4> QED
          BY <1>10, <2>1, <2>2, <4>2, <4>3, WideKept DEF Complete, ReturnInv
      <3> QED
        BY <3>2, <3>3
    <2>3. CASE ~Wide
      <3>1. base = 0 /\ stack[2] = "ret"
        BY <1>10, <2>3 DEF ReturnInv, Complete
      <3>2. rax' = call.size
        BY <1>2, <2>1, <3>1
      <3> QED
        BY <1>10, <2>1, <2>3, <3>1, <3>2, WideKept DEF Complete, ReturnInv
    <2> QED
      BY <2>2, <2>3
  <1>11. CASE Block32 \/ EndOfBlocks32
    BY <1>11 DEF Block32, EndOfBlocks32, Jump, ReturnInv
  <1>12. CASE Rest
    <2>1. base = 0 /\ base + r14 = call.size /\ call.fn # "pack"
      BY <1>1, <1>12 DEF Rest, Registers, Progress, Working
    <2>2. ~Wide /\ rax' = call.size
      BY <1>2, <1>12, <2>1 DEF Rest, Wide
    <2> QED
      BY <1>12, <2>2, WideKept DEF Rest, ReturnInv
  <1>13. CASE UNCHANGED vars
    BY <1>13, WideKept DEF vars, fixed, ReturnInv
  <1> QED
    BY <1>3, <1>4, <1>5, <1>6, <1>7, <1>8, <1>9, <1>10, <1>11, <1>12, <1>13 DEF Next, Step

LEMMA PackerStep ==
  TransferInv /\ ReturnInv /\ [Next]_vars => TransferInv' /\ ReturnInv'
  BY TypeStep, ProgressStep, RegistersStep, ExactStep, ReturnStep DEF TransferInv

(* A ret is given the frame its routine pushed and the result is the size, *)
(* except in the AVX-512 loop: that one answers 0 when the size is a whole *)
(* number of blocks and is the only one that is lost, when it is not.      *)
THEOREM ReturnInvariance == Spec => []ReturnInv
  <1>1. Init => TransferInv /\ ReturnInv
    BY InitTransferInv DEF Init, ReturnInv
  <1> QED
    BY <1>1, PackerStep, PTL DEF Spec

(* Whoever does not ask for AVX-512, or has a CPU without it, is told the  *)
(* number of bytes and gets back, as the headers of the routines promise.  *)
THEOREM Avx2Keeps == Spec => []Avx2KeepsPromise
  <1>1. ReturnInv => Avx2KeepsPromise
    BY DEF ReturnInv, Avx2KeepsPromise, ReturnsBytes, ReturnsToCaller
  <1> QED
    BY <1>1, ReturnInvariance, PTL

-----------------------------------------------------------------------------
(* The refinement.  Of the steps of a call only the one that returns, or   *)
(* is lost, is a step of the contract.                                     *)
LEMMA NothingMoved == ASSUME NEW c PROVE Prefix(c, 0) = Blank
  BY SizeAssumption DEF Prefix, Blank, Offsets

Inside == Working \cup {"enter", "complete"}

LEMMA OutcomeOf ==
  /\ pc = "idle" => Outcome = "none"
  /\ pc \in Inside => Outcome = "made"
  /\ pc = "returned" => Outcome = "back"
  /\ pc = "crashed" => Outcome = "lost"
  BY DEF Outcome, Inside, Working, PackLabels

(* Passes of the loops and jumps between them are not seen.                *)
LEMMA InsideStutters ==
  ASSUME pc \in Inside, pc' \in Inside, UNCHANGED fixed
  PROVE  UNCHANGED Contract!contractVars
  <1>1. Outcome = "made" /\ Outcome' = "made"
    BY OutcomeOf DEF Outcome, Inside, Working, PackLabels
  <1>2. pc # "returned" /\ pc' # "returned"
    BY DEF Inside, Working, PackLabels
  <1> QED
    BY <1>1, <1>2 DEF Contract!contractVars, fixed, Contract!Blank, Blank, Offsets

(* The step that ends a call gives one of the outcomes of the contract.    *)
LEMMA SameContract ==
  /\ Contract!Blank = Blank
  /\ Contract!Wide = Wide
  /\ \A c, n : Contract!Prefix(c, n) = Prefix(c, n)
  /\ \A c : Contract!Rejection(c) = Rejection(c)
  BY DEF Contract!Blank, Contract!Offsets, Contract!Untouched, Contract!Wide, Contract!Prefix,
         Contract!Moved, Contract!Zeroed, Contract!Rejection, Contract!Nulls,
         Contract!MinusOneInEax, Blank, Offsets, Untouched, Wide, Prefix, Moved, Zeroed, Rejection,
         Nulls, MinusOneInEax

LEMMA SameRuns == ASSUME NEW c PROVE Contract!Runs(c) <=> Runs(c)
  BY DEF Contract!Runs, Contract!Nulls, Runs, Nulls

LEMMA EndIsAnOutcome ==
  ASSUME pc \in Inside, pc' \in {"returned", "crashed"}, UNCHANGED fixed, TransferExact',
         ReturnInv', Runs(call) \/ (pc' = "returned" /\ rax' \in Rejection(call))
  PROVE  Contract!End
  <1>1. Outcome = "made" /\ Outcome' = IF pc' = "returned" THEN "back" ELSE "lost"
    BY OutcomeOf DEF Outcome
  <1> DEFINE o == IF pc' = "returned" THEN [back |-> TRUE, result |-> rax', moved |-> dest']
                  ELSE [back |-> FALSE, result |-> 0, moved |-> Blank]
  <1>2. pc' = "returned" => dest' = IF Runs(call) THEN Prefix(call, call.size) ELSE Blank
    <2> SUFFICES ASSUME pc' = "returned"
                 PROVE  dest' = IF Runs(call) THEN Prefix(call, call.size) ELSE Blank
      OBVIOUS
    <2>1. MovedTo(IF Runs(call) THEN call.size ELSE 0)'
      BY DEF TransferExact
    <2>2. dest' = Prefix(call', IF Runs(call)' THEN call'.size ELSE 0)
      BY <2>1 DEF MovedTo, Prefix, Offsets, Moved
    <2>3. dest' = Prefix(call, IF Runs(call) THEN call.size ELSE 0)
      BY <2>2, WideKept DEF fixed
    <2> QED
      BY <2>3, NothingMoved
  <1>3. /\ pc' = "returned" /\ Runs(call)
              => IF Wide THEN rax' = 0 /\ call.size % 64 = 0 ELSE rax' = call.size
        /\ pc' = "crashed" => Wide /\ call.size % 64 # 0
    BY WideKept DEF ReturnInv
  <1>4. o \in Contract!Outcomes(call, Contract!Wide, 64)
    <2>1. CASE ~Runs(call)
      BY <1>2, <2>1, SameContract, SameRuns DEF Contract!Outcomes
    <2>2. CASE Runs(call) /\ ~Wide
      BY <1>2, <1>3, <2>2, SameContract, SameRuns DEF Contract!Outcomes
    <2>3. CASE Runs(call) /\ Wide /\ call.size % 64 = 0
      BY <1>2, <1>3, <2>3, SameContract, SameRuns DEF Contract!Outcomes
    <2>4. CASE Runs(call) /\ Wide /\ call.size % 64 # 0
      BY <1>2, <1>3, <2>4, SameContract, SameRuns DEF Contract!Outcomes, Contract!Lost
    <2> QED
      BY <2>1, <2>2, <2>3, <2>4
  <1>5. /\ Outcome' = IF o.back THEN "back" ELSE "lost"
        /\ (IF pc' = "returned" THEN rax' ELSE 0) = o.result
        /\ (IF pc' = "returned" THEN dest' ELSE Contract!Blank) = o.moved
    BY <1>1, SameContract
  <1>6. UNCHANGED <<avx512, call>>
    BY DEF fixed
  <1> HIDE DEF o
  <1> QED
    BY <1>1, <1>4, <1>5, <1>6, SameContract DEF Contract!End, Blank, Offsets

LEMMA StepImplements ==
  TransferInv /\ ReturnInv /\ [Next]_vars => [Contract!Next]_Contract!contractVars
  <1> SUFFICES ASSUME TransferInv, ReturnInv, [Next]_vars
               PROVE  [Contract!Next]_Contract!contractVars
    OBVIOUS
  <1>1. TransferExact' /\ ReturnInv' /\ TypeOK /\ TypeOK' /\ Progress
    BY PackerStep DEF TransferInv
  <1>2. CASE Call
    <2>1. Outcome = "none" /\ Outcome' = "made"
      BY <1>2 DEF Outcome, Call
    <2>2. Contract!Make
      BY <1>2, <2>1
      DEF Call, Contract!Make, Contract!Calls, Contract!Legal, Contract!Functions, Calls, Legal,
          Functions, Contract!Blank, Blank, Offsets
    <2> QED
      BY <2>2 DEF Contract!Next
  <1>3. CASE Collect
    <2>1. Outcome = "back" /\ Outcome' = "none"
      BY <1>3 DEF Outcome, Collect
    <2>2. Contract!Collect
      BY <1>3, <2>1
      DEF Collect, Contract!Collect, Contract!NoCall, NoCall, Contract!Blank, Blank,
          Contract!Offsets, Offsets, Contract!Untouched, Untouched
    <2> QED
      BY <2>2 DEF Contract!Next
  <1>4. CASE Reject \/ Rest \/ Complete
    <2>1. /\ pc \in Inside /\ pc' \in {"returned", "crashed"} /\ UNCHANGED fixed
          /\ Runs(call) \/ (pc' = "returned" /\ rax' \in Rejection(call))
      BY <1>1, <1>4 DEF Reject, Return, Rest, Complete, Inside, Working, Progress, fixed
    <2> QED
      BY <1>1, <2>1, EndIsAnOutcome DEF Contract!Next
  <1>6. CASE \/ Enter \/ EnterPack \/ Block512 \/ FallBack \/ Block256 \/ EndOfBlocks256
             \/ Tail16 \/ CopyBytes \/ Block32 \/ EndOfBlocks32
    <2>1. pc \in Inside /\ pc' \in Inside /\ UNCHANGED fixed
      BY <1>6 DEF Enter, EnterPack, Jump, Block512, FallBack, Block256, EndOfBlocks256,
                  Tail16, CopyBytes, Block32, EndOfBlocks32, Inside, Working, PackLabels, fixed
    <2> QED
      BY <2>1, InsideStutters
  <1>7. CASE UNCHANGED vars
    BY <1>7 DEF vars, Contract!contractVars, Outcome, Contract!Blank, Blank, Offsets
  <1> QED
    BY <1>2, <1>3, <1>4, <1>6, <1>7 DEF Next, Step

(* Every behaviour of the routines, for every size, buffer and CPU, is one *)
(* of PackerContract: whatever the mix of moves, a caller sees one step.   *)
THEOREM PackerImplementsContract == Spec => ImplementsContract
  <1>1. Init => Contract!Init
    BY DEF Init, Contract!Init, Outcome, Contract!NoCall, NoCall, Contract!Blank, Blank,
           Contract!Offsets, Offsets, Contract!Untouched, Untouched
  <1>2. Spec => [](TransferInv /\ ReturnInv)
    BY TransferInvariance, ReturnInvariance, PTL
  <1> QED
    BY <1>1, <1>2, StepImplements, PTL DEF Spec, ImplementsContract, Contract!Spec

-----------------------------------------------------------------------------
(* A bound on the steps a call has left: its passes are counted by the     *)
(* bytes that remain, and every jump leads to a smaller label.             *)
StepsLeft ==
  CASE pc = "enter" -> IF Runs(call) THEN Remaining + 6 ELSE 1
    [] pc = "pack512" -> Remaining + 5
    [] pc = "pack256" -> Remaining + 4
    [] pc = "tail" -> 3
    [] pc = "bytes" -> 2
    [] pc = "loop32" -> Remaining + 2
    [] pc \in {"complete", "rest"} -> 1
    [] OTHER -> 0

Descends == [][Step => StepsLeft \in Nat /\ StepsLeft' \in 0 .. StepsLeft - 1]_vars

LEMMA RemainingNat ==
  ASSUME TransferInv, pc \in Working \/ (pc = "enter" /\ Runs(call))
  PROVE  Remaining \in Nat
  <1>1. TypeOK /\ Progress /\ Registers
    BY DEF TransferInv
  <1>2. CASE pc \in Working
    BY <1>1, <1>2 DEF Progress, Remaining, TypeOK
  <1>3. CASE pc = "enter" /\ Runs(call)
    <2>1. rbx = 0 /\ r14 = call.size /\ Legal(call)
      BY <1>1, <1>3 DEF Registers
    <2>2. call.fn \in Functions /\ call.size \in Int
      BY <1>1, SizeIsInt DEF TypeOK
    <2> QED
      BY <1>3, <2>1, <2>2 DEF Runs, Legal, Functions, Remaining
  <1> QED
    BY <1>2, <1>3

LEMMA StepDescends ==
  TransferInv /\ TransferInv' /\ Step => StepsLeft \in Nat /\ StepsLeft' \in 0 .. StepsLeft - 1
  <1> SUFFICES ASSUME TransferInv, TransferInv', Step
               PROVE  StepsLeft \in Nat /\ StepsLeft' \in 0 .. StepsLeft - 1
    OBVIOUS
  <1>0. TypeOK /\ Registers
    BY DEF TransferInv
  <1> USE DEF StepsLeft, Working, PackLabels
  <1>1. CASE Reject
    BY <1>1 DEF Reject, Return
  <1>2. CASE Enter \/ EnterPack
    <2>1. Remaining \in Nat /\ Remaining' = Remaining /\ pc = "enter" /\ Runs(call)
          /\ pc' \in {"loop32", "pack512", "pack256"}
      BY <1>2, RemainingNat DEF Enter, EnterPack, Jump, Remaining
    <2> QED
      BY <2>1
  <1>3. CASE Block512 \/ Block256 \/ Block32
    <2>1. Remaining \in Nat /\ pc' = pc /\ pc \in {"loop32", "pack512", "pack256"}
      BY <1>3, RemainingNat DEF Block512, Block256, Block32
    <2>2. \E n \in {32, 64} : n <= Remaining /\ Remaining' = Remaining - n
      BY <1>0, <1>3 DEF Block512, Block256, Block32, Remaining, TypeOK
    <2>3. Remaining' \in 0 .. Remaining - 1
      BY <2>1, <2>2
    <2> QED
      BY <2>1, <2>2, <2>3
  <1>4. CASE FallBack
    <2>1. Remaining \in Nat /\ pc = "pack512"
      BY <1>4, RemainingNat DEF FallBack
    <2>2. pc' = "complete" \/ (pc' = "pack256" /\ Remaining' = Remaining)
      BY <1>0, <1>4 DEF FallBack, Remaining, TypeOK
    <2> QED
      BY <2>1, <2>2
  <1>5. CASE EndOfBlocks256 \/ EndOfBlocks32
    <2>1. Remaining \in Nat
      BY <1>5, RemainingNat DEF EndOfBlocks256, EndOfBlocks32
    <2>2. \/ pc = "pack256" /\ pc' \in {"complete", "tail", "bytes"}
          \/ pc = "loop32" /\ pc' = "rest"
      BY <1>5 DEF EndOfBlocks256, EndOfBlocks32, Jump
    <2> QED
      BY <2>1, <2>2
  <1>6. CASE Tail16 \/ CopyBytes
    BY <1>6 DEF Tail16, CopyBytes
  <1>7. CASE Complete \/ Rest
    BY <1>7 DEF Complete, Rest
  <1> QED
    BY <1>1, <1>2, <1>3, <1>4, <1>5, <1>6, <1>7 DEF Step

(* No loop runs for ever, for any size: every step of a call lowers a      *)
(* number that is at most 6 more than the size.                            *)
THEOREM CallsDescend ==
  Spec => Descends /\ [](pc = "enter" /\ Runs(call) => StepsLeft = call.size + 6)
  <1>1. TransferInv => (pc = "enter" /\ Runs(call) => StepsLeft = call.size + 6)
    BY SizeIsInt DEF TransferInv, Registers, StepsLeft, Remaining, TypeOK
  <1>2. TransferInv /\ TransferInv' /\ [Next]_vars
          => [Step => StepsLeft \in Nat /\ StepsLeft' \in 0 .. StepsLeft - 1]_vars
    BY StepDescends
  <1> QED
    BY <1>1, <1>2, TransferInvariance, PTL DEF Spec, Descends
=============================================================================

------------------------- MODULE KernovaServices_proofs -------------------------
(* Proofs about KernovaServices, for any sizes of the enclave and the data *)
(* buffer, any messages and any number of them.                            *)
EXTENDS KernovaServices, TLAPS

LEMMA NullIsNothing == NULL \in Seq(Bytes) /\ Len(NULL) = 0
  BY DEF NULL

LEMMA MessageFacts ==
  ASSUME NEW m \in Messages
  PROVE  /\ m \in Seq(Bytes)
         /\ Len(m) \in Nat
         /\ m # NULL => Len(m) >= 1
         /\ \A k \in 1 .. Len(m) : m[k] \in Bytes
  BY EnclaveAssumption DEF NULL

(* What vmcall_handler returns is a number of WORD values.                 *)
LEMMA Converted ==
  ASSUME NEW v \in Int
  PROVE  v % WORD \in 0 .. WORD - 1
  BY EnclaveAssumption

(* Where each call finds the enclave.                                      *)
Allocation ==
  /\ pc \in {"ready", "pack", "swap", "unpack", "wipe", "free"} => (active <=> allocated \/ lost)
  /\ lost => ~allocated
  /\ pc \in {"backend", "pack", "swap", "unpack"} => active
  /\ pc \in {"zero", "backend"} => allocated /\ sent = <<>> /\ memory = Zeros
  /\ pc = "free" /\ allocated => memory = Zeros

(* The operation in progress, checked by its caller.                       *)
CallInv ==
  /\ pc \in {"pack", "swap"} => /\ call.message \in Messages \ {NULL}
                                /\ call.size = Len(call.message)
  /\ pc \in {"pack", "swap", "unpack"} => call.size \in 1 .. DATA_BUFFER_SIZE
  /\ pc = "swap" => swapped \in 0 .. call.size \div 2
  /\ pc \notin {"swap", "dead"} => swapped = 0
  /\ pc \notin {"ready", "dead"} => got = <<>>

AccessInv == ServicesTypeOK /\ Allocation /\ CallInv

LEMMA InitAccessInv == Init => AccessInv
  BY EnclaveAssumption DEF Init, AccessInv, ServicesTypeOK, Allocation, CallInv, Zeros,
     Offsets, Labels, NoCall, NULL

-----------------------------------------------------------------------------
(* What the contract of the packer makes of its four uses.                 *)
LEMMA Laid ==
  ASSUME NEW c, c.fn \in {"pack", "unpack", "zero"}, NEW o, NEW old, NEW source,
         o.moved = Packer!Prefix(c, c.size)
  PROVE  Overlay(o, old, source)
           = [k \in Offsets |-> IF k < c.size THEN (IF c.fn = "zero" THEN 0 ELSE source[k])
                                ELSE old[k]]
  <1>1. \A k \in Offsets : k \in Int /\ k # Packer!Untouched /\ k # Packer!Zeroed
    BY DEF Offsets, Packer!Untouched, Packer!Zeroed
  <1>2. Packer!Zeroed # Packer!Untouched
    BY DEF Packer!Untouched, Packer!Zeroed
  <1>3. \A k \in Offsets :
          o.moved[k] = IF k < c.size THEN (IF c.fn = "zero" THEN Packer!Zeroed ELSE k)
                       ELSE Packer!Untouched
    BY DEF Packer!Prefix, Packer!Offsets, Packer!Moved, Offsets
  <1>4. ASSUME NEW k \in Offsets
        PROVE  (CASE o.moved[k] = Packer!Untouched -> old[k]
                  [] o.moved[k] = Packer!Zeroed -> 0
                  [] OTHER -> source[o.moved[k]])
               = IF k < c.size THEN (IF c.fn = "zero" THEN 0 ELSE source[k]) ELSE old[k]
    BY <1>1, <1>2, <1>3
  <1> QED
    BY <1>4 DEF Overlay

LEMMA LaidNothing ==
  ASSUME NEW o, NEW old, NEW source, o.moved = Packer!Blank, old \in [Offsets -> Bytes \cup {0}]
  PROVE  Overlay(o, old, source) = old
  <1>1. \A k \in Offsets : o.moved[k] = Packer!Untouched
    BY DEF Packer!Blank, Packer!Offsets, Offsets
  <1>2. ASSUME NEW k \in Offsets
        PROVE  (CASE o.moved[k] = Packer!Untouched -> old[k]
                  [] o.moved[k] = Packer!Zeroed -> 0
                  [] OTHER -> source[o.moved[k]]) = old[k]
    BY <1>1 DEF Packer!Untouched, Packer!Zeroed
  <1>3. Overlay(o, old, source) = [k \in Offsets |-> old[k]]
    BY <1>2 DEF Overlay
  <1> QED
    BY <1>3

LEMMA PackEffect ==
  ASSUME AccessInv, Pack
  PROVE  /\ \/ pc' = "dead" /\ memory' = memory
            \/ /\ pc' = "swap" /\ allocated
               /\ memory' = [k \in Offsets |-> IF k < call.size THEN call.message[k + 1]
                                               ELSE memory[k]]
            \/ pc' = "swap" /\ ~allocated /\ memory' = memory
         /\ pc = "pack"
         /\ UNCHANGED <<flags, allocated, active, lost, call, swapped, got, answer, sent>>
  <1>1. /\ call.size \in 1 .. DATA_BUFFER_SIZE /\ pc = "pack" /\ allocated \in BOOLEAN
        /\ memory \in [Offsets -> Bytes \cup {0}]
    BY DEF AccessInv, CallInv, ServicesTypeOK, Pack
  <1>2. /\ PackCall.size = call.size /\ PackCall.fn = "pack"
        /\ Packer!Runs(PackCall) <=> allocated
    BY <1>1, EnclaveAssumption DEF Packer!Runs, Packer!Nulls, PackCall
  <1> DEFINE source == [k \in 0 .. call.size - 1 |-> call.message[k + 1]]
  <1>3. PICK o \in Packer!Outcomes(PackCall, avx512, VECTOR) :
          /\ memory' = Overlay(o, memory, source)
          /\ pc' = IF o.back THEN "swap" ELSE "dead"
    BY DEF Pack
  <1>4. \/ allocated /\ o.back = TRUE /\ o.moved = Packer!Prefix(PackCall, PackCall.size)
        \/ o.back = FALSE /\ o.moved = Packer!Blank
        \/ ~allocated /\ o.back = TRUE /\ o.moved = Packer!Blank
    BY <1>2 DEF Packer!Outcomes, Packer!Lost
  <1>5. CASE allocated /\ o.back = TRUE /\ o.moved = Packer!Prefix(PackCall, PackCall.size)
    <2> HIDE DEF source
    <2>1. memory' = [k \in Offsets |-> IF k < call.size THEN source[k] ELSE memory[k]]
      BY <1>2, <1>3, <1>5, Laid
    <2> USE DEF source
    <2>2. \A k \in Offsets : k < call.size => source[k] = call.message[k + 1]
      BY <1>1, EnclaveAssumption DEF Offsets
    <2> QED
      BY <1>1, <1>3, <1>5, <2>1, <2>2 DEF Pack
  <1>6. CASE o.back = FALSE /\ o.moved = Packer!Blank
    BY <1>1, <1>3, <1>6, LaidNothing DEF Pack
  <1>7. CASE ~allocated /\ o.back = TRUE /\ o.moved = Packer!Blank
    BY <1>1, <1>3, <1>7, LaidNothing DEF Pack
  <1> QED
    BY <1>4, <1>5, <1>6, <1>7

LEMMA UnpackEffect ==
  ASSUME AccessInv, Unpack
  PROVE  got' = [k \in 1 .. call.size |-> IF allocated THEN memory[k - 1] ELSE Packer!Untouched]
  <1> DEFINE old == [i \in Offsets |-> Packer!Untouched]
  <1>1. /\ call.size \in 1 .. DATA_BUFFER_SIZE /\ allocated \in BOOLEAN
        /\ DATA_BUFFER_SIZE \in Nat /\ DATA_BUFFER_SIZE <= ENCLAVE_SIZE /\ ENCLAVE_SIZE \in Nat
    BY EnclaveAssumption DEF AccessInv, CallInv, ServicesTypeOK, Unpack
  <1>2. /\ UnpackCall.size = call.size /\ UnpackCall.fn = "unpack"
        /\ Packer!Runs(UnpackCall) <=> allocated
    BY <1>1 DEF Packer!Runs, Packer!Nulls, UnpackCall
  <1>3. PICK o \in Packer!Outcomes(UnpackCall, FALSE, VECTOR) :
          got' = [k \in 1 .. call.size |-> Overlay(o, old, memory)[k - 1]]
    BY DEF Unpack
  <1>4. \A k \in 1 .. call.size : k - 1 \in Offsets /\ k - 1 < call.size
    BY <1>1 DEF Offsets
  <1>5. CASE allocated
    <2>1. o.moved = Packer!Prefix(UnpackCall, UnpackCall.size)
      BY <1>2, <1>5 DEF Packer!Outcomes
    <2> HIDE DEF old
    <2>2. Overlay(o, old, memory) = [k \in Offsets |-> IF k < call.size THEN memory[k] ELSE old[k]]
      BY <1>2, <2>1, Laid
    <2>3. \A k \in 1 .. call.size : Overlay(o, old, memory)[k - 1] = memory[k - 1]
      BY <1>4, <2>2
    <2> QED
      BY <1>3, <1>5, <2>3
  <1>6. CASE ~allocated
    <2>1. o.moved = Packer!Blank
      BY <1>2, <1>6 DEF Packer!Outcomes
    <2>2. \A k \in Offsets : o.moved[k] = Packer!Untouched
      BY <2>1 DEF Packer!Blank, Packer!Offsets, Offsets
    <2>3. ASSUME NEW k \in Offsets
          PROVE  (CASE o.moved[k] = Packer!Untouched -> old[k]
                    [] o.moved[k] = Packer!Zeroed -> 0
                    [] OTHER -> memory[o.moved[k]]) = Packer!Untouched
      BY <2>2 DEF Packer!Untouched, Packer!Zeroed
    <2>4. \A k \in Offsets : Overlay(o, old, memory)[k] = Packer!Untouched
      BY <2>3 DEF Overlay
    <2>5. \A k \in 1 .. call.size : Overlay(o, old, memory)[k - 1] = Packer!Untouched
      BY <1>4, <2>4
    <2> QED
      BY <1>3, <1>6, <2>5
  <1> QED
    BY <1>1, <1>5, <1>6

(* A zero() of an enclave that is there clears all of it, any other        *)
(* nothing.                                                                *)
LEMMA ZeroEffect ==
  ASSUME ServicesTypeOK, NEW o \in Packer!Outcomes(ZeroCall, FALSE, VECTOR)
  PROVE  Overlay(o, memory, memory) = IF allocated THEN Zeros ELSE memory
  <1>1. ZeroCall.size = ENCLAVE_SIZE /\ ZeroCall.fn = "zero" /\ ZeroCall.dest = allocated
    BY DEF ZeroCall
  <1>2. memory \in [Offsets -> Bytes \cup {0}] /\ allocated \in BOOLEAN
    BY DEF ServicesTypeOK
  <1>3. CASE allocated
    <2>1. o.moved = Packer!Prefix(ZeroCall, ZeroCall.size)
      BY <1>1, <1>3, EnclaveAssumption DEF Packer!Outcomes, Packer!Runs, Packer!Nulls
    <2>2. \A k \in Offsets : k < ENCLAVE_SIZE
      BY EnclaveAssumption DEF Offsets
    <2>3. Overlay(o, memory, memory)
            = [k \in Offsets |-> IF k < ENCLAVE_SIZE THEN 0 ELSE memory[k]]
      BY <1>1, <2>1, Laid
    <2> QED
      BY <1>3, <2>2, <2>3 DEF Zeros
  <1>4. CASE ~allocated
    <2>1. o.moved = Packer!Blank
      BY <1>1, <1>4 DEF Packer!Outcomes, Packer!Runs
    <2> QED
      BY <1>2, <1>4, <2>1, LaidNothing
  <1> QED
    BY <1>2, <1>3, <1>4

LEMMA ZeroEnclaveEffect == ASSUME AccessInv, ZeroEnclave PROVE memory' = Zeros
  BY ZeroEffect DEF AccessInv, Allocation, ZeroEnclave

LEMMA WipeEffect ==
  ASSUME AccessInv, Wipe PROVE memory' = IF allocated THEN Zeros ELSE memory
  BY ZeroEffect DEF AccessInv, Wipe

-----------------------------------------------------------------------------
(* A call that ends.                                                       *)
LEMMA NoCallTyped == NoCall \in [message : Messages \cup {NULL}, size : Nat, vm : BOOLEAN]
  BY DEF NoCall

CallTyped ==
  /\ pc \in Labels
  /\ call \in [message : Messages \cup {NULL}, size : Nat, vm : BOOLEAN]
  /\ swapped \in Nat
  /\ answer \in -5 .. WORD - 1

LEMMA ReturnsTyped ==
  ASSUME NEW v \in {0, -1, -2, -3, -4, -5}, NEW vm \in BOOLEAN, Returns(v, vm)
  PROVE  CallTyped'
  <1>1. answer' \in -5 .. WORD - 1
    <2>1. v % WORD \in 0 .. WORD - 1
      BY Converted
    <2> QED
      BY <2>1, EnclaveAssumption DEF Returns
  <1> QED
    BY <1>1, NoCallTyped DEF Returns, CallTyped, Labels

LEMMA ZerosTyped == Zeros \in [Offsets -> Bytes \cup {0}]
  BY DEF Zeros

LEMMA StepTypes == AccessInv /\ [Next]_vars => ServicesTypeOK'
  <1> SUFFICES ASSUME AccessInv, [Next]_vars PROVE ServicesTypeOK'
    OBVIOUS
  <1>0. ServicesTypeOK /\ CallInv
    BY DEF AccessInv
  <1>a. <<>> \in Seq(Bytes \cup {0, Packer!Untouched}) /\ <<>> \in Seq(Messages)
    OBVIOUS
  <1> USE <1>0, <1>a, NoCallTyped, ZerosTyped DEF ServicesTypeOK, CallTyped, enclave, flags, Labels
  <1>1. CASE MonitorAndAllocate
    <2>1. CallTyped'
      BY <1>1, ReturnsTyped DEF MonitorAndAllocate
    <2> QED
      BY <1>1, <2>1 DEF MonitorAndAllocate
  <1>2. CASE ZeroEnclave
    BY <1>2, ZeroEnclaveEffect DEF ZeroEnclave
  <1>3. CASE BackendReady \/ BackendFails
    <2>1. PICK code \in {0, -3, -4, -5} : Returns(code, FALSE)
      BY <1>3 DEF BackendReady, BackendFails
    <2>2. CallTyped'
      BY <2>1, ReturnsTyped
    <2> QED
      BY <1>3, <2>2 DEF BackendReady, BackendFails
  <1>4. CASE Send
    <2>1. PICK m \in Messages, vm \in BOOLEAN : call' = [message |-> m, size |-> Len(m), vm |-> vm]
      BY <1>4 DEF Send
    <2>2. call' \in [message : Messages \cup {NULL}, size : Nat, vm : BOOLEAN]
      BY <2>1, MessageFacts
    <2> QED
      BY <1>4, <2>2 DEF Send
  <1>5. CASE SendRefused
    <2>1. CallTyped'
      BY <1>5, ReturnsTyped DEF SendRefused
    <2> QED
      BY <1>5, <2>1 DEF SendRefused
  <1>6. CASE Pack
    <2>1. \A k \in Offsets : k < call.size => call.message[k + 1] \in Bytes
      BY <1>6, MessageFacts, PackEffect DEF CallInv, Offsets
    <2>2. memory' \in [Offsets -> Bytes \cup {0}]
      BY <1>6, <2>1, PackEffect
    <2> QED
      BY <1>6, <2>2, PackEffect
  <1>7. CASE Swap
    <2>1. /\ swapped \in Offsets /\ call.size - 1 - swapped \in Offsets
          /\ swapped + 1 \in Nat
      BY <1>7, EnclaveAssumption DEF Swap, CallInv, Offsets
    <2>2. memory' \in [Offsets -> Bytes \cup {0}]
      BY <1>7, <2>1 DEF Swap
    <2> QED
      BY <1>7, <2>1, <2>2 DEF Swap
  <1>8. CASE SendReturns
    <2>1. sent' \in Seq(Messages)
      BY <1>8 DEF SendReturns, CallInv
    <2>2. CallTyped'
      BY <1>8, ReturnsTyped DEF SendReturns
    <2> QED
      BY <1>8, <2>1, <2>2 DEF SendReturns
  <1>9. CASE Receive
    <2>1. PICK n \in 1 .. DATA_BUFFER_SIZE : call' = [NoCall EXCEPT !.size = n]
      BY <1>9 DEF Receive
    <2>2. n \in Nat
      BY EnclaveAssumption
    <2>3. call' \in [message : Messages \cup {NULL}, size : Nat, vm : BOOLEAN]
      BY <2>1, <2>2 DEF NoCall
    <2> QED
      BY <1>9, <2>3 DEF Receive
  <1>10. CASE ReceiveRefused
    <2>1. Returns(-1, FALSE) \/ Returns(-2, FALSE)
      BY <1>10 DEF ReceiveRefused
    <2>2. CallTyped'
      BY <2>1, ReturnsTyped
    <2> QED
      BY <1>10, <2>2 DEF ReceiveRefused
  <1>11. CASE Unpack
    <2>1. call.size \in Nat /\ \A k \in 1 .. call.size : k - 1 \in Offsets
      BY <1>11, EnclaveAssumption DEF Unpack, CallInv, Offsets
    <2>2. got' = [k \in 1 .. call.size |-> IF allocated THEN memory[k - 1] ELSE Packer!Untouched]
      BY <1>11, UnpackEffect
    <2>3. got' \in Seq(Bytes \cup {0, Packer!Untouched})
      BY <2>1, <2>2
    <2>4. CallTyped'
      BY <1>11, ReturnsTyped DEF Unpack
    <2> QED
      BY <1>11, <2>3, <2>4 DEF Unpack
  <1>12. CASE CheckIntegrity
    <2>1. PICK vm \in BOOLEAN : Returns(0, vm) \/ Returns(-2, vm) \/ Returns(-1, vm)
      BY <1>12 DEF CheckIntegrity
    <2>2. CallTyped'
      BY <2>1, ReturnsTyped
    <2> QED
      BY <1>12, <2>2 DEF CheckIntegrity
  <1>13. CASE Echo \/ UnknownFunction
    <2>1. WORD \in Nat \ {0} /\ Params \subseteq 0 .. WORD - 1
      BY EnclaveAssumption
    <2>2. \E v \in Int : Returns(v, TRUE)
      <3>1. CASE Echo
        <4>1. PICK a, b \in Params : Returns(a + b, TRUE)
          BY <3>1 DEF Echo
        <4>2. a + b \in Int
          BY <2>1
        <4> QED
          BY <4>1, <4>2
      <3>2. CASE UnknownFunction
        <4>1. Returns(WORD - 1, TRUE)
          BY <3>2 DEF UnknownFunction
        <4>2. WORD - 1 \in Int
          BY <2>1
        <4> QED
          BY <4>1, <4>2, Zenon
      <3> QED
        BY <1>13, <3>1, <3>2
    <2>3. PICK v \in Int : Returns(v, TRUE)
      BY <2>2
    <2>4. v % WORD \in 0 .. WORD - 1
      BY Converted
    <2>5. CallTyped'
      BY <2>1, <2>3, <2>4 DEF Returns
    <2> QED
      BY <1>13, <2>5 DEF Echo, UnknownFunction
  <1>14. CASE Shutdown \/ Wipe \/ SwapFaults \/ ProcessEnds
    BY <1>14, WipeEffect DEF Shutdown, Wipe, SwapFaults, ProcessEnds
  <1>15. CASE Free
    <2>1. CallTyped'
      BY <1>15, ReturnsTyped DEF Free
    <2> QED
      BY <1>15, <2>1 DEF Free
  <1>16. CASE Restart
    <2>1. CallTyped'
      BY <1>16, ReturnsTyped DEF Restart
    <2> QED
      BY <1>16, <2>1 DEF Restart
  <1>17. CASE UNCHANGED vars
    BY <1>17 DEF vars
  <1> QED
    BY <1>1, <1>2, <1>3, <1>4, <1>5, <1>6, <1>7, <1>8, <1>9, <1>10, <1>11, <1>12, <1>13,
       <1>14, <1>15, <1>16, <1>17 DEF Next

(* Calls that are refused or answered at once leave everything alone.      *)
Immediate == SendRefused \/ ReceiveRefused \/ CheckIntegrity \/ Echo \/ UnknownFunction

LEMMA ImmediateKeeps ==
  ASSUME Immediate
  PROVE  /\ pc = "ready" /\ pc' = "ready" /\ swapped' = 0 /\ got' = <<>>
         /\ UNCHANGED <<enclave, flags, sent>>
  BY DEF Immediate, SendRefused, ReceiveRefused, CheckIntegrity, Echo, UnknownFunction, Returns

LEMMA StepAllocation == AccessInv /\ [Next]_vars => Allocation'
  <1> SUFFICES ASSUME AccessInv, [Next]_vars PROVE Allocation'
    OBVIOUS
  <1>0. Allocation /\ ServicesTypeOK
    BY DEF AccessInv
  <1>a. CASE ZeroEnclave
    <2>1. memory' = Zeros
      BY <1>a, ZeroEnclaveEffect
    <2>2. pc = "zero" /\ pc' = "backend" /\ active' /\ UNCHANGED <<allocated, lost, sent>>
      BY <1>a DEF ZeroEnclave
    <2> QED
      BY <1>0, <2>1, <2>2 DEF Allocation
  <1>b. CASE Wipe
    <2>1. memory' = IF allocated THEN Zeros ELSE memory
      BY <1>b, WipeEffect
    <2>2. pc = "wipe" /\ pc' = "free" /\ UNCHANGED <<allocated, active, lost, sent>>
      BY <1>b DEF Wipe
    <2> QED
      BY <1>0, <2>1, <2>2 DEF Allocation
  <1> USE <1>0 DEF Allocation, enclave, flags, ServicesTypeOK
  <1>c. CASE MonitorAndAllocate
    <2>1. active' = active /\ memory' = Zeros /\ sent' = <<>>
      BY <1>c DEF MonitorAndAllocate
    <2>2. \/ pc' = "zero" /\ allocated' /\ ~lost'
          \/ pc' = "ready" /\ ~allocated' /\ lost' = active
      BY <1>c DEF MonitorAndAllocate, Returns
    <2> QED
      BY <2>1, <2>2
  <1>d. CASE Pack
    BY <1>d, PackEffect
  <1>1. CASE BackendReady \/ BackendFails
    BY <1>1 DEF BackendReady, BackendFails, Returns
  <1>e. CASE SendReturns
    <2>1. pc = "swap" /\ pc' = "ready" /\ UNCHANGED enclave
      BY <1>e DEF SendReturns, Returns
    <2> QED
      BY <2>1
  <1>2. CASE Send \/ Swap
    BY <1>2 DEF Send, Swap
  <1>f. CASE SwapFaults
    <2>1. pc' = "dead" /\ UNCHANGED enclave
      BY <1>f DEF SwapFaults
    <2> QED
      BY <2>1
  <1>3. CASE Receive \/ Unpack
    <2>1. CASE Receive
      BY <2>1 DEF Receive
    <2>2. CASE Unpack
      <3>1. pc = "unpack" /\ pc' = "ready" /\ UNCHANGED enclave
        BY <2>2 DEF Unpack, Returns
      <3> QED
        BY <3>1
    <2> QED
      BY <1>3, <2>1, <2>2
  <1>4. CASE Immediate
    BY <1>4, ImmediateKeeps
  <1>5. CASE Shutdown \/ Free \/ ProcessEnds \/ Restart
    BY <1>5 DEF Shutdown, Free, ProcessEnds, Restart, Returns
  <1>6. CASE UNCHANGED vars
    BY <1>6 DEF vars
  <1> QED
    BY <1>a, <1>b, <1>c, <1>d, <1>e, <1>f, <1>1, <1>2, <1>3, <1>4, <1>5, <1>6 DEF Next, Immediate

LEMMA StepCallInv == AccessInv /\ [Next]_vars => CallInv'
  <1> SUFFICES ASSUME AccessInv, [Next]_vars PROVE CallInv'
    OBVIOUS
  <1>0. CallInv /\ ServicesTypeOK
    BY DEF AccessInv
  <1> USE <1>0 DEF CallInv, enclave, flags, ServicesTypeOK
  <1>1. CASE MonitorAndAllocate \/ ZeroEnclave \/ BackendReady \/ BackendFails
    BY <1>1 DEF MonitorAndAllocate, ZeroEnclave, BackendReady, BackendFails, Returns
  <1>2. CASE Send
    <2>1. PICK m \in Messages \ {NULL}, vm \in BOOLEAN :
            /\ Len(m) <= DATA_BUFFER_SIZE
            /\ call' = [message |-> m, size |-> Len(m), vm |-> vm]
      BY <1>2 DEF Send
    <2>2. Len(m) \in 1 .. DATA_BUFFER_SIZE
      BY <2>1, MessageFacts, EnclaveAssumption
    <2> QED
      BY <1>2, <2>1, <2>2 DEF Send
  <1>3. CASE Pack
    BY <1>3, EnclaveAssumption DEF Pack
  <1>4. CASE Swap
    BY <1>4, EnclaveAssumption DEF Swap
  <1>5. CASE SendReturns \/ Unpack
    BY <1>5 DEF SendReturns, Unpack, Returns
  <1>6. CASE Receive
    BY <1>6 DEF Receive, NoCall
  <1>7. CASE Immediate
    BY <1>7, ImmediateKeeps
  <1>8. CASE SwapFaults \/ Shutdown \/ Wipe \/ Free \/ ProcessEnds \/ Restart
    BY <1>8 DEF SwapFaults, Shutdown, Wipe, Free, ProcessEnds, Restart, Returns
  <1>9. CASE UNCHANGED vars
    BY <1>9 DEF vars
  <1> QED
    BY <1>1, <1>2, <1>3, <1>4, <1>5, <1>6, <1>7, <1>8, <1>9 DEF Next, Immediate

(* The allocation and the argument checks are inductive.                   *)
THEOREM AccessInvariance == Spec => []AccessInv
  <1>1. AccessInv /\ [Next]_vars => AccessInv'
    BY StepTypes, StepAllocation, StepCallInv DEF AccessInv
  <1> QED
    BY <1>1, InitAccessInv, PTL DEF Spec

THEOREM ServicesTypes == Spec => []ServicesTypeOK
  BY AccessInvariance, PTL DEF AccessInv

(* Whatever order the calls come in, the packer is given messages and      *)
(* sizes it accepts, inside the enclave, and NULL for the enclave only     *)
(* after a failed initialisation of one that was active.                   *)
THEOREM PackerAlwaysAccepts == Spec => []PackerAccepts
  <1>1. AccessInv => PackerAccepts
    BY EnclaveAssumption DEF AccessInv, Allocation, CallInv, PackerAccepts
  <1> QED
    BY <1>1, AccessInvariance, PTL

(* What init, send_data and receive_data test of the packer's results      *)
(* before they go on.                                                      *)
ResultsPass ==
  /\ pc = "pack" => \A o \in Packer!Outcomes(PackCall, avx512, VECTOR) : o.result >= 0
  /\ pc = "unpack" => \A o \in Packer!Outcomes(UnpackCall, FALSE, VECTOR) : o.result >= 0
  /\ pc = "zero" => \A o \in Packer!Outcomes(ZeroCall, FALSE, VECTOR) : o.result = ENCLAVE_SIZE

(* The tests never fail, with memory behind the enclave or without: a      *)
(* refused pack is as good to send_data as a pack, and a refused unpack as *)
(* an unpack to receive_data.  The -2 of init and the -3 of the other two  *)
(* do not occur, so that the model loses nothing where Pack, Unpack and    *)
(* ZeroEnclave go on.                                                      *)
THEOREM ResultsAlwaysPass == Spec => []ResultsPass
  <1>1. AccessInv => ResultsPass
    <2> SUFFICES ASSUME AccessInv PROVE ResultsPass
      OBVIOUS
    <2>0. /\ Allocation /\ CallInv
          /\ DATA_BUFFER_SIZE \in Nat /\ ENCLAVE_SIZE \in Nat \ {0}
      BY EnclaveAssumption DEF AccessInv
    <2>1. ASSUME pc = "pack", NEW o \in Packer!Outcomes(PackCall, avx512, VECTOR)
          PROVE  o.result >= 0
      <3>1. PackCall.size = call.size /\ call.size >= 0
        BY <2>0, <2>1 DEF CallInv, PackCall
      <3>2. o.result \in {PackCall.size, 0, Packer!MinusOneInEax}
        BY DEF Packer!Outcomes, Packer!Lost, Packer!Rejection
      <3>3. Packer!MinusOneInEax >= 0
        BY <2>0 DEF Packer!MinusOneInEax
      <3> QED
        BY <3>1, <3>2, <3>3
    <2>2. ASSUME pc = "unpack", NEW o \in Packer!Outcomes(UnpackCall, FALSE, VECTOR)
          PROVE  o.result >= 0
      <3>1. UnpackCall.size = call.size /\ call.size >= 0 /\ UnpackCall.fn = "unpack"
        BY <2>0, <2>2 DEF CallInv, UnpackCall
      <3>2. o.result \in {UnpackCall.size, 0}
        BY <3>1 DEF Packer!Outcomes, Packer!Lost, Packer!Rejection
      <3> QED
        BY <3>1, <3>2
    <2>3. ASSUME pc = "zero", NEW o \in Packer!Outcomes(ZeroCall, FALSE, VECTOR)
          PROVE  o.result = ENCLAVE_SIZE
      <3>1. Packer!Runs(ZeroCall) /\ ZeroCall.size = ENCLAVE_SIZE
        BY <2>0, <2>3 DEF Allocation, ZeroCall, Packer!Runs, Packer!Nulls
      <3> QED
        BY <3>1 DEF Packer!Outcomes
    <2> QED
      BY <2>1, <2>2, <2>3 DEF ResultsPass
  <1> QED
    BY <1>1, AccessInvariance, PTL

(* A buffer is let go only full of zeros, except by an initialisation that *)
(* finds the enclave active.                                               *)
THEOREM AlwaysWiped == Spec => WipedBeforeFree
  <1>1. AccessInv /\ [Next]_vars
          => (allocated /\ pc # "dead" /\ (~allocated' \/ pc' = "zero")
                => memory = Zeros \/ (pc = "ready" /\ active))
    <2> SUFFICES ASSUME AccessInv, [Next]_vars,
                        allocated, pc # "dead", ~allocated' \/ pc' = "zero"
                 PROVE  memory = Zeros \/ (pc = "ready" /\ active)
      OBVIOUS
    <2>0. Allocation
      BY DEF AccessInv
    <2>1. CASE MonitorAndAllocate
      BY <2>0, <2>1 DEF Allocation, MonitorAndAllocate
    <2>2. CASE Free
      BY <2>0, <2>2 DEF Allocation, Free
    <2>3. CASE Restart
      BY <2>3 DEF Restart
    <2>4. CASE Immediate
      BY <2>4, ImmediateKeeps DEF enclave
    <2>5. CASE Next /\ ~(MonitorAndAllocate \/ Free \/ Restart \/ Immediate)
      <3>1. allocated' = allocated /\ pc' # "zero"
        BY <2>5 DEF Next, Immediate, enclave, ZeroEnclave, BackendReady, BackendFails, Send, Pack,
           Swap, SwapFaults, SendReturns, Receive, Unpack, Shutdown, Wipe, ProcessEnds, Returns
      <3> QED
        BY <3>1
    <2>6. CASE UNCHANGED vars
      BY <2>0, <2>6 DEF vars, Allocation
    <2> QED
      BY <2>1, <2>2, <2>3, <2>4, <2>5, <2>6
  <1> QED
    BY <1>1, AccessInvariance, PTL DEF Spec, WipedBeforeFree
-----------------------------------------------------------------------------
(* What is in the enclave, and halfway through the reversal.               *)
Stored == \A k \in Offsets : FromLast(k, memory[k])

Reversing ==
  \A k \in Offsets :
    IF k < call.size
    THEN memory[k] = call.message[IF k < swapped \/ k > call.size - 1 - swapped
                                  THEN call.size - k ELSE k + 1]
    ELSE FromLast(k, memory[k])

Holding == {"ready", "backend", "pack", "unpack"}

MailboxInv ==
  /\ allocated /\ pc \in Holding => Stored
  /\ allocated /\ pc = "swap" => Reversing
  /\ allocated /\ pc = "ready" =>
       \A k \in 1 .. Len(got) : k - 1 \in Offsets /\ FromLast(k - 1, got[k])
  /\ ~allocated /\ pc = "ready" => \A k \in 1 .. Len(got) : got[k] = Packer!Untouched

LEMMA FromLastKept ==
  ASSUME NEW k, NEW b, UNCHANGED sent
  PROVE  FromLast(k, b)' <=> FromLast(k, b)
  BY DEF FromLast

LEMMA EmptyEnclave ==
  ASSUME NEW k \in Offsets, sent = <<>>
  PROVE  FromLast(k, 0)
  BY DEF FromLast

(* Accepting a message puts it before everything shorter.                  *)
LEMMA AcceptedMessage ==
  ASSUME sent \in Seq(Messages), NEW m \in Messages, sent' = Append(sent, m),
         NEW k \in Nat, k < Len(m)
  PROVE  FromLast(k, m[Len(m) - k])'
  <1>1. Len(sent') = Len(sent) + 1 /\ sent'[Len(sent) + 1] = m /\ Len(sent) \in Nat
    OBVIOUS
  <1> QED
    BY <1>1 DEF FromLast

LEMMA ShorterMessage ==
  ASSUME sent \in Seq(Messages), NEW m \in Messages, sent' = Append(sent, m),
         NEW k \in Nat, Len(m) <= k, NEW b, FromLast(k, b)
  PROVE  FromLast(k, b)'
  <1>1. /\ Len(sent') = Len(sent) + 1 /\ sent'[Len(sent) + 1] = m /\ Len(sent) \in Nat
        /\ \A j \in 1 .. Len(sent) : sent'[j] = sent[j]
    OBVIOUS
  <1>2. CASE b = 0 /\ \A j \in 1 .. Len(sent) : Len(sent[j]) <= k
    BY <1>1, <1>2 DEF FromLast
  <1>3. CASE \E j \in 1 .. Len(sent) :
               /\ k < Len(sent[j])
               /\ \A l \in j + 1 .. Len(sent) : Len(sent[l]) <= k
               /\ b = sent[j][Len(sent[j]) - k]
    <2>1. PICK j \in 1 .. Len(sent) :
               /\ k < Len(sent[j])
               /\ \A l \in j + 1 .. Len(sent) : Len(sent[l]) <= k
               /\ b = sent[j][Len(sent[j]) - k]
      BY <1>3
    <2>2. /\ j \in 1 .. Len(sent')
          /\ k < Len(sent'[j])
          /\ b = sent'[j][Len(sent'[j]) - k]
      BY <1>1, <2>1
    <2>3. \A l \in j + 1 .. Len(sent') : Len(sent'[l]) <= k
      <3> TAKE l \in j + 1 .. Len(sent')
      <3>1. l = Len(sent) + 1 \/ l \in j + 1 .. Len(sent)
        BY <1>1
      <3>2. l \in j + 1 .. Len(sent) => l \in 1 .. Len(sent)
        BY <1>1
      <3> QED
        BY <1>1, <2>1, <3>1, <3>2
    <2> QED
      BY <2>2, <2>3 DEF FromLast
  <1> QED
    BY <1>2, <1>3 DEF FromLast

LEMMA Halves ==
  ASSUME NEW n \in Nat
  PROVE  n = 2 * (n \div 2) \/ n = 2 * (n \div 2) + 1
  OBVIOUS

(* One pass of the loop.                                                   *)
LEMMA SwapReverses ==
  ASSUME AccessInv, Swap, Reversing
  PROVE  Reversing'
  <1>1. /\ call.size \in Nat /\ swapped \in Nat
        /\ swapped < call.size \div 2 /\ swapped' = swapped + 1
        /\ call.size <= ENCLAVE_SIZE /\ ENCLAVE_SIZE \in Nat
        /\ call' = call /\ sent' = sent
        /\ memory \in [Offsets -> Bytes \cup {0}]
    BY EnclaveAssumption DEF AccessInv, ServicesTypeOK, CallInv, Swap, flags
  <1> DEFINE n == call.size
             i == swapped
  <1>2. 2 * i + 2 <= n
    BY <1>1
  <1>3. /\ i \in Offsets /\ n - 1 - i \in Offsets
        /\ memory' = [memory EXCEPT ![i] = memory[n - 1 - i], ![n - 1 - i] = memory[i]]
    BY <1>1, <1>2 DEF Swap, Offsets
  <1>4. memory[i] = call.message[i + 1] /\ memory[n - 1 - i] = call.message[n - i]
    <2>1. ~(i < i) /\ ~(i > n - 1 - i) /\ i < n
      BY <1>1, <1>2
    <2>2. ~(n - 1 - i < i) /\ ~(n - 1 - i > n - 1 - i) /\ n - 1 - i < n /\ n - 1 - i + 1 = n - i
      BY <1>1, <1>2
    <2> QED
      BY <1>3, <2>1, <2>2 DEF Reversing
  <1> SUFFICES ASSUME NEW k \in Offsets
               PROVE  IF k < n
                      THEN memory'[k] = call.message[IF k < i + 1 \/ k > n - 1 - (i + 1)
                                                     THEN n - k ELSE k + 1]
                      ELSE FromLast(k, memory[k])'
    BY <1>1 DEF Reversing
  <1>5. CASE k = i
    BY <1>1, <1>2, <1>3, <1>4, <1>5
  <1>6. CASE k = n - 1 - i
    BY <1>1, <1>2, <1>3, <1>4, <1>6
  <1>7. CASE k # i /\ k # n - 1 - i
    <2>1. memory'[k] = memory[k]
      BY <1>1, <1>3, <1>7
    <2>2. CASE k < n
      <3>1. k \in Nat
        BY <1>1 DEF Offsets
      <3>2. (k < i + 1 \/ k > n - 1 - (i + 1)) <=> (k < i \/ k > n - 1 - i)
        BY <1>1, <1>7, <3>1
      <3> QED
        BY <2>1, <2>2, <3>2 DEF Reversing
    <2>3. CASE ~(k < n)
      BY <1>1, <2>1, <2>3, FromLastKept DEF Reversing
    <2> QED
      BY <2>2, <2>3
  <1> QED
    BY <1>5, <1>6, <1>7

(* After the last pass the message is there backwards.                     *)
LEMMA ReversedFully ==
  ASSUME AccessInv, Reversing, swapped = call.size \div 2, NEW k \in Offsets, k < call.size
  PROVE  memory[k] = call.message[call.size - k]
  <1>1. call.size \in Nat /\ swapped \in Nat /\ k \in Nat
    BY DEF AccessInv, ServicesTypeOK, Offsets
  <1>2. call.size = 2 * swapped \/ call.size = 2 * swapped + 1
    BY <1>1, Halves
  <1>3. k < swapped \/ k > call.size - 1 - swapped \/ call.size - k = k + 1
    BY <1>1, <1>2
  <1> QED
    BY <1>3 DEF Reversing

LEMMA StepMailboxInv == AccessInv /\ MailboxInv /\ [Next]_vars => MailboxInv'
  <1> SUFFICES ASSUME AccessInv, MailboxInv, [Next]_vars PROVE MailboxInv'
    OBVIOUS
  <1>0. ServicesTypeOK /\ Allocation /\ CallInv
    BY DEF AccessInv
  <1>a. UNCHANGED <<memory, sent>> => (Stored <=> Stored')
    BY FromLastKept DEF Stored
  <1>b. Len(<<>>) = 0
    OBVIOUS
  <1> USE <1>b DEF MailboxInv, Holding, enclave, flags
  <1>1. CASE MonitorAndAllocate
    BY <1>1 DEF MonitorAndAllocate, Returns
  <1>2. CASE ZeroEnclave
    <2>1. sent' = <<>> /\ memory' = Zeros
      BY <1>0, <1>2, ZeroEnclaveEffect DEF ZeroEnclave, Allocation
    <2>2. Stored'
      BY <2>1 DEF Stored, Zeros, FromLast
    <2> QED
      BY <1>2, <2>2 DEF ZeroEnclave
  <1>3. CASE BackendReady \/ BackendFails
    <2>1. got' = <<>> /\ pc = "backend" /\ pc' = "ready" /\ UNCHANGED <<enclave, sent>>
      BY <1>0, <1>3 DEF BackendReady, BackendFails, CallInv, Returns
    <2> QED
      BY <1>a, <1>0, <2>1 DEF Allocation
  <1>4. CASE Send \/ Receive
    BY <1>a, <1>4 DEF Send, Receive
  <1>5. CASE Immediate
    BY <1>a, <1>5, ImmediateKeeps
  <1>6. CASE Pack
    <2>1. /\ pc' \in {"swap", "dead"} /\ allocated' = allocated
          /\ allocated => Stored
          /\ swapped = 0 /\ swapped' = 0 /\ call' = call /\ sent' = sent
          /\ call.size \in Nat
      BY <1>0, <1>6, PackEffect DEF CallInv, ServicesTypeOK
    <2>2. ASSUME allocated, pc' = "swap", NEW k \in Offsets
          PROVE  memory'[k] = IF k < call.size THEN call.message[k + 1] ELSE memory[k]
      BY <1>6, <2>2, PackEffect
    <2>3. \A k \in Offsets : k \in Nat
      BY DEF Offsets
    <2>4. allocated /\ pc' = "swap" => Reversing'
      BY <2>1, <2>2, <2>3, FromLastKept DEF Reversing, Stored
    <2> QED
      BY <2>1, <2>4
  <1>7. CASE Swap
    BY <1>7, SwapReverses DEF Swap
  <1>8. CASE SendReturns
    <2> DEFINE m == call.message
    <2>0. pc = "swap" /\ pc' = "ready" /\ allocated' = allocated /\ got' = <<>>
      BY <1>0, <1>8 DEF SendReturns, CallInv, Returns
    <2> SUFFICES ASSUME allocated PROVE Stored'
      BY <2>0
    <2>1. /\ m \in Messages /\ call.size = Len(m) /\ sent \in Seq(Messages)
          /\ sent' = Append(sent, m) /\ memory' = memory
          /\ Reversing /\ swapped = call.size \div 2
      BY <1>0, <1>8 DEF SendReturns, CallInv, ServicesTypeOK
    <2>2. Len(m) \in Nat /\ \A k \in Offsets : k \in Nat
      BY <2>1, MessageFacts DEF Offsets
    <2>3. ASSUME NEW k \in Offsets, k < Len(m) PROVE memory[k] = m[Len(m) - k]
      BY <2>1, <2>3, ReversedFully
    <2>4. ASSUME NEW k \in Offsets, ~(k < Len(m)) PROVE Len(m) <= k /\ FromLast(k, memory[k])
      BY <2>1, <2>2, <2>4 DEF Reversing
    <2> SUFFICES ASSUME NEW k \in Offsets PROVE FromLast(k, memory[k])'
      BY DEF Stored
    <2>5. CASE k < Len(m)
      BY <2>1, <2>2, <2>3, <2>5, AcceptedMessage
    <2>6. CASE ~(k < Len(m))
      BY <2>1, <2>2, <2>4, <2>6, ShorterMessage
    <2> QED
      BY <2>5, <2>6
  <1>9. CASE Unpack
    <2>1. /\ call.size \in 1 .. ENCLAVE_SIZE /\ pc = "unpack" /\ pc' = "ready"
          /\ UNCHANGED <<enclave, sent>>
      BY <1>0, <1>9, EnclaveAssumption DEF Unpack, CallInv, Returns
    <2>2. got' = [k \in 1 .. call.size |-> IF allocated THEN memory[k - 1] ELSE Packer!Untouched]
      BY <1>9, UnpackEffect
    <2>3. Len(got') = call.size
      BY <2>1, <2>2
    <2>4. ASSUME allocated, NEW k \in 1 .. Len(got)'
          PROVE  k - 1 \in Offsets /\ FromLast(k - 1, got[k])'
      <3>1. Stored /\ k - 1 \in Offsets /\ got'[k] = memory[k - 1]
        BY <2>1, <2>2, <2>3, <2>4, EnclaveAssumption DEF Offsets
      <3> QED
        BY <2>1, <3>1, FromLastKept DEF Stored
    <2>5. ASSUME ~allocated, NEW k \in 1 .. Len(got)' PROVE got'[k] = Packer!Untouched
      BY <2>1, <2>2, <2>3, <2>5
    <2> QED
      BY <1>a, <2>1, <2>4, <2>5
  <1>10. CASE SwapFaults \/ Shutdown \/ Wipe \/ ProcessEnds
    <2>1. pc' \in {"dead", "wipe", "free"}
      BY <1>10 DEF SwapFaults, Shutdown, Wipe, ProcessEnds
    <2> QED
      BY <2>1
  <1>11. CASE Free \/ Restart
    <2>1. pc' = "ready" /\ ~allocated' /\ got' = <<>>
      BY <1>0, <1>11 DEF Free, Restart, Returns, CallInv
    <2> QED
      BY <2>1
  <1>12. CASE UNCHANGED vars
    BY <1>a, <1>12, FromLastKept DEF vars, Reversing
  <1> QED
    BY <1>1, <1>2, <1>3, <1>4, <1>5, <1>6, <1>7, <1>8, <1>9, <1>10, <1>11, <1>12
    DEF Next, Immediate

(* Between two calls the enclave, and what was last received from it, is   *)
(* the last message reversed and behind it what longer ones have left.     *)
THEOREM MailboxIsKept == Spec => []MailboxKept
  <1>1. Init => MailboxInv
    BY DEF Init, MailboxInv
  <1>2. AccessInv /\ MailboxInv => MailboxKept
    BY DEF AccessInv, ServicesTypeOK, MailboxInv, Holding, Stored, MailboxKept
  <1> QED
    BY <1>1, <1>2, StepMailboxInv, AccessInvariance, PTL DEF Spec

-----------------------------------------------------------------------------
(* The enclave as a mailbox, step by step.                                 *)
LEMMA ContentsOf ==
  /\ IsOpen /\ pc # "swap" => Contents = memory
  /\ IsOpen /\ pc = "swap" => Contents = [k \in Offsets |-> IF k < call.size
                                                           THEN call.message[call.size - k]
                                                           ELSE memory[k]]
  /\ ~IsOpen => Contents = Zeros
  BY DEF Contents

LEMMA ClosedBox == Enclave!Empty = Zeros
  BY DEF Enclave!Empty, Zeros, Offsets

LEMMA CloseStep ==
  ASSUME IsOpen, ~IsOpen'
  PROVE  Enclave!Close
  BY ContentsOf, ClosedBox DEF Enclave!Close, Contents

LEMMA ClosedStutters ==
  ASSUME ~IsOpen, ~IsOpen'
  PROVE  UNCHANGED Enclave!mailboxVars
  <1>1. Contents = Zeros /\ Contents' = Zeros
    BY ContentsOf DEF Contents, Zeros, Offsets
  <1> QED
    BY <1>1 DEF Enclave!mailboxVars, IsOpen

(* A call begins: the box stays.                                           *)
LEMMA BeginStep ==
  ASSUME pc # "swap", pc' # "swap", IsOpen' = IsOpen, memory' = memory, got' = <<>>
  PROVE  Enclave!Begin
  <1>1. Contents' = Contents
    BY DEF Contents, Zeros, Offsets
  <1> QED
    BY <1>1 DEF Enclave!Begin

(* The message counts from when it has been packed.                        *)
LEMMA PackIsPut ==
  ASSUME AccessInv, Pack, pc' = "swap", allocated
  PROVE  Enclave!Put
  <1>1. /\ IsOpen /\ IsOpen' /\ Contents = memory /\ got' = got
        /\ call' = call /\ call.message \in Messages /\ call.size = Len(call.message)
        /\ call.size \in 1 .. DATA_BUFFER_SIZE
    BY ContentsOf, PackEffect DEF AccessInv, Allocation, CallInv, IsOpen
  <1>2. ASSUME NEW k \in Offsets, ~(k < call.size)
        PROVE  memory'[k] = memory[k]
    BY <1>2, PackEffect
  <1>3. Contents' = [k \in Offsets |-> IF k < call.size THEN call.message[call.size - k]
                                                      ELSE memory'[k]]
    BY <1>1 DEF Contents, IsOpen, Offsets
  <1>4. Contents' = Enclave!Over(call.message, Contents)
    BY <1>1, <1>2, <1>3 DEF Enclave!Over, Offsets
  <1> QED
    BY <1>1, <1>4 DEF Enclave!Put

(* The passes of the reversal are not seen, nor is its end.                *)
LEMMA SwapIsUnseen ==
  ASSUME AccessInv, Swap
  PROVE  Contents' = Contents
  <1>0. IsOpen /\ IsOpen'
    BY DEF AccessInv, Allocation, Swap, IsOpen
  <1>1. /\ call' = call /\ call.size \in Nat /\ swapped \in Nat
        /\ swapped < call.size \div 2 /\ pc = "swap" /\ pc' = "swap"
        /\ memory \in [Offsets -> Bytes \cup {0}]
        /\ memory' = [memory EXCEPT ![swapped] = memory[call.size - 1 - swapped],
                                    ![call.size - 1 - swapped] = memory[swapped]]
    BY DEF AccessInv, ServicesTypeOK, Swap
  <1>2. ASSUME NEW k \in Offsets, ~(k < call.size)
        PROVE  memory'[k] = memory[k]
    <2>1. k \in Nat /\ k # swapped /\ k # call.size - 1 - swapped
      BY <1>1, <1>2, Halves DEF Offsets
    <2> QED
      BY <1>1, <2>1
  <1>3. Contents' = [k \in Offsets |-> IF k < call.size THEN call.message[call.size - k]
                                                      ELSE memory'[k]]
    BY <1>0, <1>1 DEF Contents, Offsets
  <1>4. Contents = [k \in Offsets |-> IF k < call.size THEN call.message[call.size - k]
                                                     ELSE memory[k]]
    BY <1>0, <1>1, ContentsOf
  <1> QED
    BY <1>2, <1>3, <1>4

LEMMA SendReturnIsUnseen ==
  ASSUME AccessInv, MailboxInv, SendReturns, allocated
  PROVE  Contents' = Contents
  <1>1. /\ pc = "swap" /\ pc' = "ready" /\ active /\ active' /\ allocated' /\ memory' = memory
        /\ Reversing /\ swapped = call.size \div 2
        /\ memory \in [Offsets -> Bytes \cup {0}]
    BY DEF AccessInv, ServicesTypeOK, Allocation, MailboxInv, SendReturns, Returns, enclave
  <1>2. Contents' = memory
    BY <1>1 DEF Contents, IsOpen
  <1>3. Contents = [k \in Offsets |-> IF k < call.size THEN call.message[call.size - k]
                                                     ELSE memory[k]]
    BY <1>1, ContentsOf DEF IsOpen
  <1>4. \A k \in Offsets : k < call.size => memory[k] = call.message[call.size - k]
    BY <1>1, ReversedFully
  <1> QED
    BY <1>1, <1>2, <1>3, <1>4

LEMMA UnpackIsTake ==
  ASSUME AccessInv, Unpack, allocated
  PROVE  Enclave!Take
  <1>1. /\ IsOpen /\ IsOpen' /\ Contents = memory /\ memory' = memory /\ pc' = "ready"
        /\ call.size \in 1 .. DATA_BUFFER_SIZE
        /\ got' = [k \in 1 .. call.size |-> memory[k - 1]]
    BY ContentsOf, UnpackEffect
    DEF AccessInv, Allocation, CallInv, Unpack, IsOpen, Returns, enclave
  <1>2. Contents' = Contents
    BY <1>1 DEF Contents
  <1> QED
    BY <1>1, <1>2 DEF Enclave!Take

LEMMA StepIsMailboxStep ==
  AccessInv /\ MailboxInv /\ [Next]_vars => [Enclave!Next]_Enclave!mailboxVars
  <1> SUFFICES ASSUME AccessInv, MailboxInv, [Next]_vars
               PROVE  [Enclave!Next]_Enclave!mailboxVars
    OBVIOUS
  <1>0. ServicesTypeOK /\ Allocation /\ CallInv
    BY DEF AccessInv
  <1> USE DEF enclave, flags
  <1>a. ~IsOpen' => [Enclave!Next]_Enclave!mailboxVars
    BY CloseStep, ClosedStutters DEF Enclave!Next
  <1>1. CASE MonitorAndAllocate
    <2>1. ~IsOpen'
      BY <1>1 DEF MonitorAndAllocate, Returns, IsOpen
    <2> QED
      BY <1>a, <2>1
  <1>2. CASE ZeroEnclave
    <2>1. /\ ~IsOpen /\ IsOpen' /\ pc # "swap" /\ pc' # "swap"
          /\ memory' = Zeros /\ got' = <<>>
      BY <1>0, <1>2, ZeroEnclaveEffect DEF ZeroEnclave, IsOpen, CallInv, Allocation
    <2>2. Contents = Zeros /\ Contents' = Zeros
      BY <2>1, ContentsOf DEF Contents
    <2>3. Enclave!Open
      BY <2>1, <2>2 DEF Enclave!Open
    <2> QED
      BY <2>3 DEF Enclave!Next
  <1>3. CASE BackendReady \/ BackendFails
    <2>1. /\ IsOpen /\ IsOpen' /\ pc # "swap" /\ pc' # "swap"
          /\ memory' = memory /\ got' = <<>>
      BY <1>0, <1>3 DEF BackendReady, BackendFails, Returns, IsOpen, Allocation, CallInv
    <2> QED
      BY <2>1, BeginStep DEF Enclave!Next
  <1>4. CASE Send \/ Receive
    <2>1. /\ IsOpen' = IsOpen /\ pc # "swap" /\ pc' # "swap"
          /\ memory' = memory /\ got' = <<>>
      BY <1>4 DEF Send, Receive, IsOpen
    <2> QED
      BY <2>1, BeginStep DEF Enclave!Next
  <1>5. CASE Immediate
    <2>1. /\ pc = "ready" /\ pc' = "ready" /\ active' = active /\ allocated' = allocated
          /\ memory' = memory /\ got' = <<>>
      BY <1>5, ImmediateKeeps
    <2>2. IsOpen' = IsOpen
      BY <2>1 DEF IsOpen
    <2> QED
      BY <2>1, <2>2, BeginStep DEF Enclave!Next
  <1>6. CASE Pack
    <2>1. CASE ~allocated \/ pc' = "dead"
      <3>1. ~IsOpen'
        BY <1>6, <2>1 DEF Pack, IsOpen
      <3> QED
        BY <1>a, <3>1
    <2>2. CASE allocated /\ pc' # "dead"
      BY <1>6, <2>2, PackEffect, PackIsPut DEF Enclave!Next
    <2> QED
      BY <2>1, <2>2
  <1>7. CASE Swap \/ SendReturns
    <2>1. CASE allocated
      <3>1. IsOpen /\ IsOpen' /\ got' = got
        BY <1>0, <1>7, <2>1 DEF Swap, SendReturns, Returns, IsOpen, Allocation
      <3>2. Contents' = Contents
        BY <1>7, <2>1, SwapIsUnseen, SendReturnIsUnseen
      <3> QED
        BY <3>1, <3>2 DEF Enclave!mailboxVars
    <2>2. CASE ~allocated
      BY <1>a, <1>7, <2>2 DEF Swap, SendReturns, IsOpen
    <2> QED
      BY <2>1, <2>2
  <1>8. CASE Unpack
    <2>1. CASE allocated
      BY <1>8, <2>1, UnpackIsTake DEF Enclave!Next
    <2>2. CASE ~allocated
      BY <1>a, <1>8, <2>2 DEF Unpack, IsOpen
    <2> QED
      BY <2>1, <2>2
  <1>9. CASE SwapFaults \/ Shutdown \/ ProcessEnds
    <2>1. ~IsOpen'
      BY <1>9 DEF SwapFaults, Shutdown, ProcessEnds, IsOpen
    <2> QED
      BY <1>a, <2>1
  <1>10. CASE Wipe \/ Free \/ Restart
    <2>1. ~IsOpen'
      BY <1>10 DEF Wipe, Free, Restart, Returns, IsOpen
    <2> QED
      BY <1>a, <2>1
  <1>11. CASE UNCHANGED vars
    <2>1. IsOpen' = IsOpen /\ Contents' = Contents /\ got' = got
      BY <1>11 DEF vars, IsOpen, Contents, Zeros, Offsets
    <2> QED
      BY <2>1 DEF Enclave!mailboxVars
  <1> QED
    BY <1>1, <1>2, <1>3, <1>4, <1>5, <1>6, <1>7, <1>8, <1>9, <1>10, <1>11
    DEF Next, Immediate

(* The enclave buffer is a mailbox, for any sizes and messages: a send is  *)
(* one step although it packs and then swaps byte by byte, and nothing of  *)
(* an earlier enclave is in a later one.                                   *)
THEOREM EnclaveIsMailbox == Spec => ImplementsMailbox
  <1>1. Init => Enclave!Init
    BY ContentsOf, ClosedBox DEF Init, Enclave!Init, IsOpen
  <1>2. Init => MailboxInv
    BY DEF Init, MailboxInv
  <1>3. Spec => [](AccessInv /\ MailboxInv)
    BY <1>2, StepMailboxInv, AccessInvariance, PTL DEF Spec
  <1> QED
    BY <1>1, <1>3, StepIsMailboxStep, PTL DEF Spec, ImplementsMailbox, Enclave!Spec
=============================================================================

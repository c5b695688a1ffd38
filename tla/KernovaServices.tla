---------------------------- MODULE KernovaServices ----------------------------
(***************************************************************************)
(* What main.cpp offers inside one process: the enclave buffer with        *)
(* send_data and receive_data, the monitor, and vmcall_handler in front of *)
(* them.  The public functions may be called in any order, by main, by a   *)
(* program that embeds them or by a VM-exit handler: hypervisor_init too,  *)
(* which does not ask whether there is an enclave already.  One call is    *)
(* served at a time.  The packing routines are used by the outcomes        *)
(* PackerCalls lists, which SimdPacker is shown to keep to.                *)
(***************************************************************************)
EXTENDS Integers, Sequences

CONSTANTS
  ENCLAVE_SIZE,      \* config::ENCLAVE_SIZE
  DATA_BUFFER_SIZE,  \* config::DATA_BUFFER_SIZE
  VECTOR,            \* bytes of an AVX-512 block
  WORD,              \* 2^64: vmcall_handler returns an unsigned number
  Bytes,             \* the byte values messages are made of
  Messages,          \* the messages callers send: sequences of Bytes
  Params,            \* the operands of an echo
  Avx512,            \* what CPUID may say of AVX-512
  MaxSends           \* bound on the messages sent to one enclave

ASSUME EnclaveAssumption ==
  /\ ENCLAVE_SIZE \in Nat \ {0}
  /\ DATA_BUFFER_SIZE \in 0 .. ENCLAVE_SIZE
  /\ VECTOR \in Nat \ {0}
  /\ WORD \in Nat \ {0}
  /\ Messages \subseteq Seq(Bytes)
  /\ Params \subseteq 0 .. WORD - 1
  /\ Avx512 \subseteq BOOLEAN
  /\ MaxSends \in Nat

Offsets == 0 .. ENCLAVE_SIZE - 1
Zeros == [k \in Offsets |-> 0]

VARIABLES
  avx512,
  allocated,      \* g_enclave.data # nullptr
  memory,         \* the bytes it points to
  active,         \* g_hv_state.enclave_active
  lost,           \* auxiliary: the last initialisation found the enclave active and
                  \* failed to allocate: enclave_active is set and the pointer NULL
  trace_enabled,  \* g_hv_state.trace_enabled
  pc,
  call,           \* the call being served
  swapped,        \* i in the loop of send_data
  got,            \* what the last receive_data copied out
  answer,         \* the last result
  sent            \* auxiliary: the messages this enclave has accepted

vars ==
  <<avx512, allocated, memory, active, lost, trace_enabled, pc, call, swapped, got, answer, sent>>
enclave == <<allocated, memory, active, lost>>
flags == <<avx512, trace_enabled>>

Labels == {"ready", "zero", "backend", "pack", "swap", "unpack", "wipe", "free", "dead"}
NULL == <<>>

(* vm: the call came through vmcall_handler.                               *)
NoCall == [message |-> NULL, size |-> 0, vm |-> FALSE]

Init ==
  /\ avx512 \in Avx512
  /\ allocated = FALSE
  /\ memory = Zeros
  /\ active = FALSE
  /\ lost = FALSE
  /\ trace_enabled = FALSE
  /\ pc = "ready"
  /\ call = NoCall
  /\ swapped = 0
  /\ got = <<>>
  /\ answer = 0
  /\ sent = <<>>

(* The packer.  What a call has moved is laid over the old bytes.          *)
Packer == INSTANCE PackerCalls WITH Sizes <- 0 .. ENCLAVE_SIZE, Capacity <- ENCLAVE_SIZE

Overlay(o, old, source) ==
  [k \in Offsets |-> CASE o.moved[k] = Packer!Untouched -> old[k]
                       [] o.moved[k] = Packer!Zeroed -> 0
                       [] OTHER -> source[o.moved[k]]]

PackCall == [fn |-> "pack", dest |-> allocated, src |-> TRUE, size |-> call.size, flag |-> TRUE]
UnpackCall == [fn |-> "unpack", dest |-> TRUE, src |-> allocated, size |-> call.size, flag |-> TRUE]
ZeroCall == [fn |-> "zero", dest |-> allocated, src |-> TRUE, size |-> ENCLAVE_SIZE, flag |-> FALSE]

(* The int results of the services become uint64_t in vmcall_handler.      *)
(* Mutant: a result is handed on as it is.                                 *)
ReturnsUnconverted(value, vm) ==
  /\ pc' = "ready"
  /\ call' = NoCall
  /\ answer' = value
  /\ swapped' = 0

Returns(value, vm) ==
  /\ pc' = "ready"
  /\ call' = NoCall
  /\ answer' = IF vm THEN value % WORD ELSE value
  /\ swapped' = 0

-----------------------------------------------------------------------------
(* hypervisor_init: trace_init always succeeds, aligned_alloc may not.     *)
(* Its result is stored in g_enclave.data at once: a buffer that is there  *)
(* is abandoned as it is, and after a failure the pointer is NULL while    *)
(* enclave_active stays what it was.                                       *)
MonitorAndAllocate ==
  /\ pc = "ready"
  /\ trace_enabled' = TRUE
  /\ \/ /\ pc' = "zero"
        /\ allocated' = TRUE
        /\ lost' = FALSE
        /\ UNCHANGED <<call, swapped, answer>>
     \/ /\ Returns(-2, FALSE)
        /\ allocated' = FALSE
        /\ lost' = active
  /\ memory' = Zeros
  /\ sent' = <<>>
  /\ got' = <<>>
  /\ UNCHANGED <<avx512, active>>

(* zero() compares the result with the size; a wipe does not look at it.   *)
ZeroEnclave ==
  /\ pc = "zero"
  /\ \E o \in Packer!Outcomes(ZeroCall, FALSE, VECTOR) :
       o.result = ENCLAVE_SIZE /\ memory' = Overlay(o, memory, memory)
  /\ active' = TRUE
  /\ pc' = "backend"
  /\ UNCHANGED <<flags, allocated, lost, call, swapped, got, answer, sent>>

(* The backend comes up, or hypervisor_init fails and leaves the enclave   *)
(* as it is: a caller other than main can go on with it.                   *)
BackendReady ==
  /\ pc = "backend"
  /\ Returns(0, FALSE)
  /\ UNCHANGED <<flags, enclave, got, sent>>

BackendFails ==
  /\ pc = "backend"
  /\ \E code \in {-3, -4, -5} : Returns(code, FALSE)
  /\ UNCHANGED <<flags, enclave, got, sent>>

-----------------------------------------------------------------------------
(* send_data                                                               *)
Send ==
  /\ pc = "ready"
  /\ active
  /\ \E m \in Messages \ {NULL}, vm \in BOOLEAN :
       /\ Len(m) <= DATA_BUFFER_SIZE
       /\ Len(sent) < MaxSends
       /\ pc' = "pack"
       /\ call' = [message |-> m, size |-> Len(m), vm |-> vm]
  /\ got' = <<>>
  /\ UNCHANGED <<flags, enclave, swapped, answer, sent>>

SendRefused ==
  /\ pc = "ready"
  /\ \E m \in Messages, vm \in BOOLEAN :
       \/ (~active \/ m = NULL) /\ Returns(-1, vm)
       \/ active /\ Len(m) > DATA_BUFFER_SIZE /\ Returns(-2, vm)
  /\ got' = <<>>
  /\ UNCHANGED <<flags, enclave, sent>>

(* simd_pack_data copies the message, or refuses where the pointer is      *)
(* NULL.  What it returns is never negative, so that the -3 of send_data   *)
(* and of receive_data does not occur, and send_data goes on either way.   *)
(* Mutant: the terminating zero of the string is packed as well.           *)
PackLong ==
  /\ pc = "pack"
  /\ \E o \in Packer!Outcomes([PackCall EXCEPT !.size = @ + 1], avx512, VECTOR) :
       /\ o.result >= 0
       /\ memory' = Overlay(o, memory, [k \in 0 .. call.size |->
                                          IF k = call.size THEN 0 ELSE call.message[k + 1]])
       /\ pc' = IF o.back THEN "swap" ELSE "dead"
  /\ UNCHANGED <<flags, allocated, active, lost, call, swapped, got, answer, sent>>

Pack ==
  /\ pc = "pack"
  /\ \E o \in Packer!Outcomes(PackCall, avx512, VECTOR) :
       /\ o.result >= 0
       /\ memory' = Overlay(o, memory, [k \in 0 .. call.size - 1 |-> call.message[k + 1]])
       /\ pc' = IF o.back THEN "swap" ELSE "dead"
  /\ UNCHANGED <<flags, allocated, active, lost, call, swapped, got, answer, sent>>

(* One pass of the loop that reverses the data in place.                   *)
(* Mutant: the other end is taken one byte too far.                        *)
SwapPastEnd ==
  /\ pc = "swap"
  /\ swapped < call.size \div 2
  /\ allocated
  /\ memory' = [memory EXCEPT ![swapped] = memory[call.size - swapped],
                              ![call.size - swapped] = memory[swapped]]
  /\ swapped' = swapped + 1
  /\ UNCHANGED <<flags, allocated, active, lost, pc, call, got, answer, sent>>

Swap ==
  /\ pc = "swap"
  /\ swapped < call.size \div 2
  /\ allocated
  /\ memory' = [memory EXCEPT ![swapped] = memory[call.size - 1 - swapped],
                              ![call.size - 1 - swapped] = memory[swapped]]
  /\ swapped' = swapped + 1
  /\ UNCHANGED <<flags, allocated, active, lost, pc, call, got, answer, sent>>

(* The first pass reads g_enclave.data[0], whatever the pointer is.        *)
SwapFaults ==
  /\ pc = "swap"
  /\ swapped < call.size \div 2
  /\ ~allocated
  /\ pc' = "dead"
  /\ UNCHANGED <<flags, enclave, call, swapped, got, answer, sent>>

SendReturns ==
  /\ pc = "swap"
  /\ swapped = call.size \div 2
  /\ sent' = Append(sent, call.message)
  /\ Returns(0, call.vm)
  /\ UNCHANGED <<flags, enclave, got>>

-----------------------------------------------------------------------------
(* receive_data                                                            *)
Receive ==
  /\ pc = "ready"
  /\ active
  /\ \E n \in 1 .. DATA_BUFFER_SIZE : call' = [NoCall EXCEPT !.size = n]
  /\ pc' = "unpack"
  /\ got' = <<>>
  /\ UNCHANGED <<flags, enclave, swapped, answer, sent>>

ReceiveRefused ==
  /\ pc = "ready"
  /\ \E n \in 0 .. DATA_BUFFER_SIZE + 1, dest \in BOOLEAN :
       \/ (~active \/ ~dest \/ n = 0) /\ Returns(-1, FALSE)
       \/ active /\ dest /\ n > DATA_BUFFER_SIZE /\ Returns(-2, FALSE)
  /\ got' = <<>>
  /\ UNCHANGED <<flags, enclave, sent>>

(* What is not copied leaves the caller's buffer as it was.                *)
Unpack ==
  /\ pc = "unpack"
  /\ \E o \in Packer!Outcomes(UnpackCall, FALSE, VECTOR) :
       /\ o.result >= 0
       /\ got' = [k \in 1 .. call.size |->
                    Overlay(o, [i \in Offsets |-> Packer!Untouched], memory)[k - 1]]
  /\ Returns(0, FALSE)
  /\ UNCHANGED <<flags, enclave, sent>>

-----------------------------------------------------------------------------
(* monitor::check_integrity over what trace_check_integrity may answer,    *)
(* and the rest of vmcall_handler.                                         *)
CheckIntegrity ==
  /\ pc = "ready"
  /\ \E vm \in BOOLEAN :
       IF trace_enabled THEN Returns(0, vm) \/ Returns(-2, vm) ELSE Returns(-1, vm)
  /\ got' = <<>>
  /\ UNCHANGED <<flags, enclave, sent>>

Echo ==
  /\ pc = "ready"
  /\ \E a, b \in Params : Returns(a + b, TRUE)
  /\ got' = <<>>
  /\ UNCHANGED <<flags, enclave, sent>>

UnknownFunction ==
  /\ pc = "ready"
  /\ Returns(WORD - 1, TRUE)
  /\ got' = <<>>
  /\ UNCHANGED <<flags, enclave, sent>>

-----------------------------------------------------------------------------
(* hypervisor_shutdown calls enclave::cleanup: zero, deallocate, inactive. *)
Shutdown ==
  /\ pc = "ready"
  /\ pc' = "wipe"
  /\ got' = <<>>
  /\ UNCHANGED <<flags, enclave, call, swapped, answer, sent>>

(* Mutant: only the part the last message used is wiped.                   *)
WipeLast ==
  /\ pc = "wipe"
  /\ memory' = IF allocated
               THEN [k \in Offsets |-> IF sent # <<>> /\ k < Len(sent[Len(sent)])
                                       THEN 0 ELSE memory[k]]
               ELSE memory
  /\ pc' = "free"
  /\ UNCHANGED <<flags, allocated, active, lost, call, swapped, got, answer, sent>>

Wipe ==
  /\ pc = "wipe"
  /\ \E o \in Packer!Outcomes(ZeroCall, FALSE, VECTOR) : memory' = Overlay(o, memory, memory)
  /\ pc' = "free"
  /\ UNCHANGED <<flags, allocated, active, lost, call, swapped, got, answer, sent>>

(* Mutant: enclave_active stays set.                                       *)
FreeKeepsActive ==
  /\ pc = "free"
  /\ allocated' = FALSE
  /\ lost' = FALSE
  /\ Returns(0, FALSE)
  /\ UNCHANGED <<flags, memory, active, got, sent>>

Free ==
  /\ pc = "free"
  /\ allocated' = FALSE
  /\ active' = FALSE
  /\ lost' = FALSE
  /\ Returns(0, FALSE)
  /\ UNCHANGED <<flags, memory, got, sent>>

(* main returns the code of a failed initialisation at once, ends after    *)
(* the shutdown or dies in the hlt of hypervisor_main.                     *)
ProcessEnds ==
  /\ pc = "ready"
  /\ pc' = "dead"
  /\ UNCHANGED <<flags, enclave, call, swapped, got, answer, sent>>

(* The program is started again.                                           *)
Restart ==
  /\ pc = "dead"
  /\ allocated' = FALSE
  /\ memory' = Zeros
  /\ active' = FALSE
  /\ lost' = FALSE
  /\ trace_enabled' = FALSE
  /\ Returns(0, FALSE)
  /\ got' = <<>>
  /\ sent' = <<>>
  /\ UNCHANGED avx512

Next ==
  \/ MonitorAndAllocate \/ ZeroEnclave \/ BackendReady \/ BackendFails
  \/ Send \/ SendRefused \/ Pack \/ Swap \/ SwapFaults \/ SendReturns
  \/ Receive \/ ReceiveRefused \/ Unpack
  \/ CheckIntegrity \/ Echo \/ UnknownFunction
  \/ Shutdown \/ Wipe \/ Free \/ ProcessEnds \/ Restart

Spec == Init /\ [][Next]_vars

-----------------------------------------------------------------------------
(* Properties                                                              *)

(* Every variable has its type.                                            *)
ServicesTypeOK ==
  /\ avx512 \in BOOLEAN
  /\ allocated \in BOOLEAN
  /\ memory \in [Offsets -> Bytes \cup {0}]
  /\ active \in BOOLEAN
  /\ lost \in BOOLEAN
  /\ trace_enabled \in BOOLEAN
  /\ pc \in Labels
  /\ call \in [message : Messages \cup {NULL}, size : Nat, vm : BOOLEAN]
  /\ swapped \in Nat
  /\ got \in Seq(Bytes \cup {0, Packer!Untouched})
  /\ answer \in -5 .. WORD - 1
  /\ sent \in Seq(Messages)

(* Byte k of the enclave is b because it is byte k of the last message     *)
(* longer than k, read backwards, or because no such message was sent.     *)
FromLast(k, b) ==
  \/ \E j \in 1 .. Len(sent) :
       /\ k < Len(sent[j])
       /\ \A l \in j + 1 .. Len(sent) : Len(sent[l]) <= k
       /\ b = sent[j][Len(sent[j]) - k]
  \/ b = 0 /\ \A j \in 1 .. Len(sent) : Len(sent[j]) <= k

(* Between two calls the enclave holds the last message reversed, and      *)
(* behind it what is left of longer earlier ones: a receive that asks for  *)
(* more than the last send gets that residue, and never anything else.  An *)
(* enclave that has lost its memory gives nothing, though receive_data     *)
(* answers 0: the caller's buffer is as it was.                            *)
MailboxKept ==
  pc = "ready" /\ active =>
    IF allocated
    THEN /\ \A k \in Offsets : FromLast(k, memory[k])
         /\ \A k \in 1 .. Len(got) : FromLast(k - 1, got[k])
    ELSE \A k \in 1 .. Len(got) : got[k] = Packer!Untouched

(* The packer cannot report an error its callers would notice: -1 in eax   *)
(* is positive as int64_t.  So it should never be given arguments it       *)
(* refuses or a size beyond the enclave, whatever order the calls come in. *)
(* Shutdowns, refused and failed first initialisations keep it so; the one *)
(* way to hand it NULL is an initialisation of an enclave already active   *)
(* whose allocation fails.                                                 *)
PackerAccepts ==
  pc \in {"pack", "unpack"} =>
    /\ allocated \/ lost
    /\ call.size \in 1 .. ENCLAVE_SIZE
    /\ pc = "pack" => call.message # NULL

(* "Securely wipe before freeing": a buffer leaves the hands of a running  *)
(* program only full of zeros, also where one initialisation follows       *)
(* another, except by hypervisor_init on an enclave still active, which    *)
(* neither wipes nor frees the buffer it replaces.                         *)
WipedBeforeFree ==
  [][allocated /\ pc # "dead" /\ (~allocated' \/ pc' = "zero")
       => memory = Zeros \/ (pc = "ready" /\ active)]_vars

-----------------------------------------------------------------------------
(* The mailbox.  The message counts as put when it has been packed: what   *)
(* the loop still has to do is decided then.  A shutdown closes the box    *)
(* before it wipes the memory, and so does an initialisation that finds it *)
(* open; a dead process has none, nor has an active enclave without memory.*)
IsOpen == active /\ allocated /\ pc \in {"ready", "backend", "pack", "swap", "unpack"}

Contents ==
  CASE ~IsOpen -> Zeros
    [] IsOpen /\ pc = "swap" ->
         [k \in Offsets |-> IF k < call.size THEN call.message[call.size - k] ELSE memory[k]]
    [] OTHER -> memory

Enclave == INSTANCE Mailbox WITH
  open <- IsOpen,
  box <- Contents,
  taken <- IF IsOpen THEN got ELSE <<>>

(* Whatever the packer, the reversal in place, failures, restarts and      *)
(* repeated initialisations do to the memory in between, callers see a     *)
(* mailbox: a send is one step, and a receive gets the front of what the   *)
(* sends since the last start have left.                                   *)
ImplementsMailbox == Enclave!Spec
=============================================================================

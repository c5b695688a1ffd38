------------------------ MODULE KernovaDriver_proofs ------------------------
(***************************************************************************)
(* What holds of the driver for every set of processes, CPUs and pages.    *)
(***************************************************************************)
EXTENDS KernovaDriver, TLAPS

(* The two fill_caps functions yield a well-formed kernova_caps.           *)
LEMMA CapsOfType ==
  ASSUME NEW s \in SvmType, NEW supported \in BOOLEAN, NEW allow \in BOOLEAN
  PROVE  CapsOf(s, supported, allow) \in CapsType
  BY DEF SvmType, CapsType, CapsOf

LEMMA ZeroTypes == ZeroSvm \in SvmType /\ NoCaps \in CapsType /\ NoCall \in CallType
<1>1. ZeroSvm \in SvmType
  BY DEF ZeroSvm, SvmType, Addresses
<1>2. NoCaps \in CapsType
  BY <1>1, CapsOfType DEF NoCaps
<1>3. QED
  BY <1>1, <1>2 DEF NoCall, CallType

(* Assigning a field of the SVM context keeps its type.                    *)
LEMMA SvmFields ==
  ASSUME NEW s \in SvmType
  PROVE  /\ \A v \in Pages \cup {NULL} : [s EXCEPT !.vmcb = v] \in SvmType
         /\ \A v \in Pages \cup {NULL} : [s EXCEPT !.host_save_area = v] \in SvmType
         /\ \A v \in Pages \cup {NULL} :
              [s EXCEPT !.guest_page = v, !.vm_created = TRUE] \in SvmType
         /\ \A v \in BOOLEAN : [s EXCEPT !.original_efer = v, !.efer_saved = TRUE] \in SvmType
         /\ \A v \in Addresses :
              [s EXCEPT !.original_vm_hsave_pa = v, !.hsave_saved = TRUE] \in SvmType
         /\ [s EXCEPT !.initialized = TRUE] \in SvmType
         /\ \A v \in ExitCodes : [s EXCEPT !.last_exit_code = v] \in SvmType
<1>1. \A v \in Pages \cup {NULL} : [s EXCEPT !.vmcb = v] \in SvmType
  BY DEF SvmType
<1>2. \A v \in Pages \cup {NULL} : [s EXCEPT !.host_save_area = v] \in SvmType
  BY DEF SvmType
<1>3. \A v \in Pages \cup {NULL} : [s EXCEPT !.guest_page = v, !.vm_created = TRUE] \in SvmType
  BY DEF SvmType
<1>4. \A v \in BOOLEAN : [s EXCEPT !.original_efer = v, !.efer_saved = TRUE] \in SvmType
  BY DEF SvmType
<1>5. \A v \in Addresses :
        [s EXCEPT !.original_vm_hsave_pa = v, !.hsave_saved = TRUE] \in SvmType
  BY DEF SvmType
<1>6. [s EXCEPT !.initialized = TRUE] \in SvmType
  BY DEF SvmType
<1>7. \A v \in ExitCodes : [s EXCEPT !.last_exit_code = v] \in SvmType
  BY DEF SvmType
<1>8. QED
  BY <1>1, <1>2, <1>3, <1>4, <1>5, <1>6, <1>7

LEMMA SvmReads ==
  ASSUME NEW s \in SvmType
  PROVE  /\ s.vmcb \in Pages \cup {NULL}
         /\ s.guest_page \in Pages \cup {NULL}
         /\ s.host_save_area \in Pages \cup {NULL}
         /\ s.host_save_area \in Addresses
         /\ s.original_efer \in BOOLEAN
         /\ s.original_vm_hsave_pa \in Addresses
         /\ s.efer_saved \in BOOLEAN /\ s.hsave_saved \in BOOLEAN
         /\ s.initialized \in BOOLEAN /\ s.vm_created \in BOOLEAN
         /\ s.last_exit_code \in ExitCodes \cup {NoExit}
  BY DEF SvmType, Addresses

(* A call record of the ioctl c, or of module_exit, as it starts.          *)
LEMMA CallUpdates ==
  ASSUME NEW c \in Commands \cup {"MODULE_EXIT"} PROVE Calling(c) \in CallType
  BY ZeroTypes DEF Calling, CallType

(* Recording the return value and the copied answer keeps the call records.*)
LEMMA CallResults ==
  ASSUME NEW cs \in [Tasks -> CallType], NEW t \in Tasks,
         NEW r \in Errors \cup {"none", "OK", "oops"}
  PROVE  /\ [cs EXCEPT ![t].ret = r] \in [Tasks -> CallType]
         /\ \A c \in CapsType :
              [cs EXCEPT ![t].ret = r, ![t].reply = c] \in [Tasks -> CallType]
  BY DEF CallType

(* Every variable keeps its type.                                          *)
LEMMA TypeInit == Init => TypeOK
<1> SUFFICES ASSUME Init PROVE TypeOK
  OBVIOUS
<1>1. efer \in [Cpus -> BOOLEAN] /\ hsavePa \in [Cpus -> Addresses]
  BY CpuAssumption, PageAssumption DEF Init, Addresses
<1>2. /\ pc \in [Tasks -> Labels] /\ call \in [Tasks -> CallType]
      /\ svm \in SvmType /\ caps \in CapsType
  BY ZeroTypes DEF Init, Labels
<1>3. QED
  BY <1>1, <1>2 DEF Init, TypeOK, Tasks

LEMMA TypeStep == TypeOK /\ [Next]_vars => TypeOK'
<1> SUFFICES ASSUME TypeOK, [Next]_vars PROVE TypeOK'
  OBVIOUS
<1> USE DEF TypeOK, outside, msrs
<1>1. CASE UNCHANGED vars
  BY <1>1 DEF vars
<1>2. CASE Insmod
  BY <1>2, CapsOfType DEF Insmod
<1>3. CASE Rmmod
  BY <1>3, CallUpdates DEF Rmmod, Goto, Labels, Tasks
<1>4. CASE SetAllowVmrun
  BY <1>4 DEF SetAllowVmrun
<1>5. ASSUME NEW p \in Procs, Open(p) \/ Close(p) \/ Ioctl(p) PROVE TypeOK'
  <2>1. CASE Open(p) \/ Close(p)
    BY <2>1 DEF Open, Close
  <2>2. CASE Ioctl(p)
    BY <2>2, CallUpdates DEF Ioctl, Goto, Labels, Tasks
  <2>3. QED
    BY <1>5, <2>1, <2>2
<1>6. CASE ModuleExit
  BY <1>6, ZeroTypes DEF ModuleExit, Goto, Labels
<1>7. ASSUME NEW t \in Tasks, Acquire(t) PROVE TypeOK'
  BY <1>7, CapsOfType DEF Acquire, Goto, Labels, refresh_caps_locked
<1>8. ASSUME NEW t \in Tasks, Query(t) PROVE TypeOK'
  <2>1. call' \in [Tasks -> CallType]
    <3>1. CASE Result(t, "EFAULT", "unlock")
      BY <3>1, CallResults DEF Result, Errors
    <3>2. CASE call' = [call EXCEPT ![t].ret = "OK", ![t].reply = caps]
      <4>1. [call EXCEPT ![t].ret = "OK", ![t].reply = caps] \in [Tasks -> CallType]
        BY CallResults
      <4>2. QED
        BY <3>2, <4>1
    <3>3. QED
      BY <1>8, <3>1, <3>2 DEF Query
  <2>2. pc' \in [Tasks -> Labels]
    BY <1>8 DEF Query, Result, Goto, Labels
  <2>3. QED
    BY <1>8, <2>1, <2>2 DEF Query
<1>9. ASSUME NEW t \in Tasks, UnknownCommand(t) \/ CopyInFails(t) \/ WrongBackend(t)
      PROVE  TypeOK'
  <2>1. PICK r \in Errors : call' = [call EXCEPT ![t].ret = r]
    BY <1>9 DEF UnknownCommand, CopyInFails, WrongBackend, Result, Errors
  <2>2. call' \in [Tasks -> CallType]
    BY <2>1, CallResults
  <2>3. pc' \in [Tasks -> Labels]
    BY <1>9 DEF UnknownCommand, CopyInFails, WrongBackend, Result, Goto, Labels
  <2>4. QED
    BY <1>9, <2>2, <2>3 DEF UnknownCommand, CopyInFails, WrongBackend
<1>10. ASSUME NEW t \in Tasks, InitSteps(t) PROVE TypeOK'
  <2> USE DEF Result, Goto, Labels, Errors
  <2>1. CASE InitChecks(t)
    <3>1. PICK r \in Errors \cup {"OK"} : call' = [call EXCEPT ![t].ret = r]
      BY <2>1 DEF InitChecks
    <3>2. call' \in [Tasks -> CallType]
      BY <3>1, CallResults
    <3>3. pc' \in [Tasks -> Labels]
      BY <2>1 DEF InitChecks
    <3>4. QED
      BY <2>1, <3>2, <3>3 DEF InitChecks
  <2>2. CASE InitAlloc(t)
    <3>1. PICK page \in freePages : /\ svm' = [svm EXCEPT !.host_save_area = page]
                                   /\ freePages' = freePages \ {page}
      BY <2>2 DEF InitAlloc, AllocPage
    <3>2. svm' \in SvmType
      BY <3>1, SvmFields
    <3>3. QED
      BY <2>2, <3>1, <3>2 DEF InitAlloc
  <2>3. CASE InitReadEfer(t)
    <3>1. PICK c \in Affinity[t] :
            svm' = [svm EXCEPT !.original_efer = efer[c], !.efer_saved = TRUE]
      BY <2>3 DEF InitReadEfer
    <3>2. efer[c] \in BOOLEAN
      BY CpuAssumption
    <3>3. svm' \in SvmType
      BY <3>1, <3>2, SvmFields
    <3>4. QED
      BY <2>3, <3>3 DEF InitReadEfer
  <2>4. CASE InitReadHsave(t)
    <3>1. PICK c \in Affinity[t] :
            svm' = [svm EXCEPT !.original_vm_hsave_pa = hsavePa[c], !.hsave_saved = TRUE]
      BY <2>4 DEF InitReadHsave
    <3>2. hsavePa[c] \in Addresses
      BY CpuAssumption
    <3>3. svm' \in SvmType
      BY <3>1, <3>2, SvmFields
    <3>4. QED
      BY <2>4, <3>3 DEF InitReadHsave
  <2>5. CASE InitWriteEfer(t)
    BY <2>5 DEF InitWriteEfer
  <2>6. CASE InitWriteHsave(t)
    <3>1. svm' \in SvmType
      BY <2>6, SvmFields DEF InitWriteHsave
    <3>2. hsavePa' \in [Cpus -> Addresses]
      BY <2>6, SvmReads DEF InitWriteHsave
    <3>3. QED
      BY <2>6, <3>1, <3>2 DEF InitWriteHsave, CallType
  <2>7. QED
    BY <1>10, <2>1, <2>2, <2>3, <2>4, <2>5, <2>6 DEF InitSteps
<1>11. ASSUME NEW t \in Tasks, CreateSteps(t) PROVE TypeOK'
  <2> USE DEF Result, Goto, Labels, Errors, CallType
  <2>1. CASE CreateChecks(t)
    <3>1. PICK r \in Errors : call' = [call EXCEPT ![t].ret = r]
      BY <2>1 DEF CreateChecks
    <3>2. call' \in [Tasks -> CallType]
      <4> HIDE DEF CallType
      <4>1. QED
        BY <3>1, CallResults
    <3>3. pc' \in [Tasks -> Labels]
      BY <2>1 DEF CreateChecks
    <3>4. QED
      BY <2>1, <3>2, <3>3 DEF CreateChecks
  <2>2. CASE CreateVmcb(t)
    <3>1. CASE svm.vmcb = NULL
      <4>1. PICK page \in freePages : /\ svm' = [svm EXCEPT !.vmcb = page]
                                     /\ freePages' = freePages \ {page}
        BY <2>2, <3>1 DEF CreateVmcb, AllocPage
      <4>2. svm' \in SvmType
        BY <4>1, SvmFields
      <4>3. QED
        BY <2>2, <4>1, <4>2 DEF CreateVmcb
    <3>2. CASE svm.vmcb # NULL
      BY <2>2, <3>2 DEF CreateVmcb
    <3>3. QED
      BY <3>1, <3>2
  <2>3. CASE CreateGuest(t)
    <3>1. PICK page \in IF svm.guest_page = NULL THEN freePages ELSE {svm.guest_page} :
            /\ svm' = [svm EXCEPT !.guest_page = page, !.vm_created = TRUE]
            /\ freePages' = freePages \ {page}
            /\ vmcbRip' = page
      BY <2>3 DEF CreateGuest
    <3>2. page \in Pages \cup {NULL}
      BY SvmReads
    <3>3. svm' \in SvmType
      BY <3>1, <3>2, SvmFields
    <3>4. QED
      BY <2>3, <3>1, <3>2, <3>3 DEF CreateGuest
  <2>4. CASE CreateGuestFails(t)
    <3>1. svm' \in SvmType
      BY <2>4, SvmFields DEF CreateGuestFails
    <3>2. call' \in [Tasks -> CallType] /\ pc' \in [Tasks -> Labels]
      BY <2>4 DEF CreateGuestFails
    <3>3. freePages' \in SUBSET Pages
      BY <2>4, SvmReads DEF CreateGuestFails, Holds
    <3>4. QED
      BY <2>4, <3>1, <3>2, <3>3 DEF CreateGuestFails
  <2>5. QED
    BY <1>11, <2>1, <2>2, <2>3, <2>4 DEF CreateSteps
<1>12. ASSUME NEW t \in Tasks, RunSteps(t) PROVE TypeOK'
  <2> USE DEF Result, Goto, Labels, Errors, CallType
  <2>1. CASE RunChecks(t)
    <3>1. call' = call \/ \E r \in Errors : call' = [call EXCEPT ![t].ret = r]
      BY <2>1 DEF RunChecks
    <3>2. call' \in [Tasks -> CallType]
      <4>1. ASSUME NEW r \in Errors, call' = [call EXCEPT ![t].ret = r]
            PROVE  call' \in [Tasks -> CallType]
        BY <4>1
      <4>2. QED
        BY <3>1, <4>1
    <3>3. pc' \in [Tasks -> Labels]
      BY <2>1 DEF RunChecks
    <3>4. QED
      BY <2>1, <3>2, <3>3 DEF RunChecks
  <2>2. CASE Vmrun(t)
    <3>1. PICK code \in ExitCodes : svm' = [svm EXCEPT !.last_exit_code = code]
      BY <2>2 DEF Vmrun
    <3>2. svm' \in SvmType
      BY <3>1, SvmFields
    <3>3. QED
      BY <2>2, <3>2 DEF Vmrun
  <2>3. CASE VmrunFaults(t)
    <3>1. call' \in [Tasks -> CallType]
      BY <2>3, CallResults DEF VmrunFaults
    <3>2. pc' \in [Tasks -> Labels] /\ fd' \in [Procs -> BOOLEAN]
      BY <2>3 DEF VmrunFaults
    <3>3. QED
      BY <2>3, <3>1, <3>2 DEF VmrunFaults
  <2>4. CASE RunCopyOut(t)
    BY <2>4 DEF RunCopyOut
  <2>5. QED
    BY <1>12, <2>1, <2>2, <2>3, <2>4 DEF RunSteps
<1>13. ASSUME NEW t \in Tasks, DestroySteps(t) PROVE TypeOK'
  <2> USE DEF Result, Goto, Labels, CallType
  <2>1. CASE DestroyHsave(t)
    BY <2>1, SvmReads DEF DestroyHsave
  <2>2. CASE DestroyEfer(t)
    BY <2>2, SvmReads DEF DestroyEfer
  <2>3. CASE DestroyFree(t)
    BY <2>3, ZeroTypes, SvmReads DEF DestroyFree, SvmPages
  <2>4. QED
    BY <1>13, <2>1, <2>2, <2>3 DEF DestroySteps
<1>14. ASSUME NEW t \in Tasks, Refresh(t) PROVE TypeOK'
  BY <1>14, CapsOfType DEF Refresh, refresh_caps_locked, Goto, Labels
<1>15. ASSUME NEW t \in Tasks, Unlock(t) PROVE TypeOK'
  BY <1>15, ZeroTypes DEF Unlock, Goto, Labels
<1>16. QED
  BY <1>1, <1>2, <1>3, <1>4, <1>5, <1>6, <1>7, <1>8, <1>9, <1>10, <1>11, <1>12,
     <1>13, <1>14, <1>15 DEF Next, UserStep, Handler

-----------------------------------------------------------------------------
(* The mutex.  A step inside a handler moves the holder from one label to  *)
(* another and keeps the command of its call.                              *)
HandlerLabels == Labels \ {"user", "lock"}
Moves(t, l) ==
  /\ lock = t /\ lock' = t
  /\ pc' = [pc EXCEPT ![t] = l]
  /\ call' \in [Tasks -> CallType]
  /\ \A u \in Tasks : call'[u].cmd = call[u].cmd

(* What a handler step writes into the call record of its task.            *)
Answers(t) ==
  \/ call' = call
  \/ \E r \in Errors \cup {"OK", "oops"} : call' = [call EXCEPT ![t].ret = r]
  \/ call' = [call EXCEPT ![t].ret = "OK", ![t].reply = caps]

LEMMA AnswersKeepCmd ==
  ASSUME TypeOK, NEW t \in Tasks, Answers(t)
  PROVE  \A u \in Tasks : call'[u].cmd = call[u].cmd
<1> call \in [Tasks -> CallType]
  BY DEF TypeOK
<1> QED
  BY DEF Answers, CallType

LEMMA MoveKeepsLock ==
  ASSUME TypeOK, MutualExclusion, NEW t \in Tasks, NEW l \in HandlerLabels, Moves(t, l)
  PROVE  /\ MutualExclusion'
         /\ Where = pc[t] /\ Where' = l
<1>1. lock # Nobody /\ lock' # Nobody
  BY TaskAssumption DEF Moves
<1>2. pc \in [Tasks -> Labels] /\ pc'[t] = l
  BY DEF TypeOK, Moves
<1>3. \A u \in Tasks \ {t} : pc'[u] = pc[u]
  BY <1>2 DEF Moves
<1>4. MutualExclusion'
  BY <1>2, <1>3 DEF MutualExclusion, InHandler, Moves, HandlerLabels
<1>5. QED
  BY <1>1, <1>2, <1>4 DEF Where, Moves

(* Every handler step but Unlock is such a move, to a label that fits the  *)
(* command of the call.                                                    *)
Fits(t, l) ==
  /\ l \in InitLabels => call[t].cmd = "INIT_BACKEND"
  /\ l \in {"vmrun", "run_copy_out"} => call[t].cmd = "RUN_VM"
  /\ l = "exit" => call[t].cmd = "MODULE_EXIT"

LEMMA HandlerMoves ==
  ASSUME TypeOK, CallShape, MutualExclusion, NEW t \in Tasks, Handler(t), ~Unlock(t)
  PROVE  \E l \in HandlerLabels : Moves(t, l) /\ Fits(t, l)
<1> DEFINE Goal == \E l \in HandlerLabels : Moves(t, l) /\ Fits(t, l)
<1> USE DEF Holds, Dispatched, Goto, Result, HandlerLabels, Labels, Fits, InitLabels
<1>0. /\ TypeOK' /\ call \in [Tasks -> CallType]
      /\ \A l : /\ lock = t /\ lock' = t /\ pc' = [pc EXCEPT ![t] = l]
                /\ \A u \in Tasks : call'[u].cmd = call[u].cmd
                => Moves(t, l)
  <2>1. TypeOK'
    BY TypeStep DEF Next
  <2>2. QED
    BY <2>1 DEF Moves, TypeOK
<1>1. CASE Query(t) \/ UnknownCommand(t) \/ CopyInFails(t) \/ WrongBackend(t)
  <2>1. Answers(t)
    BY <1>1 DEF Query, UnknownCommand, CopyInFails, WrongBackend, Answers, Errors
  <2>2. \E l \in HandlerLabels : pc' = [pc EXCEPT ![t] = l] /\ Fits(t, l)
    BY <1>1 DEF Query, UnknownCommand, CopyInFails, WrongBackend, CallShape
  <2>3. lock = t /\ lock' = t
    BY <1>1 DEF Query, UnknownCommand, CopyInFails, WrongBackend
  <2>4. QED
    BY <1>0, <2>1, <2>2, <2>3, AnswersKeepCmd
<1>2. CASE InitSteps(t)
  <2>1. CASE InitChecks(t)
    <3>1. Answers(t)
      BY <2>1 DEF InitChecks, Answers, Errors
    <3>2. \E l \in HandlerLabels : pc' = [pc EXCEPT ![t] = l] /\ Fits(t, l)
      BY <2>1 DEF InitChecks, CallShape
    <3>3. lock = t /\ lock' = t
      BY <2>1 DEF InitChecks
    <3>4. QED
      BY <1>0, <3>1, <3>2, <3>3, AnswersKeepCmd
  <2>2. CASE InitAlloc(t)
    <3>1. Answers(t)
      BY <2>2 DEF InitAlloc, Answers, Errors
    <3>2. pc' = [pc EXCEPT ![t] = "init_rd_efer"] /\ Fits(t, "init_rd_efer")
      BY <2>2 DEF InitAlloc, CallShape
    <3>3. lock = t /\ lock' = t
      BY <2>2 DEF InitAlloc
    <3>4. QED
      BY <1>0, <3>1, <3>2, <3>3, AnswersKeepCmd
  <2>3. CASE InitReadEfer(t)
    <3>1. Answers(t)
      BY <2>3 DEF InitReadEfer, Answers, Errors
    <3>2. pc' = [pc EXCEPT ![t] = "init_rd_hsave"] /\ Fits(t, "init_rd_hsave")
      BY <2>3 DEF InitReadEfer, CallShape
    <3>3. lock = t /\ lock' = t
      BY <2>3 DEF InitReadEfer
    <3>4. QED
      BY <1>0, <3>1, <3>2, <3>3, AnswersKeepCmd
  <2>4. CASE InitReadHsave(t)
    <3>1. Answers(t)
      BY <2>4 DEF InitReadHsave, Answers, Errors
    <3>2. pc' = [pc EXCEPT ![t] = "init_wr_efer"] /\ Fits(t, "init_wr_efer")
      BY <2>4 DEF InitReadHsave, CallShape
    <3>3. lock = t /\ lock' = t
      BY <2>4 DEF InitReadHsave
    <3>4. QED
      BY <1>0, <3>1, <3>2, <3>3, AnswersKeepCmd
  <2>5. CASE InitWriteEfer(t)
    <3>1. Answers(t)
      BY <2>5 DEF InitWriteEfer, Answers, Errors
    <3>2. pc' = [pc EXCEPT ![t] = "init_wr_hsave"] /\ Fits(t, "init_wr_hsave")
      BY <2>5 DEF InitWriteEfer, CallShape
    <3>3. lock = t /\ lock' = t
      BY <2>5 DEF InitWriteEfer
    <3>4. QED
      BY <1>0, <3>1, <3>2, <3>3, AnswersKeepCmd
  <2>6. CASE InitWriteHsave(t)
    <3>1. Answers(t)
      BY <2>6 DEF InitWriteHsave, Answers, Errors
    <3>2. pc' = [pc EXCEPT ![t] = "refresh"] /\ Fits(t, "refresh")
      BY <2>6 DEF InitWriteHsave, CallShape
    <3>3. lock = t /\ lock' = t
      BY <2>6 DEF InitWriteHsave
    <3>4. QED
      BY <1>0, <3>1, <3>2, <3>3, AnswersKeepCmd
  <2>7. QED
    BY <1>2, <2>1, <2>2, <2>3, <2>4, <2>5, <2>6 DEF InitSteps
<1>3. CASE CreateSteps(t)
  <2>1. Answers(t)
    BY <1>3 DEF CreateSteps, CreateChecks, CreateVmcb, CreateGuest, CreateGuestFails, Answers, Errors
  <2>2. \E l \in {"refresh", "create_guest"} : pc' = [pc EXCEPT ![t] = l] /\ Fits(t, l)
    BY <1>3 DEF CreateSteps, CreateChecks, CreateVmcb, CreateGuest, CreateGuestFails, CallShape
  <2>3. lock = t /\ lock' = t
    BY <1>3 DEF CreateSteps, CreateChecks, CreateVmcb, CreateGuest, CreateGuestFails
  <2>4. QED
    BY <1>0, <2>1, <2>2, <2>3, AnswersKeepCmd
<1>4. CASE RunSteps(t)
  <2>1. Answers(t)
    BY <1>4 DEF RunSteps, RunChecks, Vmrun, VmrunFaults, RunCopyOut, Answers, Errors
  <2>2. \E l \in HandlerLabels : pc' = [pc EXCEPT ![t] = l] /\ Fits(t, l)
    BY <1>4 DEF RunSteps, RunChecks, Vmrun, VmrunFaults, RunCopyOut, CallShape
  <2>3. lock = t /\ lock' = t
    BY <1>4 DEF RunSteps, RunChecks, Vmrun, VmrunFaults, RunCopyOut
  <2>4. QED
    BY <1>0, <2>1, <2>2, <2>3, AnswersKeepCmd
<1>5. CASE DestroySteps(t)
  <2>1. Answers(t)
    BY <1>5 DEF DestroySteps, DestroyHsave, DestroyEfer, DestroyFree, Answers, Errors
  <2>2. \E l \in HandlerLabels : pc' = [pc EXCEPT ![t] = l] /\ Fits(t, l)
    BY <1>5 DEF DestroySteps, DestroyHsave, DestroyEfer, DestroyFree, CallShape
  <2>3. lock = t /\ lock' = t
    BY <1>5 DEF DestroySteps, DestroyHsave, DestroyEfer, DestroyFree
  <2>4. QED
    BY <1>0, <2>1, <2>2, <2>3, AnswersKeepCmd
<1>6. CASE Refresh(t)
  <2>1. Answers(t)
    BY <1>6 DEF Refresh, refresh_caps_locked, Answers, Errors
  <2>2. pc' = [pc EXCEPT ![t] = "unlock"] /\ Fits(t, "unlock")
    BY <1>6 DEF Refresh, refresh_caps_locked, CallShape
  <2>3. lock = t /\ lock' = t
    BY <1>6 DEF Refresh, refresh_caps_locked
  <2>4. QED
    BY <1>0, <2>1, <2>2, <2>3, AnswersKeepCmd
<1>7. QED
  BY <1>1, <1>2, <1>3, <1>4, <1>5, <1>6 DEF Handler

(* No two tasks are inside a handler, whatever the scheduler does.         *)
LEMMA LockStep ==
  TypeOK /\ MutualExclusion /\ CallShape /\ [Next]_vars => MutualExclusion' /\ CallShape'
<1> SUFFICES ASSUME TypeOK, MutualExclusion, CallShape, [Next]_vars
             PROVE  MutualExclusion' /\ CallShape'
  OBVIOUS
<1>1. CASE UNCHANGED <<lock, pc, call>>
  BY <1>1 DEF MutualExclusion, CallShape, InHandler
<1>2. ASSUME NEW t \in Tasks, NEW c,
             pc[t] = "user", pc' = [pc EXCEPT ![t] = "lock"], lock' = lock,
             call' = [call EXCEPT ![t] = Calling(c)],
             c = "MODULE_EXIT" <=> t = Admin
      PROVE  MutualExclusion' /\ CallShape'
  <2>1. MutualExclusion'
    BY <1>2 DEF MutualExclusion, InHandler, TypeOK
  <2>2. CallShape'
    BY <1>2 DEF CallShape, InitLabels, Calling, NoCall, TypeOK
  <2>3. QED
    BY <2>1, <2>2
<1>3. CASE Rmmod
  BY <1>2, <1>3 DEF Rmmod, Goto, Tasks
<1>4. ASSUME NEW p \in Procs, Ioctl(p) PROVE MutualExclusion' /\ CallShape'
  <2>1. PICK c \in Commands : call' = [call EXCEPT ![p] = Calling(c)]
    BY <1>4 DEF Ioctl
  <2>2. c # "MODULE_EXIT" /\ p # Admin /\ p \in Tasks
    BY TaskAssumption DEF Commands, Tasks
  <2>3. QED
    BY <1>2, <1>4, <2>1, <2>2 DEF Ioctl, Goto
<1>5. ASSUME NEW t \in Tasks, Acquire(t) PROVE MutualExclusion' /\ CallShape'
  <2>1. MutualExclusion'
    BY <1>5, TaskAssumption DEF Acquire, Goto, MutualExclusion, InHandler, TypeOK
  <2>2. CallShape'
    BY <1>5 DEF Acquire, Goto, CallShape, InitLabels, TypeOK
  <2>3. QED
    BY <2>1, <2>2
<1>6. ASSUME NEW t \in Tasks, lock = t, lock' = Nobody,
             pc' = [pc EXCEPT ![t] = "user"], call' = [call EXCEPT ![t] = NoCall]
      PROVE  MutualExclusion' /\ CallShape'
  <2>1. MutualExclusion'
    BY <1>6, TaskAssumption DEF MutualExclusion, InHandler, TypeOK
  <2>2. CallShape'
    BY <1>6 DEF CallShape, InitLabels, TypeOK
  <2>3. QED
    BY <2>1, <2>2
<1>7. CASE ModuleExit
  BY <1>6, <1>7 DEF ModuleExit, Holds, Goto, Tasks
<1>8. ASSUME NEW t \in Tasks, Handler(t) PROVE MutualExclusion' /\ CallShape'
  <2>1. CASE Unlock(t)
    BY <1>6, <2>1 DEF Unlock, Holds, Goto
  <2>2. CASE ~Unlock(t)
    <3>1. PICK l \in HandlerLabels : Moves(t, l) /\ Fits(t, l)
      BY <1>8, <2>2, HandlerMoves
    <3>2. MutualExclusion'
      BY <3>1, MoveKeepsLock
    <3>3. pc[t] # "user"
      BY <3>1 DEF Moves, MutualExclusion, InHandler
    <3>4. CallShape'
      BY <3>1, <3>3 DEF Moves, Fits, CallShape, InitLabels, TypeOK
    <3>5. QED
      BY <3>2, <3>4
  <2>3. QED
    BY <2>1, <2>2
<1>9. QED
  BY <1>1, <1>3, <1>4, <1>5, <1>7, <1>8
  DEF Next, UserStep, Insmod, SetAllowVmrun, Open, Close, vars

-----------------------------------------------------------------------------
(* Where the lock holder is.                                               *)
LEMMA WhereMoves ==
  ASSUME TypeOK, NEW t \in Tasks, NEW l, lock = t, lock' = t, pc' = [pc EXCEPT ![t] = l]
  PROVE  Where = pc[t] /\ Where' = l
  BY TaskAssumption DEF Where, TypeOK

LEMMA WhereStays ==
  ASSUME TypeOK, MutualExclusion, NEW t \in Tasks, NEW l,
         pc[t] \in {"user", "lock"}, lock' = lock, pc' = [pc EXCEPT ![t] = l]
  PROVE  Where' = Where
  BY TaskAssumption DEF Where, TypeOK, MutualExclusion, InHandler

(* Steps that leave the context alone, and do not leave a step in which it *)
(* is half built.                                                          *)
Quiet ==
  /\ UNCHANGED <<svm, freePages, vmcbRip>>
  /\ \/ Where' = Where
     \/ /\ Where \notin InitLabels \cup {"create_guest"}
        /\ Where' \notin InitLabels \cup {"create_guest"}
        /\ Where' = "vmrun" => svm.vm_created

LEMMA QuietKeepsContext ==
  ASSUME PagesAccounted, ContextShape, Quiet
  PROVE  PagesAccounted' /\ ContextShape'
<1>1. PagesAccounted'
  BY DEF Quiet, PagesAccounted, SvmPages
<1>2. CASE Where' = Where
  BY <1>1, <1>2 DEF Quiet, ContextShape, Settled
<1>3. CASE Where' # Where
  BY <1>1, <1>3 DEF Quiet, ContextShape, Settled, InitLabels
<1>4. QED
  BY <1>2, <1>3

(* The user steps, the mutex and the branches that only answer.            *)
LEMMA OutsideQuiet ==
  ASSUME TypeOK, MutualExclusion, UserStep PROVE Quiet
<1>1. CASE Insmod \/ SetAllowVmrun
  BY <1>1 DEF Insmod, SetAllowVmrun, Quiet, Where
<1>2. CASE Rmmod
  BY <1>2, WhereStays DEF Rmmod, Goto, Quiet, Tasks
<1>3. ASSUME NEW p \in Procs, Open(p) \/ Close(p) PROVE Quiet
  BY <1>3 DEF Open, Close, Quiet, Where
<1>4. ASSUME NEW p \in Procs, Ioctl(p) PROVE Quiet
  BY <1>4, WhereStays DEF Ioctl, Goto, Quiet, Tasks
<1>5. QED
  BY <1>1, <1>2, <1>3, <1>4 DEF UserStep

LEMMA LockQuiet ==
  ASSUME TypeOK, MutualExclusion, NEW t \in Tasks, Acquire(t) \/ Unlock(t) \/ ModuleExit
  PROVE  Quiet
<1> USE DEF Goto, Holds, Where, Quiet, InitLabels, TypeOK
<1>1. CASE Acquire(t)
  BY <1>1, TaskAssumption DEF Acquire
<1>2. CASE Unlock(t)
  BY <1>2, TaskAssumption DEF Unlock
<1>3. CASE ModuleExit
  BY <1>3, TaskAssumption DEF ModuleExit
<1>4. QED
  BY <1>1, <1>2, <1>3

LEMMA BranchQuiet ==
  ASSUME TypeOK, NEW t \in Tasks,
         \/ Query(t) \/ UnknownCommand(t) \/ CopyInFails(t) \/ WrongBackend(t)
         \/ InitChecks(t) \/ CreateChecks(t) \/ RunChecks(t) \/ VmrunFaults(t)
         \/ RunCopyOut(t) \/ DestroyHsave(t) \/ DestroyEfer(t) \/ Refresh(t)
  PROVE  Quiet
<1> USE DEF Holds, Dispatched, Goto, Result, Quiet, InitLabels
<1>1. CASE Query(t) \/ UnknownCommand(t) \/ CopyInFails(t) \/ WrongBackend(t)
  BY <1>1, WhereMoves DEF Query, UnknownCommand, CopyInFails, WrongBackend
<1>2. CASE InitChecks(t) \/ CreateChecks(t)
  BY <1>2, WhereMoves DEF InitChecks, CreateChecks
<1>3. CASE RunChecks(t)
  BY <1>3, WhereMoves DEF RunChecks
<1>4. CASE VmrunFaults(t) \/ RunCopyOut(t)
  BY <1>4, WhereMoves DEF VmrunFaults, RunCopyOut
<1>5. CASE DestroyHsave(t) \/ DestroyEfer(t)
  BY <1>5, WhereMoves DEF DestroyHsave, DestroyEfer
<1>6. CASE Refresh(t)
  <2>1. lock = t /\ lock' = t /\ pc[t] = "refresh" /\ pc' = [pc EXCEPT ![t] = "unlock"]
    BY <1>6 DEF Refresh
  <2>2. Where = "refresh" /\ Where' = "unlock"
    BY <2>1, TaskAssumption DEF Where, TypeOK
  <2>3. QED
    BY <1>6, <2>2 DEF Refresh
<1>7. QED
  BY <1>1, <1>2, <1>3, <1>4, <1>5, <1>6

(* The order of the MSR accesses of kernova_amd_svm_init.                  *)
LEMMA InitOrder ==
  ASSUME TypeOK, NEW t \in Tasks
  PROVE  /\ InitReadEfer(t) => Where = "init_rd_efer" /\ Where' = "init_rd_hsave"
         /\ InitReadHsave(t) => Where = "init_rd_hsave" /\ Where' = "init_wr_efer"
         /\ InitWriteEfer(t) => Where = "init_wr_efer" /\ Where' = "init_wr_hsave"
         /\ InitWriteHsave(t) => Where = "init_wr_hsave" /\ Where' = "refresh"
<1> USE DEF Holds, Result, Goto
<1>1. ASSUME InitReadEfer(t) PROVE Where = "init_rd_efer" /\ Where' = "init_rd_hsave"
  BY <1>1, TaskAssumption DEF InitReadEfer, Where, TypeOK
<1>2. ASSUME InitReadHsave(t) PROVE Where = "init_rd_hsave" /\ Where' = "init_wr_efer"
  BY <1>2, TaskAssumption DEF InitReadHsave, Where, TypeOK
<1>3. ASSUME InitWriteEfer(t) PROVE Where = "init_wr_efer" /\ Where' = "init_wr_hsave"
  BY <1>3, TaskAssumption DEF InitWriteEfer, Where, TypeOK
<1>4. ASSUME InitWriteHsave(t) PROVE Where = "init_wr_hsave" /\ Where' = "refresh"
  BY <1>4, TaskAssumption DEF InitWriteHsave, Where, TypeOK
<1>5. QED
  BY <1>1, <1>2, <1>3, <1>4

(* The steps that build or tear down the context.                          *)
LEMMA InitKeepsContext ==
  ASSUME TypeOK, PagesAccounted, ContextShape, NEW t \in Tasks, InitSteps(t), ~InitChecks(t)
  PROVE  PagesAccounted' /\ ContextShape'
<1> svm \in SvmType
  BY DEF TypeOK
<1> USE DEF Holds, Dispatched, Goto, Result, InitLabels, ContextShape, PagesAccounted, SvmPages
<1>1. CASE InitAlloc(t)
  <2>1. PICK page \in freePages : /\ svm' = [svm EXCEPT !.host_save_area = page]
                                  /\ freePages' = freePages \ {page}
    BY <1>1 DEF InitAlloc, AllocPage
  <2>2. Where = "dispatch" /\ Where' = "init_rd_efer"
    BY <1>1, WhereMoves DEF InitAlloc
  <2>3. Settled /\ ~svm.initialized /\ vmcbRip' = vmcbRip
    BY <1>1, <2>2 DEF InitAlloc
  <2>4. page \in Pages /\ page # NULL
    BY <2>1, PageAssumption DEF TypeOK
  <2>5. PagesAccounted'
    BY <2>1, <2>3, <2>4 DEF Settled, SvmType
  <2>6. ContextShape'
    BY <2>1, <2>2, <2>3, <2>4 DEF Settled, SvmType
  <2>7. QED
    BY <2>5, <2>6
<1>2. CASE InitReadEfer(t)
  <2>1. PICK b : svm' = [svm EXCEPT !.original_efer = b, !.efer_saved = TRUE]
    BY <1>2 DEF InitReadEfer
  <2>2. Where = "init_rd_efer" /\ Where' = "init_rd_hsave"
    BY <1>2, InitOrder
  <2>3. UNCHANGED <<freePages, vmcbRip>>
    BY <1>2 DEF InitReadEfer
  <2>4. QED
    BY <2>1, <2>2, <2>3 DEF SvmType
<1>3. CASE InitReadHsave(t)
  <2>1. PICK a : svm' = [svm EXCEPT !.original_vm_hsave_pa = a, !.hsave_saved = TRUE]
    BY <1>3 DEF InitReadHsave
  <2>2. Where = "init_rd_hsave" /\ Where' = "init_wr_efer"
    BY <1>3, InitOrder
  <2>3. UNCHANGED <<freePages, vmcbRip>>
    BY <1>3 DEF InitReadHsave
  <2>4. QED
    BY <2>1, <2>2, <2>3 DEF SvmType
<1>4. CASE InitWriteEfer(t)
  <2>1. Where = "init_wr_efer" /\ Where' = "init_wr_hsave"
    BY <1>4, InitOrder
  <2>2. UNCHANGED <<svm, freePages, vmcbRip>>
    BY <1>4 DEF InitWriteEfer
  <2>3. QED
    BY <2>1, <2>2
<1>5. CASE InitWriteHsave(t)
  <2>1. svm' = [svm EXCEPT !.initialized = TRUE] /\ UNCHANGED <<freePages, vmcbRip>>
    BY <1>5 DEF InitWriteHsave
  <2>2. Where = "init_wr_hsave" /\ Where' = "refresh"
    BY <1>5, InitOrder
  <2>3. QED
    BY <2>1, <2>2 DEF Settled, SvmType
<1>6. QED
  BY <1>1, <1>2, <1>3, <1>4, <1>5 DEF InitSteps

LEMMA CreateKeepsContext ==
  ASSUME TypeOK, PagesAccounted, ContextShape, NEW t \in Tasks, CreateSteps(t), ~CreateChecks(t)
  PROVE  PagesAccounted' /\ ContextShape'
<1> svm \in SvmType
  BY DEF TypeOK
<1> USE DEF Holds, Dispatched, Goto, Result, InitLabels, ContextShape, PagesAccounted, SvmPages
<1>1. CASE CreateVmcb(t)
  <2>1. Where = "dispatch" /\ Where' = "create_guest"
    BY <1>1, WhereMoves DEF CreateVmcb
  <2>2. Settled /\ svm.initialized /\ vmcbRip' = vmcbRip
    BY <1>1, <2>1 DEF CreateVmcb
  <2>3. CASE svm.vmcb = NULL
    <3>1. PICK page \in freePages : /\ svm' = [svm EXCEPT !.vmcb = page]
                                    /\ freePages' = freePages \ {page}
      BY <1>1, <2>3 DEF CreateVmcb, AllocPage
    <3>2. page \in Pages /\ page # NULL
      BY <3>1, PageAssumption DEF TypeOK
    <3>3. QED
      BY <2>1, <2>2, <2>3, <3>1, <3>2 DEF Settled, SvmType
  <2>4. CASE svm.vmcb # NULL
    <3>1. UNCHANGED <<svm, freePages>>
      BY <1>1, <2>4 DEF CreateVmcb
    <3>2. QED
      BY <2>1, <2>2, <2>4, <3>1 DEF Settled
  <2>5. QED
    BY <2>3, <2>4
<1>2. CASE CreateGuest(t)
  <2>1. PICK page \in IF svm.guest_page = NULL THEN freePages ELSE {svm.guest_page} :
          /\ svm' = [svm EXCEPT !.guest_page = page, !.vm_created = TRUE]
          /\ freePages' = freePages \ {page}
          /\ vmcbRip' = page
    BY <1>2 DEF CreateGuest
  <2>2. Where = "create_guest" /\ Where' = "refresh"
    BY <1>2, WhereMoves DEF CreateGuest
  <2>3. page \in Pages /\ page # NULL
    BY <2>1, PageAssumption, SvmReads DEF TypeOK
  <2>4. PagesAccounted'
    BY <2>1, <2>2, <2>3 DEF SvmType
  <2>5. ContextShape'
    BY <2>1, <2>2, <2>3 DEF Settled, SvmType
  <2>6. QED
    BY <2>4, <2>5
<1>3. CASE CreateGuestFails(t)
  <2>1. /\ svm.guest_page = NULL /\ vmcbRip' = vmcbRip
        /\ svm' = [svm EXCEPT !.vmcb = NULL]
        /\ freePages' = freePages \cup ({svm.vmcb} \ {NULL})
    BY <1>3 DEF CreateGuestFails
  <2>2. Where = "create_guest" /\ Where' = "refresh"
    BY <1>3, WhereMoves DEF CreateGuestFails
  <2>3. PagesAccounted'
    BY <2>1, <2>2, SvmReads, PageAssumption DEF SvmType
  <2>4. ContextShape'
    BY <2>1, <2>2 DEF Settled, SvmType
  <2>5. QED
    BY <2>3, <2>4
<1>4. QED
  BY <1>1, <1>2, <1>3 DEF CreateSteps

LEMMA RunKeepsContext ==
  ASSUME TypeOK, PagesAccounted, ContextShape, NEW t \in Tasks, Vmrun(t)
  PROVE  PagesAccounted' /\ ContextShape'
<1> svm \in SvmType
  BY DEF TypeOK
<1>1. PICK code \in ExitCodes : svm' = [svm EXCEPT !.last_exit_code = code]
  BY DEF Vmrun
<1>2. UNCHANGED <<freePages, vmcbRip>>
  BY DEF Vmrun
<1>3. /\ lock = t /\ lock' = t
      /\ pc[t] = "vmrun" /\ pc' = [pc EXCEPT ![t] = "run_copy_out"]
  BY DEF Vmrun, Holds, Result, Goto
<1>4. Where = "vmrun" /\ Where' = "run_copy_out"
  BY <1>3, TaskAssumption DEF Where, TypeOK
<1>5. QED
  BY <1>1, <1>2, <1>4 DEF PagesAccounted, ContextShape, Settled, InitLabels, SvmPages, SvmType

LEMMA DestroyKeepsContext ==
  ASSUME TypeOK, PagesAccounted, ContextShape, NEW t \in Tasks, DestroyFree(t)
  PROVE  PagesAccounted' /\ ContextShape'
<1>1. svm' = ZeroSvm /\ freePages' = freePages \cup SvmPages(svm)
  BY DEF DestroyFree
<1>2. Where' \in {"exit", "refresh"}
  BY WhereMoves DEF DestroyFree, Holds, Result, Goto
<1>3. freePages' = Pages
  BY <1>1, SvmReads DEF PagesAccounted, SvmPages, TypeOK
<1>4. QED
  BY <1>1, <1>2, <1>3 DEF PagesAccounted, ContextShape, Settled, InitLabels, SvmPages, ZeroSvm

LEMMA ContextStep ==
  TypeOK /\ MutualExclusion /\ PagesAccounted /\ ContextShape /\ [Next]_vars
    => PagesAccounted' /\ ContextShape'
<1> SUFFICES ASSUME TypeOK, MutualExclusion, PagesAccounted, ContextShape, [Next]_vars
             PROVE  PagesAccounted' /\ ContextShape'
  OBVIOUS
<1>1. CASE UNCHANGED vars
  BY <1>1, QuietKeepsContext DEF vars, Quiet, Where
<1>2. CASE UserStep
  BY <1>2, OutsideQuiet, QuietKeepsContext
<1>3. CASE ModuleExit
  BY <1>3, LockQuiet, QuietKeepsContext DEF Tasks
<1>4. ASSUME NEW t \in Tasks, Acquire(t) \/ Unlock(t) PROVE PagesAccounted' /\ ContextShape'
  BY <1>4, LockQuiet, QuietKeepsContext
<1>5. ASSUME NEW t \in Tasks, Handler(t) PROVE PagesAccounted' /\ ContextShape'
  BY <1>4, <1>5, BranchQuiet, QuietKeepsContext, InitKeepsContext, CreateKeepsContext,
     RunKeepsContext, DestroyKeepsContext
  DEF Handler, InitSteps, CreateSteps, RunSteps, DestroySteps
<1>6. QED
  BY <1>1, <1>2, <1>3, <1>4, <1>5 DEF Next

-----------------------------------------------------------------------------
(* DriverInv is inductive: the theorems below are its consequences.        *)
THEOREM Invariance == Spec => []DriverInv
<1>1. Init => DriverInv
  BY TypeInit, TaskAssumption
  DEF Init, DriverInv, MutualExclusion, InHandler, PagesAccounted, ContextShape, CallShape,
      Settled, Where, InitLabels, SvmPages, ZeroSvm
<1>2. DriverInv /\ [Next]_vars => DriverInv'
  BY TypeStep, LockStep, ContextStep DEF DriverInv
<1>3. QED
  BY <1>1, <1>2, PTL DEF Spec

(* For every machine: the kernel's types, one handler at a time, no page   *)
(* leaked, lost or used twice, no half-built VM between two calls.         *)
THEOREM TypeCorrect == Spec => []TypeOK
<1>1. DriverInv => TypeOK
  BY DEF DriverInv
<1>2. QED
  BY <1>1, Invariance, PTL

THEOREM OneHandlerAtATime == Spec => []MutualExclusion
<1>1. DriverInv => MutualExclusion
  BY DEF DriverInv
<1>2. QED
  BY <1>1, Invariance, PTL

THEOREM NoPageLost == Spec => []PagesAccounted
<1>1. DriverInv => PagesAccounted
  BY DEF DriverInv
<1>2. QED
  BY <1>1, Invariance, PTL

THEOREM NoHalfBuiltVm == Spec => []NothingHalfBuilt
<1>1. DriverInv => NothingHalfBuilt
  BY DEF DriverInv, NothingHalfBuilt, ContextShape, Where, InitLabels
<1>2. QED
  BY <1>1, Invariance, PTL

THEOREM VmrunNeedsVm == Spec => []VmrunOnWholeVm
<1>1. DriverInv => VmrunOnWholeVm
  <2> SUFFICES ASSUME DriverInv PROVE VmrunOnWholeVm
    OBVIOUS
  <2>1. ASSUME NEW t \in Tasks, pc[t] = "vmrun" PROVE Where = "vmrun"
    BY <2>1, TaskAssumption DEF DriverInv, MutualExclusion, InHandler, Where
  <2>2. QED
    BY <2>1 DEF DriverInv, VmrunOnWholeVm, ContextShape, Settled, InitLabels
<1>2. QED
  BY <1>1, Invariance, PTL

-----------------------------------------------------------------------------
(* The host's MSRs.  AccessesOn(c): the access to them of this step, if it *)
(* has one, executes on the CPU c.  Where the tasks run otherwise, and from*)
(* where to where they are moved between two accesses, does not matter.    *)
AccessesOn(c) ==
  \A t \in Tasks :
    /\ InitReadEfer(t) => svm'.original_efer = efer[c]
    /\ InitReadHsave(t) => svm'.original_vm_hsave_pa = hsavePa[c]
    /\ InitWriteEfer(t) => efer' = [efer EXCEPT ![c] = TRUE]
    /\ InitWriteHsave(t) => hsavePa' = [hsavePa EXCEPT ![c] = svm.host_save_area]
    /\ DestroyHsave(t) /\ svm.hsave_saved =>
         hsavePa' = [hsavePa EXCEPT ![c] = svm.original_vm_hsave_pa]
    /\ DestroyEfer(t) /\ svm.efer_saved => efer' = [efer EXCEPT ![c] = svm.original_efer]

(* So it is when every task is bound to c.                                 *)
LEMMA BoundAccesses ==
  ASSUME NEW c \in Cpus, \A t \in Tasks : Affinity[t] = {c}, TypeOK PROVE AccessesOn(c)
<1> svm \in SvmType
  BY DEF TypeOK
<1>1. ASSUME NEW t \in Tasks, InitReadEfer(t) PROVE svm'.original_efer = efer[c]
  BY <1>1 DEF InitReadEfer, SvmType
<1>2. ASSUME NEW t \in Tasks, InitReadHsave(t) PROVE svm'.original_vm_hsave_pa = hsavePa[c]
  BY <1>2 DEF InitReadHsave, SvmType
<1>3. QED
  BY <1>1, <1>2 DEF AccessesOn, InitWriteEfer, InitWriteHsave, DestroyHsave, DestroyEfer

MsrLabels == InitLabels \cup {"destroy_efer", "destroy_free"}
MsrQuiet ==
  /\ UNCHANGED <<svm, efer, hsavePa>>
  /\ Where' = Where \/ (Where \notin MsrLabels /\ Where' \notin MsrLabels)

LEMMA MsrQuietKeeps ==
  ASSUME NEW c \in Cpus, MsrShape(c), MsrQuiet PROVE MsrShape(c)'
<1>1. CASE Where' = Where
  BY <1>1 DEF MsrQuiet, MsrShape
<1>2. CASE Where' # Where
  BY <1>2 DEF MsrQuiet, MsrShape, MsrLabels, InitLabels
<1>3. QED
  BY <1>1, <1>2

LEMMA OutsideMsrQuiet ==
  ASSUME TypeOK, MutualExclusion, UserStep PROVE MsrQuiet
<1>1. CASE Insmod \/ SetAllowVmrun
  BY <1>1 DEF Insmod, SetAllowVmrun, MsrQuiet, Where, msrs
<1>2. CASE Rmmod
  BY <1>2, WhereStays DEF Rmmod, Goto, MsrQuiet, Tasks, msrs
<1>3. ASSUME NEW p \in Procs, Open(p) \/ Close(p) PROVE MsrQuiet
  BY <1>3 DEF Open, Close, MsrQuiet, Where, msrs
<1>4. ASSUME NEW p \in Procs, Ioctl(p) PROVE MsrQuiet
  BY <1>4, WhereStays DEF Ioctl, Goto, MsrQuiet, Tasks, msrs
<1>5. QED
  BY <1>1, <1>2, <1>3, <1>4 DEF UserStep

LEMMA LockMsrQuiet ==
  ASSUME TypeOK, MutualExclusion, NEW t \in Tasks, Acquire(t) \/ Unlock(t) \/ ModuleExit
  PROVE  MsrQuiet
<1> USE DEF Goto, Holds, Where, MsrQuiet, MsrLabels, InitLabels, TypeOK, msrs
<1>1. CASE Acquire(t)
  BY <1>1, TaskAssumption DEF Acquire
<1>2. CASE Unlock(t)
  BY <1>2, TaskAssumption DEF Unlock
<1>3. CASE ModuleExit
  BY <1>3, TaskAssumption DEF ModuleExit
<1>4. QED
  BY <1>1, <1>2, <1>3

LEMMA BranchMsrQuiet ==
  ASSUME TypeOK, NEW t \in Tasks,
         \/ Query(t) \/ UnknownCommand(t) \/ CopyInFails(t) \/ WrongBackend(t)
         \/ InitChecks(t) \/ CreateChecks(t) \/ RunChecks(t) \/ VmrunFaults(t)
         \/ RunCopyOut(t) \/ Refresh(t)
  PROVE  MsrQuiet
<1> USE DEF Holds, Dispatched, Goto, Result, MsrQuiet, MsrLabels, InitLabels, msrs
<1>1. CASE Query(t) \/ UnknownCommand(t) \/ CopyInFails(t) \/ WrongBackend(t)
  BY <1>1, WhereMoves DEF Query, UnknownCommand, CopyInFails, WrongBackend
<1>2. CASE InitChecks(t) \/ CreateChecks(t)
  BY <1>2, WhereMoves DEF InitChecks, CreateChecks
<1>3. CASE RunChecks(t)
  BY <1>3, WhereMoves DEF RunChecks
<1>4. CASE VmrunFaults(t) \/ RunCopyOut(t)
  BY <1>4, WhereMoves DEF VmrunFaults, RunCopyOut
<1>5. CASE Refresh(t)
  BY <1>5, TaskAssumption DEF Refresh, Where, TypeOK
<1>6. QED
  BY <1>1, <1>2, <1>3, <1>4, <1>5

LEMMA InitKeepsMsrs ==
  ASSUME NEW c \in Cpus, NEW t \in Tasks, AccessesOn(c),
         DriverInv, MsrShape(c), InitSteps(t), ~InitChecks(t)
  PROVE  MsrShape(c)'
<1> TypeOK /\ ContextShape /\ svm \in SvmType
  BY DEF DriverInv, TypeOK
<1> USE DEF Holds, Dispatched, Goto, Result, InitLabels, MsrShape, msrs
<1>1. CASE InitAlloc(t)
  <2>1. PICK page \in freePages : svm' = [svm EXCEPT !.host_save_area = page]
    BY <1>1 DEF InitAlloc, AllocPage
  <2>2. Where = "dispatch" /\ Where' = "init_rd_efer"
    BY <1>1, WhereMoves DEF InitAlloc
  <2>3. ~svm.initialized /\ UNCHANGED <<efer, hsavePa>>
    BY <1>1 DEF InitAlloc
  <2>4. QED
    BY <2>1, <2>2, <2>3 DEF SvmType
<1>2. CASE InitReadEfer(t)
  <2>1. svm' = [svm EXCEPT !.original_efer = efer[c], !.efer_saved = TRUE]
    BY <1>2 DEF InitReadEfer, AccessesOn, SvmType
  <2>2. Where = "init_rd_efer" /\ Where' = "init_rd_hsave"
    BY <1>2, InitOrder
  <2>3. UNCHANGED <<efer, hsavePa>>
    BY <1>2 DEF InitReadEfer
  <2>4. QED
    BY <2>1, <2>2, <2>3 DEF SvmType
<1>3. CASE InitReadHsave(t)
  <2>1. svm' = [svm EXCEPT !.original_vm_hsave_pa = hsavePa[c], !.hsave_saved = TRUE]
    BY <1>3 DEF InitReadHsave, AccessesOn, SvmType
  <2>2. Where = "init_rd_hsave" /\ Where' = "init_wr_efer"
    BY <1>3, InitOrder
  <2>3. UNCHANGED <<efer, hsavePa>>
    BY <1>3 DEF InitReadHsave
  <2>4. QED
    BY <2>1, <2>2, <2>3 DEF SvmType
<1>4. CASE InitWriteEfer(t)
  <2>1. efer' = [efer EXCEPT ![c] = TRUE] /\ UNCHANGED <<hsavePa, svm>>
    BY <1>4 DEF InitWriteEfer, AccessesOn
  <2>2. Where = "init_wr_efer" /\ Where' = "init_wr_hsave"
    BY <1>4, InitOrder
  <2>3. QED
    BY <2>1, <2>2
<1>5. CASE InitWriteHsave(t)
  <2>1. /\ hsavePa' = [hsavePa EXCEPT ![c] = svm.host_save_area]
        /\ efer' = efer
        /\ svm' = [svm EXCEPT !.initialized = TRUE]
    BY <1>5 DEF InitWriteHsave, AccessesOn
  <2>2. Where = "init_wr_hsave" /\ Where' = "refresh"
    BY <1>5, InitOrder
  <2>3. QED
    BY <2>1, <2>2 DEF SvmType
<1>6. QED
  BY <1>1, <1>2, <1>3, <1>4, <1>5 DEF InitSteps

LEMMA CreateKeepsMsrs ==
  ASSUME NEW c \in Cpus, NEW t \in Tasks, DriverInv, MsrShape(c),
         (CreateSteps(t) /\ ~CreateChecks(t)) \/ Vmrun(t)
  PROVE  MsrShape(c)'
<1> TypeOK /\ svm \in SvmType
  BY DEF DriverInv, TypeOK
<1> USE DEF Holds, Dispatched, Goto, Result, msrs
<1>1. UNCHANGED <<efer, hsavePa>>
  BY DEF CreateSteps, CreateVmcb, CreateGuest, CreateGuestFails, Vmrun
<1>2. /\ Where \in {"dispatch", "create_guest", "vmrun"}
      /\ Where' \in {"create_guest", "refresh", "run_copy_out"}
  <2>1. CASE CreateVmcb(t)
    BY <2>1, TaskAssumption DEF CreateVmcb, Where, TypeOK
  <2>2. CASE CreateGuest(t) \/ CreateGuestFails(t)
    BY <2>2, TaskAssumption DEF CreateGuest, CreateGuestFails, Where, TypeOK
  <2>3. CASE Vmrun(t)
    BY <2>3, TaskAssumption DEF Vmrun, Where, TypeOK
  <2>4. QED
    BY <2>1, <2>2, <2>3 DEF CreateSteps
<1>3. /\ svm'.initialized = svm.initialized
      /\ svm'.host_save_area = svm.host_save_area
      /\ svm'.efer_saved = svm.efer_saved /\ svm'.hsave_saved = svm.hsave_saved
      /\ svm'.original_efer = svm.original_efer
      /\ svm'.original_vm_hsave_pa = svm.original_vm_hsave_pa
  <2>1. CASE CreateVmcb(t)
    BY <2>1 DEF CreateVmcb, AllocPage, SvmType
  <2>2. CASE CreateGuest(t)
    BY <2>2 DEF CreateGuest, SvmType
  <2>3. CASE CreateGuestFails(t)
    BY <2>3 DEF CreateGuestFails, SvmType
  <2>4. CASE Vmrun(t)
    BY <2>4 DEF Vmrun, SvmType
  <2>5. QED
    BY <2>1, <2>2, <2>3, <2>4 DEF CreateSteps
<1>4. QED
  BY <1>1, <1>2, <1>3 DEF MsrShape, InitLabels

LEMMA DestroyKeepsMsrs ==
  ASSUME NEW c \in Cpus, NEW t \in Tasks, AccessesOn(c),
         DriverInv, MsrShape(c), DestroySteps(t)
  PROVE  MsrShape(c)'
<1> TypeOK /\ ContextShape /\ svm \in SvmType
  BY DEF DriverInv, TypeOK
<1> USE DEF Holds, Dispatched, Goto, Result, InitLabels, MsrShape, msrs, ContextShape, Settled
<1>1. BootHsave = [BootHsave EXCEPT ![c] = BootHsave[c]]
  BY PageAssumption
<1>2. BootSvme = [BootSvme EXCEPT ![c] = BootSvme[c]]
  BY CpuAssumption
<1>3. CASE DestroyHsave(t)
  <2>1. Where = "dispatch" /\ Where' = "destroy_efer"
    BY <1>3, WhereMoves DEF DestroyHsave
  <2>2. efer' = efer /\ svm' = svm
    BY <1>3 DEF DestroyHsave
  <2>3. CASE svm.hsave_saved
    <3>1. hsavePa' = [hsavePa EXCEPT ![c] = svm.original_vm_hsave_pa]
      BY <1>3, <2>3 DEF AccessesOn
    <3>2. hsavePa' = BootHsave
      BY <1>1, <2>1, <2>3, <3>1, PageAssumption
    <3>3. QED
      BY <2>1, <2>2, <3>2
  <2>4. CASE ~svm.hsave_saved
    BY <1>3, <2>1, <2>2, <2>4 DEF DestroyHsave
  <2>5. QED
    BY <2>3, <2>4
<1>4. CASE DestroyEfer(t)
  <2>1. Where = "destroy_efer" /\ Where' = "destroy_free"
    BY <1>4, WhereMoves DEF DestroyEfer
  <2>2. hsavePa' = hsavePa /\ svm' = svm
    BY <1>4 DEF DestroyEfer
  <2>3. CASE svm.efer_saved
    <3>1. efer' = [efer EXCEPT ![c] = svm.original_efer]
      BY <1>4, <2>3 DEF AccessesOn
    <3>2. efer' = BootSvme
      BY <1>2, <2>1, <2>3, <3>1, CpuAssumption
    <3>3. QED
      BY <2>1, <2>2, <3>2
  <2>4. CASE ~svm.efer_saved
    BY <1>4, <2>1, <2>2, <2>4 DEF DestroyEfer
  <2>5. QED
    BY <2>3, <2>4
<1>5. CASE DestroyFree(t)
  <2>1. Where = "destroy_free" /\ Where' \in {"exit", "refresh"}
    BY <1>5, WhereMoves DEF DestroyFree
  <2>2. svm' = ZeroSvm /\ UNCHANGED <<efer, hsavePa>>
    BY <1>5 DEF DestroyFree
  <2>3. QED
    BY <2>1, <2>2 DEF ZeroSvm
<1>6. QED
  BY <1>3, <1>4, <1>5 DEF DestroySteps

LEMMA MsrStep ==
  ASSUME NEW c \in Cpus, DriverInv, MsrShape(c), [Next]_vars, [AccessesOn(c)]_vars
  PROVE  MsrShape(c)'
<1> TypeOK /\ MutualExclusion
  BY DEF DriverInv
<1>1. CASE UNCHANGED vars
  BY <1>1, MsrQuietKeeps DEF vars, MsrQuiet, Where
<1>2. CASE UserStep
  BY <1>2, OutsideMsrQuiet, MsrQuietKeeps
<1>3. CASE ModuleExit
  BY <1>3, LockMsrQuiet, MsrQuietKeeps DEF Tasks
<1>4. ASSUME NEW t \in Tasks, Acquire(t) \/ Unlock(t) PROVE MsrShape(c)'
  BY <1>4, LockMsrQuiet, MsrQuietKeeps
<1>5. ASSUME NEW t \in Tasks, Handler(t), AccessesOn(c) PROVE MsrShape(c)'
  BY <1>4, <1>5, BranchMsrQuiet, MsrQuietKeeps, InitKeepsMsrs, CreateKeepsMsrs,
     DestroyKeepsMsrs
  DEF Handler, InitSteps, CreateSteps, RunSteps
<1>6. QED
  BY <1>1, <1>2, <1>3, <1>4, <1>5 DEF Next

LEMMA InitMsrs == Init => DriverInv /\ \A c \in Cpus : MsrShape(c)
<1>1. ASSUME Init, NEW c \in Cpus PROVE MsrShape(c)
  BY <1>1, TaskAssumption DEF Init, MsrShape, Where, InitLabels, ZeroSvm
<1>2. Init => DriverInv
  BY TypeInit, TaskAssumption
  DEF Init, DriverInv, MutualExclusion, InHandler, PagesAccounted, ContextShape, CallShape,
      Settled, Where, InitLabels, SvmPages, ZeroSvm
<1>3. QED
  BY <1>1, <1>2

(* What MsrShape says of the three host properties.                        *)
LEMMA ShapeRestored == ASSUME NEW c \in Cpus, MsrShape(c) PROVE HostRestored
  BY DEF MsrShape, HostRestored, Where, InitLabels

LEMMA ShapeHsaveLive ==
  ASSUME NEW c \in Cpus, DriverInv, MsrShape(c) PROVE HsaveNeverDangles
<1> SUFFICES ASSUME NEW d \in Cpus, hsavePa[d] \in freePages \cup {svm.vmcb, svm.guest_page},
                    hsavePa[d] # NULL
             PROVE  FALSE
  BY DEF HsaveNeverDangles
<1>1. TypeOK /\ PagesAccounted
  BY DEF DriverInv
<1>2. hsavePa[d] \in Pages
  BY <1>1, SvmReads DEF TypeOK
<1>3. hsavePa = BootHsave \/ hsavePa = [BootHsave EXCEPT ![c] = svm.host_save_area]
  BY DEF MsrShape, InitLabels
<1>4. hsavePa[d] = BootHsave[d] \/ hsavePa[d] = svm.host_save_area
  BY <1>3, PageAssumption
<1>5. hsavePa[d] = svm.host_save_area
  BY <1>2, <1>4, PageAssumption
<1>6. svm.host_save_area # NULL
  BY <1>5
<1>7. QED
  BY <1>1, <1>5, <1>6 DEF PagesAccounted, SvmPages

LEMMA ShapeReady ==
  ASSUME NEW c \in Cpus, DriverInv, MsrShape(c), NEW t \in Tasks, pc[t] = "vmrun"
  PROVE  efer[c] /\ hsavePa[c] = svm.host_save_area
<1>1. Where = "vmrun"
  BY TaskAssumption DEF DriverInv, MutualExclusion, InHandler, Where
<1>2. svm.initialized
  BY <1>1 DEF DriverInv, ContextShape, Settled, InitLabels
<1>3. efer = [BootSvme EXCEPT ![c] = TRUE]
  BY <1>1, <1>2 DEF MsrShape, InitLabels
<1>4. hsavePa = [BootHsave EXCEPT ![c] = svm.host_save_area]
  BY <1>1, <1>2 DEF MsrShape, InitLabels
<1>5. QED
  BY <1>3, <1>4, CpuAssumption, PageAssumption

(* Tasks may migrate as they like: if only the six MSR accesses execute on *)
(* one CPU, the host gets its registers back and none of them dangles, and *)
(* a VMRUN on that CPU finds SVM enabled and its host-save page set.  What *)
(* finding 1 costs is exactly that nothing in the code keeps them there.   *)
THEOREM OneCpuSuffices ==
  ASSUME NEW c \in Cpus
  PROVE  Spec /\ [][AccessesOn(c)]_vars =>
           [](/\ HostRestored /\ HsaveNeverDangles
              /\ \A t \in Tasks : pc[t] = "vmrun" => efer[c] /\ hsavePa[c] = svm.host_save_area)
<1>1. DriverInv /\ MsrShape(c) /\ [Next]_vars /\ [AccessesOn(c)]_vars => MsrShape(c)'
  BY MsrStep
<1>2. DriverInv /\ MsrShape(c) =>
        /\ HostRestored /\ HsaveNeverDangles
        /\ \A t \in Tasks : pc[t] = "vmrun" => efer[c] /\ hsavePa[c] = svm.host_save_area
  BY ShapeRestored, ShapeHsaveLive, ShapeReady
<1>3. Init => MsrShape(c)
  BY InitMsrs
<1>4. QED
  BY <1>1, <1>2, <1>3, Invariance, PTL DEF Spec

(* The premise holds in particular when every task is bound to one CPU.    *)
THEOREM PinnedInvariance == Spec => []PinnedInv
<1>1. Init => PinnedInv
  BY InitMsrs DEF PinnedInv
<1>2. PinnedInv /\ [Next]_vars => PinnedInv'
  <2> SUFFICES ASSUME PinnedInv, [Next]_vars PROVE PinnedInv'
    OBVIOUS
  <2>1. DriverInv /\ DriverInv'
    BY TypeStep, LockStep, ContextStep DEF PinnedInv, DriverInv
  <2>2. ASSUME NEW c \in Cpus, \A t \in Tasks : Affinity[t] = {c} PROVE MsrShape(c)'
    <3>1. AccessesOn(c) /\ MsrShape(c)
      BY <2>1, <2>2, BoundAccesses DEF PinnedInv, DriverInv
    <3>2. QED
      BY <2>1, <3>1, MsrStep
  <2>3. QED
    BY <2>1, <2>2 DEF PinnedInv
<1>3. QED
  BY <1>1, <1>2, PTL DEF Spec

(* With every caller bound to one CPU, destroy and unload give the CPUs    *)
(* their MSRs back.                                                        *)
THEOREM PinnedHostRestored == ASSUME Pinned PROVE Spec => []HostRestored
<1>1. PinnedInv => HostRestored
  BY ShapeRestored DEF Pinned, PinnedInv
<1>2. QED
  BY <1>1, PinnedInvariance, PTL

(* ... no CPU keeps using a freed host-save page ...                       *)
THEOREM PinnedHsaveLive == ASSUME Pinned PROVE Spec => []HsaveNeverDangles
<1>1. PinnedInv => HsaveNeverDangles
  BY ShapeHsaveLive DEF Pinned, PinnedInv
<1>2. QED
  BY <1>1, PinnedInvariance, PTL

(* ... and VMRUN is executed only where SVM is enabled.                    *)
THEOREM PinnedVmrunReady == ASSUME Pinned PROVE Spec => []VmrunReady
<1>1. PinnedInv => VmrunReady
  <2> SUFFICES ASSUME PinnedInv, NEW t \in Tasks, pc[t] = "vmrun", NEW d \in Affinity[t]
               PROVE  efer[d] /\ hsavePa[d] = svm.host_save_area
    BY DEF VmrunReady
  <2>1. PICK c \in Cpus : \A u \in Tasks : Affinity[u] = {c}
    BY DEF Pinned
  <2>2. MsrShape(c) /\ DriverInv /\ d = c
    BY <2>1 DEF PinnedInv
  <2>3. QED
    BY <2>2, ShapeReady
<1>2. QED
  BY <1>1, PinnedInvariance, PTL
=============================================================================

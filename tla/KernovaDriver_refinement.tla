---------------------- MODULE KernovaDriver_refinement ----------------------
(***************************************************************************)
(* The driver implements the life cycle of DriverLifecycle, for every set  *)
(* of processes, CPUs and pages.                                           *)
(***************************************************************************)
EXTENDS KernovaDriver_proofs

(* The labels at which a call has no return value yet, and at which it has.*)
Before == {"lock", "dispatch", "create_guest", "vmrun", "destroy_efer", "destroy_free"}
            \cup InitLabels
After == {"run_copy_out", "refresh", "unlock"}

(* The return value and the command of a process's call, and the file it   *)
(* was called on.                                                          *)
CallReturn(p) ==
  /\ pc[p] \in Before => call[p].ret = "none"
  /\ pc[p] \in After => call[p].ret \in Errors \cup {"OK"}
  /\ pc[p] = "oops" => call[p].ret = "oops"
  /\ pc[p] = "create_guest" => call[p].cmd = "CREATE_VM"
  /\ pc[p] \in {"destroy_efer", "destroy_free"} => call[p].cmd = "DESTROY_VM"
  /\ pc[p] \notin {"user", "oops"} => fd[p]
  /\ fd[p] => module = "loaded"

(* The capabilities were refreshed when the lock was taken; only the       *)
(* parameter can have changed since.                                       *)
FreshCaps(p) ==
  pc[p] = "dispatch" =>
    /\ caps.runtime_state = CapsOf(svm, hw.svm, allow_vmrun).runtime_state
    /\ caps.last_exit_code = svm.last_exit_code

(* The module leaves nothing behind.                                       *)
ModuleShape ==
  /\ module = "unloaded" => svm = ZeroSvm
  /\ pc[Admin] = "exit" => svm = ZeroSvm
  /\ pc[Admin] # "user" => module = "exiting"
  /\ pc[Admin] # "create_guest"

RefinementInv ==
  /\ DriverInv
  /\ ModuleShape
  /\ \A p \in Procs : CallReturn(p) /\ FreshCaps(p)

-----------------------------------------------------------------------------
(* A task writes the records of no other task.                             *)
LEMMA OthersKept ==
  ASSUME TypeOK, NEW t \in Tasks, Acquire(t) \/ Handler(t)
  PROVE  /\ \A u \in Tasks \ {t} : pc'[u] = pc[u] /\ call'[u] = call[u]
         /\ \A p \in Procs \ {t} : fd'[p] = fd[p]
         /\ UNCHANGED <<hw, module, allow_vmrun>>
<1> USE DEF TypeOK, Goto, Result, outside
<1>1. CASE Acquire(t) \/ Query(t) \/ UnknownCommand(t) \/ CopyInFails(t) \/ WrongBackend(t)
  BY <1>1 DEF Acquire, Query, UnknownCommand, CopyInFails, WrongBackend
<1>2. CASE InitSteps(t)
  <2>1. CASE InitChecks(t) \/ InitAlloc(t)
    BY <2>1 DEF InitChecks, InitAlloc
  <2>2. CASE InitReadEfer(t) \/ InitReadHsave(t) \/ InitWriteEfer(t) \/ InitWriteHsave(t)
    BY <2>2 DEF InitReadEfer, InitReadHsave, InitWriteEfer, InitWriteHsave
  <2>3. QED
    BY <1>2, <2>1, <2>2 DEF InitSteps
<1>3. CASE CreateSteps(t)
  BY <1>3 DEF CreateSteps, CreateChecks, CreateVmcb, CreateGuest, CreateGuestFails
<1>4. CASE RunSteps(t)
  BY <1>4 DEF RunSteps, RunChecks, Vmrun, VmrunFaults, RunCopyOut
<1>5. CASE DestroySteps(t)
  BY <1>5 DEF DestroySteps, DestroyHsave, DestroyEfer, DestroyFree
<1>6. CASE Refresh(t) \/ Unlock(t)
  BY <1>6 DEF Refresh, Unlock
<1>7. QED
  BY <1>1, <1>2, <1>3, <1>4, <1>5, <1>6 DEF Handler

(* A handler step is taken by the holder of the lock, inside the handler;  *)
(* it never goes back to the switch, and to two labels one way only.       *)
LEMMA HolderSteps ==
  ASSUME TypeOK, NEW t \in Tasks, Handler(t)
  PROVE  /\ lock = t
         /\ pc[t] \notin {"user", "lock", "oops", "exit"}
         /\ pc'[t] # "dispatch"
         /\ pc'[t] = "exit" => DestroyFree(t)
         /\ pc'[t] = "create_guest" => CreateVmcb(t)
<1> USE DEF TypeOK, Holds, Dispatched, Goto, Result
<1>1. CASE Query(t) \/ UnknownCommand(t) \/ CopyInFails(t) \/ WrongBackend(t)
  BY <1>1 DEF Query, UnknownCommand, CopyInFails, WrongBackend
<1>2. CASE InitSteps(t)
  BY <1>2 DEF InitSteps, InitChecks, InitAlloc, InitReadEfer, InitReadHsave, InitWriteEfer,
              InitWriteHsave
<1>3. CASE CreateSteps(t)
  BY <1>3 DEF CreateSteps, CreateChecks, CreateVmcb, CreateGuest, CreateGuestFails
<1>4. CASE RunSteps(t)
  BY <1>4 DEF RunSteps, RunChecks, Vmrun, VmrunFaults, RunCopyOut
<1>5. CASE DestroySteps(t)
  BY <1>5 DEF DestroySteps, DestroyHsave, DestroyEfer, DestroyFree
<1>6. CASE Refresh(t) \/ Unlock(t)
  BY <1>6 DEF Refresh, Unlock
<1>7. QED
  BY <1>1, <1>2, <1>3, <1>4, <1>5, <1>6 DEF Handler

(* What the step of a task does to its own call: it goes on without an     *)
(* answer, sets the answer, keeps or replaces it on the way out, or ends.  *)
GoesOn(t) ==
  /\ pc[t] \in Before /\ pc'[t] \in Before \ {"lock"} /\ call'[t] = call[t]
  /\ pc'[t] = "create_guest" => call[t].cmd = "CREATE_VM"
  /\ pc'[t] \in {"destroy_efer", "destroy_free"} =>
       call[t].cmd = "DESTROY_VM" \/ pc[t] = "destroy_efer"
Answered(t, r) ==
  pc[t] \in Before \ {"lock"} /\ pc'[t] \in After /\ call'[t] = [call[t] EXCEPT !.ret = r]
Leaves(t) == pc[t] \in After /\ pc'[t] \in After /\ call'[t] = call[t]

LEMMA OwnEffect ==
  ASSUME DriverInv, NEW p \in Procs, Acquire(p) \/ Handler(p)
  PROVE  /\ \/ GoesOn(p) \/ Leaves(p)
            \/ \E r \in Errors \cup {"OK"} : Answered(p, r)
            \/ Query(p) /\ pc'[p] = "unlock" /\ call'[p] = [call[p] EXCEPT !.ret = "OK", !.reply = caps]
            \/ RunCopyOut(p) /\ pc'[p] = "refresh" /\ call'[p] = [call[p] EXCEPT !.ret = "EFAULT"]
            \/ Unlock(p) /\ pc'[p] = "user" /\ call'[p] = NoCall
            \/ VmrunFaults(p) /\ pc'[p] = "oops" /\ call'[p] = [call[p] EXCEPT !.ret = "oops"]
         /\ fd'[p] = fd[p] \/ VmrunFaults(p)
<1> p \in Tasks /\ p # Admin
  BY TaskAssumption DEF Tasks
<1> USE DEF DriverInv, TypeOK, Goto, Result, outside, Holds, Dispatched, GoesOn, Answered, Leaves,
            Before, After, InitLabels, Errors
<1>1. CASE Acquire(p)
  BY <1>1 DEF Acquire
<1>2. CASE Query(p)
  BY <1>2 DEF Query
<1>3. CASE UnknownCommand(p) \/ CopyInFails(p) \/ WrongBackend(p)
  BY <1>3 DEF UnknownCommand, CopyInFails, WrongBackend
<1>4. CASE InitSteps(p)
  <2>1. CASE InitChecks(p)
    BY <2>1 DEF InitChecks
  <2>2. CASE InitAlloc(p) \/ InitReadEfer(p) \/ InitReadHsave(p)
    BY <2>2 DEF InitAlloc, InitReadEfer, InitReadHsave
  <2>3. CASE InitWriteEfer(p) \/ InitWriteHsave(p)
    BY <2>3 DEF InitWriteEfer, InitWriteHsave
  <2>4. QED
    BY <1>4, <2>1, <2>2, <2>3 DEF InitSteps
<1>5. CASE CreateSteps(p)
  <2>1. CASE CreateChecks(p)
    BY <2>1 DEF CreateChecks
  <2>2. CASE CreateVmcb(p)
    BY <2>2 DEF CreateVmcb
  <2>3. CASE CreateGuest(p)
    BY <2>3 DEF CreateGuest
  <2>4. CASE CreateGuestFails(p)
    BY <2>4 DEF CreateGuestFails
  <2>5. QED
    BY <1>5, <2>1, <2>2, <2>3, <2>4 DEF CreateSteps
<1>6. CASE RunSteps(p)
  <2>1. CASE RunChecks(p)
    BY <2>1 DEF RunChecks
  <2>2. CASE Vmrun(p)
    BY <2>2 DEF Vmrun
  <2>3. CASE VmrunFaults(p)
    BY <2>3 DEF VmrunFaults
  <2>4. CASE RunCopyOut(p)
    BY <2>4 DEF RunCopyOut
  <2>5. QED
    BY <1>6, <2>1, <2>2, <2>3, <2>4 DEF RunSteps
<1>7. CASE DestroySteps(p)
  BY <1>7 DEF DestroySteps, DestroyHsave, DestroyEfer, DestroyFree, CallShape
<1>8. CASE Refresh(p)
  BY <1>8 DEF Refresh
<1>9. CASE Unlock(p)
  BY <1>9 DEF Unlock
<1>10. QED
  BY <1>1, <1>2, <1>3, <1>4, <1>5, <1>6, <1>7, <1>8, <1>9 DEF Handler

(* A handler whose task is not p keeps what the invariant says of p.       *)
LEMMA OtherHandler ==
  ASSUME RefinementInv, NEW t \in Tasks, Acquire(t) \/ Handler(t), NEW p \in Procs, p # t
  PROVE  CallReturn(p)' /\ FreshCaps(p)'
<1>1. p \in Tasks /\ pc'[p] = pc[p] /\ call'[p] = call[p] /\ fd'[p] = fd[p] /\ module' = module
  BY OthersKept DEF RefinementInv, DriverInv, Tasks
<1>2. CallReturn(p)'
  BY <1>1 DEF RefinementInv, CallReturn
<1>3. pc[p] # "dispatch"
  <2>1. lock = t \/ lock = Nobody
    BY HolderSteps DEF Acquire, RefinementInv, DriverInv
  <2>2. QED
    BY <1>1, <2>1, TaskAssumption DEF RefinementInv, DriverInv, MutualExclusion, InHandler
<1>4. QED
  BY <1>1, <1>2, <1>3 DEF FreshCaps

LEMMA OwnHandler ==
  ASSUME RefinementInv, NEW p \in Procs, Acquire(p) \/ Handler(p)
  PROVE  CallReturn(p)' /\ FreshCaps(p)'
<1>1. /\ p \in Tasks /\ p # Admin /\ call[p] \in CallType /\ UNCHANGED <<hw, module, allow_vmrun>>
      /\ DriverInv
  BY OthersKept, TaskAssumption DEF RefinementInv, DriverInv, TypeOK, Tasks
<1>2. fd'[p] = fd[p] \/ pc'[p] = "oops"
  <2>1. VmrunFaults(p) => pc'[p] = "oops"
    BY <1>1 DEF VmrunFaults, Result, Goto, TypeOK, DriverInv
  <2>2. QED
    BY <1>1, <2>1, OwnEffect
<1>3. CallReturn(p)'
  <2>1. CASE GoesOn(p) \/ Leaves(p)
    <3>1. fd'[p] = fd[p]
      BY <1>2, <2>1 DEF GoesOn, Leaves, Before, After, InitLabels
    <3>2. QED
      BY <1>1, <2>1, <3>1 DEF RefinementInv, CallReturn, GoesOn, Leaves, Before, After, InitLabels
  <2>2. CASE \E r \in Errors \cup {"OK"} : Answered(p, r)
    <3>1. fd'[p] = fd[p]
      BY <1>2, <2>2 DEF Answered, After
    <3>2. QED
      BY <1>1, <2>2, <3>1
      DEF RefinementInv, CallReturn, Answered, Before, After, InitLabels, CallType
  <2>3. CASE Query(p) /\ pc'[p] = "unlock" /\ call'[p] = [call[p] EXCEPT !.ret = "OK", !.reply = caps]
    <3>1. fd'[p] = fd[p] /\ pc[p] = "dispatch"
      BY <2>3 DEF Query, outside, Dispatched, Holds
    <3>2. QED
      BY <1>1, <2>3, <3>1 DEF RefinementInv, CallReturn, Before, After, InitLabels, CallType
  <2>4. CASE RunCopyOut(p) /\ pc'[p] = "refresh" /\ call'[p] = [call[p] EXCEPT !.ret = "EFAULT"]
    <3>1. fd'[p] = fd[p] /\ pc[p] = "run_copy_out"
      BY <2>4 DEF RunCopyOut, outside, Holds
    <3>2. QED
      BY <1>1, <2>4, <3>1
      DEF RefinementInv, CallReturn, Before, After, InitLabels, CallType, Errors
  <2>5. CASE Unlock(p) /\ pc'[p] = "user"
    <3>1. fd'[p] = fd[p]
      BY <2>5 DEF Unlock, outside
    <3>2. QED
      BY <1>1, <2>5, <3>1 DEF RefinementInv, CallReturn, Before, After, InitLabels
  <2>6. CASE VmrunFaults(p) /\ pc'[p] = "oops" /\ call'[p] = [call[p] EXCEPT !.ret = "oops"]
    <3>1. ~fd'[p]
      BY <2>6 DEF VmrunFaults, RefinementInv, DriverInv, TypeOK
    <3>2. QED
      BY <1>1, <2>6, <3>1 DEF CallReturn, Before, After, InitLabels, CallType
  <2>7. QED
    BY <1>1, <2>1, <2>2, <2>3, <2>4, <2>5, <2>6, OwnEffect
<1>4. FreshCaps(p)'
  <2>1. CASE Acquire(p)
    <3>1. caps' = CapsOf(svm, hw.svm, allow_vmrun) /\ svm' = svm
      BY <1>1, <2>1 DEF Acquire, refresh_caps_locked, DriverInv, CallShape
    <3>2. QED
      BY <1>1, <3>1 DEF FreshCaps, CapsOf
  <2>2. CASE Handler(p)
    <3>1. pc'[p] # "dispatch"
      BY <1>1, <2>2, HolderSteps DEF DriverInv
    <3>2. QED
      BY <3>1 DEF FreshCaps
  <2>3. QED
    BY <2>1, <2>2
<1>5. QED
  BY <1>3, <1>4

(* The context changes only in a handler.                                  *)
LEMMA OutsideCalls ==
  ASSUME RefinementInv, UserStep \/ ModuleExit, NEW p \in Procs
  PROVE  CallReturn(p)' /\ FreshCaps(p)'
<1> p \in Tasks /\ p # Admin
  BY TaskAssumption DEF Tasks
<1> USE DEF RefinementInv, CallReturn, FreshCaps, CapsOf
<1>1. CASE Insmod
  BY <1>1 DEF Insmod, Before, After, InitLabels
<1>2. CASE Rmmod
  BY <1>2 DEF Rmmod, Goto, DriverInv, TypeOK
<1>3. CASE SetAllowVmrun
  BY <1>3 DEF SetAllowVmrun
<1>4. ASSUME NEW q \in Procs, Open(q) \/ Close(q)
      PROVE  CallReturn(p)' /\ FreshCaps(p)'
  BY <1>4 DEF Open, Close, DriverInv, TypeOK, Before, After, InitLabels
<1>5. ASSUME NEW q \in Procs, Ioctl(q)
      PROVE  CallReturn(p)' /\ FreshCaps(p)'
  <2>1. CASE p = q
    <3>1. pc'[p] = "lock" /\ call'[p].ret = "none" /\ fd'[p] /\ module' = module /\ fd[p]
      BY <1>5, <2>1 DEF Ioctl, Goto, outside, Calling, NoCall, DriverInv, TypeOK
    <3>2. QED
      BY <3>1 DEF Before, After
  <2>2. CASE p # q
    BY <1>5, <2>2 DEF Ioctl, Goto, outside, DriverInv, TypeOK
  <2>3. QED
    BY <2>1, <2>2
<1>6. CASE ModuleExit
  <2>1. module = "exiting" /\ pc'[p] = pc[p] /\ call'[p] = call[p] /\ fd' = fd /\ svm' = svm
    BY <1>6 DEF ModuleExit, Holds, Goto, ModuleShape, DriverInv, TypeOK
  <2>2. pc[p] \in {"user", "oops"}
    BY <2>1
  <2>3. QED
    BY <2>1, <2>2 DEF Before, After, InitLabels
<1>7. QED
  BY <1>1, <1>2, <1>3, <1>4, <1>5, <1>6 DEF UserStep

LEMMA ModuleShapeStep ==
  ASSUME RefinementInv, [Next]_vars
  PROVE  ModuleShape'
<1> USE DEF RefinementInv, DriverInv, TypeOK, ModuleShape
<1> Admin \in Tasks /\ Admin \notin Procs
  BY TaskAssumption DEF Tasks
<1>1. CASE UNCHANGED vars
  BY <1>1 DEF vars
<1>2. CASE Insmod \/ SetAllowVmrun
  BY <1>2 DEF Insmod, SetAllowVmrun
<1>3. CASE Rmmod
  BY <1>3 DEF Rmmod, Goto
<1>4. ASSUME NEW p \in Procs, Open(p) \/ Close(p) \/ Ioctl(p)
      PROVE  ModuleShape'
  BY <1>4 DEF Open, Close, Ioctl, Goto, outside
<1>5. CASE ModuleExit
  BY <1>5 DEF ModuleExit, Goto, Holds
<1>6. ASSUME NEW t \in Tasks, Acquire(t) PROVE ModuleShape'
  BY <1>6 DEF Acquire, Goto, outside
<1>7. ASSUME NEW t \in Tasks, Handler(t) PROVE ModuleShape'
  <2>1. UNCHANGED module /\ (t # Admin => pc'[Admin] = pc[Admin])
    BY <1>7, OthersKept
  <2>2. lock = t /\ InHandler(t) /\ pc[t] # "oops"
    BY <1>7, HolderSteps DEF InHandler
  <2>3. CASE t # Admin
    <3>1. module = "loaded"
      BY <2>2, <2>3 DEF CallReturn, InHandler, Tasks
    <3>2. pc[Admin] # "exit"
      BY <2>2, <2>3 DEF MutualExclusion, InHandler
    <3>3. QED
      BY <2>1, <2>3, <3>1, <3>2
  <2>4. CASE t = Admin
    <3>1. module = "exiting"
      BY <2>2, <2>4 DEF InHandler
    <3>2. pc'[Admin] = "exit" => DestroyFree(Admin)
      BY <1>7, <2>4, HolderSteps
    <3>3. pc'[Admin] # "create_guest"
      BY <1>7, <2>2, <2>4, HolderSteps DEF CreateVmcb, Dispatched, CallShape, InHandler
    <3>4. QED
      BY <2>1, <3>1, <3>2, <3>3 DEF DestroyFree
  <2>5. QED
    BY <2>3, <2>4
<1>8. QED
  BY <1>1, <1>2, <1>3, <1>4, <1>5, <1>6, <1>7 DEF Next, UserStep

LEMMA RefinementStep == RefinementInv /\ [Next]_vars => RefinementInv'
<1> SUFFICES ASSUME RefinementInv, [Next]_vars PROVE RefinementInv'
  OBVIOUS
<1>1. DriverInv'
  BY TypeStep, LockStep, ContextStep DEF RefinementInv, DriverInv
<1>2. ModuleShape'
  BY ModuleShapeStep
<1>3. ASSUME NEW p \in Procs PROVE CallReturn(p)' /\ FreshCaps(p)'
  <2>1. CASE UNCHANGED vars
    BY <2>1 DEF vars, RefinementInv, CallReturn, FreshCaps, CapsOf
  <2>2. CASE UserStep \/ ModuleExit
    BY <2>2, OutsideCalls
  <2>3. ASSUME NEW t \in Tasks, Acquire(t) \/ Handler(t)
        PROVE  CallReturn(p)' /\ FreshCaps(p)'
    BY <2>3, OtherHandler, OwnHandler
  <2>4. QED
    BY <2>1, <2>2, <2>3 DEF Next
<1>4. QED
  BY <1>1, <1>2, <1>3 DEF RefinementInv

-----------------------------------------------------------------------------
(* The abstract view of the driver.                                        *)
absPhase == PhaseOf(CapsOf(svm, hw.svm, allow_vmrun))
absOp == [p \in Procs |-> AbsOp(p)]
NoSnap == [phase |-> "UNLOADED", lastExit |-> NoExit]

(* What a process looks like at each stage of its call.                    *)
LEMMA Views ==
  ASSUME NEW p \in Procs
  PROVE  /\ pc[p] = "user" => AbsOp(p) = [cmd |-> "none", result |-> "none", snap |-> NoSnap]
         /\ pc[p] # "user" /\ call[p].ret = "none" =>
              AbsOp(p) = [cmd |-> call[p].cmd, result |-> "pending", snap |-> NoSnap]
         /\ pc[p] # "user" /\ call[p].ret \in Errors =>
              AbsOp(p) = [cmd |-> call[p].cmd, result |-> "error", snap |-> NoSnap]
         /\ pc[p] # "user" /\ call[p].ret = "oops" =>
              AbsOp(p) = [cmd |-> call[p].cmd, result |-> "dead", snap |-> NoSnap]
         /\ pc[p] # "user" /\ call[p].ret = "OK" /\ call[p].cmd # "QUERY_CAPS" =>
              AbsOp(p) = [cmd |-> call[p].cmd, result |-> "ok", snap |-> NoSnap]
         /\ pc[p] # "user" /\ call[p].ret = "OK" /\ call[p].cmd = "QUERY_CAPS" =>
              AbsOp(p) = [cmd |-> call[p].cmd, result |-> "ok",
                          snap |-> [phase |-> call[p].reply.runtime_state,
                                    lastExit |-> call[p].reply.last_exit_code]]
  BY DEF AbsOp, NoSnap, Errors

LEMMA NextViews ==
  ASSUME NEW p \in Procs
  PROVE  /\ pc'[p] = "user" => AbsOp(p)' = [cmd |-> "none", result |-> "none", snap |-> NoSnap]
         /\ pc'[p] # "user" /\ call'[p].ret = "none" =>
              AbsOp(p)' = [cmd |-> call'[p].cmd, result |-> "pending", snap |-> NoSnap]
         /\ pc'[p] # "user" /\ call'[p].ret \in Errors =>
              AbsOp(p)' = [cmd |-> call'[p].cmd, result |-> "error", snap |-> NoSnap]
         /\ pc'[p] # "user" /\ call'[p].ret = "oops" =>
              AbsOp(p)' = [cmd |-> call'[p].cmd, result |-> "dead", snap |-> NoSnap]
         /\ pc'[p] # "user" /\ call'[p].ret = "OK" /\ call'[p].cmd # "QUERY_CAPS" =>
              AbsOp(p)' = [cmd |-> call'[p].cmd, result |-> "ok", snap |-> NoSnap]
         /\ pc'[p] # "user" /\ call'[p].ret = "OK" /\ call'[p].cmd = "QUERY_CAPS" =>
              AbsOp(p)' = [cmd |-> call'[p].cmd, result |-> "ok",
                           snap |-> [phase |-> call'[p].reply.runtime_state,
                                     lastExit |-> call'[p].reply.last_exit_code]]
  BY DEF AbsOp, NoSnap, Errors

LEMMA SameView ==
  ASSUME NEW p \in Procs, call'[p] = call[p], pc[p] = "user" <=> pc'[p] = "user"
  PROVE  AbsOp(p)' = AbsOp(p)
  BY DEF AbsOp

(* The calls of the others stay as they are, and p's becomes v.            *)
LEMMA OneView ==
  ASSUME NEW p \in Procs, \A q \in Procs \ {p} : AbsOp(q)' = AbsOp(q), NEW v, AbsOp(p)' = v
  PROVE  absOp' = [absOp EXCEPT ![p] = v]
  BY DEF absOp

(* The answer to a call, as DriverLifecycle puts it.                       *)
LEMMA AnswerView ==
  ASSUME NEW p \in Procs, \A q \in Procs \ {p} : AbsOp(q)' = AbsOp(q),
         NEW c, NEW r0, NEW s0, AbsOp(p) = [cmd |-> c, result |-> r0, snap |-> s0],
         NEW r, NEW s, AbsOp(p)' = [cmd |-> c, result |-> r, snap |-> s]
  PROVE  Abs!Answer(p, r, s)
<1> DEFINE w == [cmd |-> c, result |-> r, snap |-> s]
           b == absOp[p]
           u == [b EXCEPT !.result = r, !.snap = s]
           R == [cmd : {c}, result : {r0, r}, snap : {s0, s}]
<1>1. absOp' = [absOp EXCEPT ![p] = w]
  BY OneView
<1>2. absOp = [q \in Procs |-> absOp[q]] /\ b = [cmd |-> c, result |-> r0, snap |-> s0]
  BY DEF absOp
<1> HIDE DEF absOp
<1>3. u = w
  <2>1. b \in R /\ w \in R /\ b.cmd = w.cmd /\ w.result = r /\ w.snap = s
    BY <1>2
  <2> HIDE DEF w, b
  <2>2. u \in R /\ u.cmd = w.cmd /\ u.result = w.result /\ u.snap = w.snap
    BY <2>1
  <2> HIDE DEF u
  <2>3. QED
    BY <2>1, <2>2
<1>4. absOp' = [absOp EXCEPT ![p] = u]
  <2> HIDE DEF u, w
  <2>1. QED
    BY <1>1, <1>3
<1>5. absOp' = [absOp EXCEPT ![p].result = r, ![p].snap = s]
  BY <1>2, <1>4
<1>6. QED
  BY <1>5 DEF Abs!Answer, absOp

(* What phase and exit the context stands for.                             *)
LEMMA Phase ==
  /\ module = "unloaded" => absPhase = "UNLOADED"
  /\ module # "unloaded" =>
       absPhase = IF svm.vm_created THEN "VM_CREATED"
                  ELSE IF svm.initialized THEN "BACKEND_INITIALIZED" ELSE "CAPS_READY"
  BY DEF absPhase, PhaseOf, CapsOf

LEMMA NextPhase ==
  /\ module' = "unloaded" => absPhase' = "UNLOADED"
  /\ module' # "unloaded" =>
       absPhase' = IF svm'.vm_created THEN "VM_CREATED"
                   ELSE IF svm'.initialized THEN "BACKEND_INITIALIZED" ELSE "CAPS_READY"
  BY DEF absPhase, PhaseOf, CapsOf

LEMMA RefinedInit == Init => Abs!AbsInit
<1> SUFFICES ASSUME Init PROVE Abs!AbsInit
  OBVIOUS
<1>1. absPhase = "UNLOADED" /\ svm.last_exit_code = NoExit
  BY DEF Init, absPhase, PhaseOf, ZeroSvm
<1>2. \A p \in Procs : AbsOp(p) = [cmd |-> "none", result |-> "none", snap |-> NoSnap]
  BY Views DEF Init, Tasks
<1>3. QED
  BY <1>1, <1>2 DEF Abs!AbsInit, Abs!Idle, Abs!NoSnap, absPhase, NoSnap

-----------------------------------------------------------------------------
(* Steps of a handler seen from outside.                                   *)
AbsQuiet == absPhase' = absPhase /\ svm'.last_exit_code = svm.last_exit_code
Refines == Abs!AbsNext \/ UNCHANGED Abs!absVars

LEMMA OthersView ==
  ASSUME RefinementInv, NEW t \in Tasks, Acquire(t) \/ Handler(t)
  PROVE  \A q \in Procs \ {t} : AbsOp(q)' = AbsOp(q)
  BY OthersKept, SameView DEF RefinementInv, DriverInv, Tasks

(* The context flags did not change.                                       *)
LEMMA QuietPhase ==
  ASSUME module' = module, svm'.initialized = svm.initialized,
         svm'.vm_created = svm.vm_created, svm'.last_exit_code = svm.last_exit_code
  PROVE  AbsQuiet
  BY Phase, NextPhase DEF AbsQuiet

LEMMA Stutters ==
  ASSUME \A q \in Procs : AbsOp(q)' = AbsOp(q), AbsQuiet
  PROVE  Refines
<1>1. absOp' = absOp
  BY DEF absOp
<1>2. QED
  BY <1>1 DEF Refines, Abs!absVars, AbsQuiet, absPhase, absOp

(* What is known of a process that is about to be answered.                *)
LEMMA PendingView ==
  ASSUME RefinementInv, NEW p \in Procs, pc[p] \in Before
  PROVE  /\ AbsOp(p) = [cmd |-> call[p].cmd, result |-> "pending", snap |-> NoSnap]
         /\ absOp[p] = AbsOp(p)
         /\ module = "loaded"
<1>1. call[p].ret = "none" /\ pc[p] # "user" /\ fd[p] /\ module = "loaded"
  BY DEF RefinementInv, CallReturn, Before, InitLabels
<1>2. QED
  BY <1>1, Views DEF absOp

LEMMA AnsweredView ==
  ASSUME RefinementInv, NEW p \in Procs, Handler(p), NEW r \in Errors \cup {"OK"},
         Answered(p, r), r = "OK" => call[p].cmd # "QUERY_CAPS"
  PROVE  Abs!Answer(p, IF r = "OK" THEN "ok" ELSE "error", NoSnap)
<1>1. \A q \in Procs \ {p} : AbsOp(q)' = AbsOp(q)
  BY OthersView DEF Tasks
<1>2. AbsOp(p) = [cmd |-> call[p].cmd, result |-> "pending", snap |-> NoSnap]
  BY PendingView DEF Answered
<1>3. call[p] \in CallType /\ call'[p].ret = r /\ call'[p].cmd = call[p].cmd /\ pc'[p] # "user"
  BY DEF Answered, RefinementInv, DriverInv, TypeOK, CallType, After, Tasks
<1>4. AbsOp(p)' = [cmd |-> call[p].cmd, result |-> IF r = "OK" THEN "ok" ELSE "error",
                   snap |-> NoSnap]
  BY <1>3, NextViews DEF Errors
<1> HIDE DEF NoSnap
<1>5. QED
  BY <1>1, <1>2, <1>4, AnswerView

LEMMA Rejects ==
  ASSUME RefinementInv, NEW p \in Procs, Handler(p), NEW r \in Errors, Answered(p, r),
         call[p].cmd # "DESTROY_VM", AbsQuiet
  PROVE  Refines
<1>1. Abs!Answer(p, "error", NoSnap)
  BY AnsweredView DEF Errors
<1>2. absOp[p].result = "pending" /\ absOp[p].cmd # "DESTROY_VM"
  BY PendingView DEF Answered
<1>3. Abs!Reject(p)
  BY <1>1, <1>2 DEF Abs!Reject, Abs!NoSnap, NoSnap, AbsQuiet, absPhase, absOp
<1>4. QED
  BY <1>3 DEF Refines, Abs!AbsNext

LEMMA IsPendingView ==
  ASSUME RefinementInv, NEW p \in Procs, pc[p] \in Before, NEW c, call[p].cmd = c
  PROVE  Abs!IsPending(p, c)
<1>1. absOp[p] = [cmd |-> c, result |-> "pending", snap |-> NoSnap]
  BY PendingView
<1>2. QED
  BY <1>1 DEF Abs!IsPending, Abs!Pending, Abs!NoSnap, NoSnap, absOp

-----------------------------------------------------------------------------
(* Each step of a handler is a step of the life cycle or none.             *)
LEMMA GoingOn ==
  ASSUME RefinementInv, NEW p \in Procs, Acquire(p) \/ Handler(p), GoesOn(p) \/ Leaves(p),
         svm'.initialized = svm.initialized, svm'.vm_created = svm.vm_created,
         svm'.last_exit_code = svm.last_exit_code
  PROVE  Refines
<1>1. AbsOp(p)' = AbsOp(p)
  BY SameView DEF GoesOn, Leaves, Before, After, InitLabels
<1>2. \A q \in Procs : AbsOp(q)' = AbsOp(q)
  BY <1>1, OthersView DEF Tasks
<1>3. AbsQuiet
  BY OthersKept, QuietPhase DEF RefinementInv, DriverInv, Tasks
<1>4. QED
  BY <1>2, <1>3, Stutters

LEMMA QueryRefines ==
  ASSUME RefinementInv, NEW p \in Procs, Query(p)
  PROVE  Refines
<1> p \in Tasks /\ p # Admin /\ Handler(p) /\ call \in [Tasks -> CallType]
  BY TaskAssumption DEF Tasks, Handler, RefinementInv, DriverInv, TypeOK
<1>1. /\ pc[p] = "dispatch" /\ pc' = [pc EXCEPT ![p] = "unlock"] /\ call[p].cmd = "QUERY_CAPS"
      /\ svm' = svm /\ module' = module
  BY DEF Query, Dispatched, Holds, Goto, Result, outside
<1>2. pc'[p] = "unlock"
  BY <1>1 DEF RefinementInv, DriverInv, TypeOK
<1>3. AbsQuiet
  BY <1>1, QuietPhase
<1>4. CASE call' = [call EXCEPT ![p].ret = "EFAULT"]
  <2>1. Answered(p, "EFAULT")
    BY <1>1, <1>2, <1>4 DEF Answered, Before, After
  <2>2. QED
    BY <1>1, <1>3, <2>1, Rejects DEF Errors
<1>5. CASE call' = [call EXCEPT ![p].ret = "OK", ![p].reply = caps]
  <2>1. call'[p].ret = "OK" /\ call'[p].reply = caps /\ call'[p].cmd = "QUERY_CAPS"
    BY <1>1, <1>5 DEF CallType
  <2>2. module = "loaded" /\ AbsOp(p) = [cmd |-> "QUERY_CAPS", result |-> "pending", snap |-> NoSnap]
    BY <1>1, PendingView DEF Before
  <2>3. caps.runtime_state = absPhase /\ caps.last_exit_code = svm.last_exit_code
    BY <1>1, <2>2 DEF RefinementInv, FreshCaps, absPhase, PhaseOf
  <2> DEFINE s == [phase |-> absPhase, lastExit |-> svm.last_exit_code]
  <2>4. AbsOp(p)' = [cmd |-> "QUERY_CAPS", result |-> "ok", snap |-> s]
    BY <1>2, <2>1, <2>3, NextViews
  <2>5. \A q \in Procs \ {p} : AbsOp(q)' = AbsOp(q)
    BY OthersView
  <2>6. s = Abs!Snap
    BY DEF Abs!Snap, absPhase
  <2>7. Abs!IsPending(p, "QUERY_CAPS")
    BY <1>1, IsPendingView DEF Before
  <2>8. Abs!Answer(p, "ok", s)
    <3> HIDE DEF s, NoSnap
    <3>1. QED
      BY <2>2, <2>4, <2>5, AnswerView
  <2>9. Abs!Query(p)
    BY <1>3, <2>6, <2>7, <2>8 DEF Abs!Query, AbsQuiet, absPhase
  <2>10. QED
    BY <2>9 DEF Refines, Abs!AbsNext
<1>6. QED
  BY <1>4, <1>5 DEF Query, Result

LEMMA BranchRefines ==
  ASSUME RefinementInv, NEW p \in Procs,
         \/ UnknownCommand(p) \/ CopyInFails(p) \/ WrongBackend(p) \/ CreateChecks(p)
         \/ CreateGuestFails(p)
  PROVE  Refines
<1> p \in Tasks /\ p # Admin /\ Handler(p) /\ call \in [Tasks -> CallType] /\ pc \in [Tasks -> Labels]
    /\ svm \in SvmType
  BY TaskAssumption DEF Tasks, Handler, CreateSteps, RefinementInv, DriverInv, TypeOK
<1> USE DEF Holds, Dispatched, Goto, Result, Answered, Before, After, Errors
<1>1. CASE UnknownCommand(p) \/ CopyInFails(p) \/ WrongBackend(p) \/ CreateChecks(p)
  <2>1. svm' = svm /\ module' = module /\ call[p].cmd # "DESTROY_VM"
    BY <1>1 DEF UnknownCommand, CopyInFails, WrongBackend, CreateChecks, outside
  <2>2. AbsQuiet
    BY <2>1, QuietPhase
  <2>3. \E r \in Errors : Answered(p, r)
    BY <1>1 DEF UnknownCommand, CopyInFails, WrongBackend, CreateChecks
  <2>4. QED
    BY <2>1, <2>2, <2>3, Rejects
<1>2. CASE CreateGuestFails(p)
  <2>1. module' = module /\ svm' = [svm EXCEPT !.vmcb = NULL]
    BY <1>2 DEF CreateGuestFails, outside
  <2>2. AbsQuiet
    BY <2>1, QuietPhase DEF SvmType
  <2>3. Answered(p, "ENOMEM")
    BY <1>2 DEF CreateGuestFails
  <2>4. call[p].cmd # "DESTROY_VM"
    BY <1>2 DEF CreateGuestFails, RefinementInv, CallReturn
  <2>5. QED
    BY <2>2, <2>3, <2>4, Rejects
<1>3. QED
  BY <1>1, <1>2

(* A call that answers "ok" and is no query.                               *)
LEMMA Accepts ==
  ASSUME RefinementInv, NEW p \in Procs, Handler(p), Answered(p, "OK"), NEW c,
         call[p].cmd = c, c # "QUERY_CAPS"
  PROVE  Abs!IsPending(p, c) /\ Abs!Answer(p, "ok", Abs!NoSnap)
<1>1. Abs!IsPending(p, c)
  BY IsPendingView DEF Answered
<1>2. Abs!Answer(p, "ok", NoSnap)
  BY AnsweredView
<1>3. NoSnap = Abs!NoSnap
  BY DEF NoSnap, Abs!NoSnap
<1>4. QED
  BY <1>1, <1>2, <1>3

LEMMA InitRefines ==
  ASSUME RefinementInv, NEW p \in Procs, InitSteps(p)
  PROVE  Refines
<1> p \in Tasks /\ p # Admin /\ Handler(p) /\ call \in [Tasks -> CallType] /\ pc \in [Tasks -> Labels]
    /\ svm \in SvmType
  BY TaskAssumption DEF Tasks, Handler, RefinementInv, DriverInv, TypeOK
<1>1. module' = module /\ module = "loaded" /\ pc[p] \in Before /\ lock = p
  <2>1. pc[p] \in Before
    BY DEF InitSteps, InitChecks, InitAlloc, InitReadEfer, InitReadHsave, InitWriteEfer,
           InitWriteHsave, Dispatched, Holds, Before, InitLabels
  <2>2. QED
    BY <2>1, PendingView, OthersKept, HolderSteps DEF RefinementInv, DriverInv
<1> USE DEF Holds, Dispatched, Goto, Result, Before, After, Errors, InitLabels
<1>2. CASE InitAlloc(p) \/ InitReadEfer(p) \/ InitReadHsave(p) \/ InitWriteEfer(p)
  <2>1. GoesOn(p)
    BY <1>2 DEF InitAlloc, InitReadEfer, InitReadHsave, InitWriteEfer, GoesOn
  <2>2. /\ svm'.initialized = svm.initialized /\ svm'.vm_created = svm.vm_created
        /\ svm'.last_exit_code = svm.last_exit_code
    <3>1. CASE InitAlloc(p)
      BY <3>1 DEF InitAlloc, AllocPage, SvmType
    <3>2. CASE InitReadEfer(p)
      BY <3>2 DEF InitReadEfer, SvmType
    <3>3. CASE InitReadHsave(p)
      BY <3>3 DEF InitReadHsave, SvmType
    <3>4. CASE InitWriteEfer(p)
      BY <3>4 DEF InitWriteEfer
    <3>5. QED
      BY <1>2, <3>1, <3>2, <3>3, <3>4
  <2>3. QED
    BY <2>1, <2>2, GoingOn
<1>3. CASE InitChecks(p)
  <2>1. svm' = svm /\ call[p].cmd = "INIT_BACKEND"
    BY <1>3 DEF InitChecks
  <2>2. AbsQuiet
    BY <1>1, <2>1, QuietPhase
  <2>3. (\E r \in Errors : Answered(p, r)) \/ (Answered(p, "OK") /\ svm.initialized)
    BY <1>3 DEF InitChecks, Answered
  <2>4. CASE Answered(p, "OK") /\ svm.initialized
    <3>1. absPhase # "CAPS_READY"
      BY <1>1, <2>4, Phase
    <3>2. Abs!IsPending(p, "INIT_BACKEND") /\ Abs!Answer(p, "ok", Abs!NoSnap)
      BY <2>1, <2>4, Accepts
    <3>3. Abs!InitBackend(p)
      BY <2>2, <3>1, <3>2 DEF Abs!InitBackend, AbsQuiet, absPhase
    <3>4. QED
      BY <3>3 DEF Refines, Abs!AbsNext
  <2>5. QED
    BY <2>1, <2>2, <2>3, <2>4, Rejects
<1>4. CASE InitWriteHsave(p)
  <2>1. svm' = [svm EXCEPT !.initialized = TRUE] /\ Answered(p, "OK")
    BY <1>4 DEF InitWriteHsave, Answered
  <2>2. ~svm.initialized /\ ~svm.vm_created /\ call[p].cmd = "INIT_BACKEND"
    <3>1. pc[p] = "init_wr_hsave" /\ Where = "init_wr_hsave"
      BY <1>1, <1>4, TaskAssumption DEF InitWriteHsave, Where
    <3>2. QED
      BY <3>1 DEF RefinementInv, DriverInv, ContextShape, CallShape
  <2>3. /\ svm'.initialized /\ svm'.vm_created = svm.vm_created
        /\ svm'.last_exit_code = svm.last_exit_code
    BY <2>1 DEF SvmType
  <2>4. absPhase = "CAPS_READY" /\ absPhase' = "BACKEND_INITIALIZED"
    BY <1>1, <2>2, <2>3, Phase, NextPhase
  <2>5. Abs!IsPending(p, "INIT_BACKEND") /\ Abs!Answer(p, "ok", Abs!NoSnap)
    BY <2>1, <2>2, Accepts
  <2>6. Abs!InitBackend(p)
    BY <2>3, <2>4, <2>5 DEF Abs!InitBackend, absPhase
  <2>7. QED
    BY <2>6 DEF Refines, Abs!AbsNext
<1>5. QED
  BY <1>2, <1>3, <1>4 DEF InitSteps

LEMMA CreateRefines ==
  ASSUME RefinementInv, NEW p \in Procs, CreateSteps(p)
  PROVE  Refines
<1> p \in Tasks /\ p # Admin /\ Handler(p) /\ call \in [Tasks -> CallType] /\ pc \in [Tasks -> Labels]
    /\ svm \in SvmType
  BY TaskAssumption DEF Tasks, Handler, RefinementInv, DriverInv, TypeOK
<1> USE DEF Holds, Dispatched, Goto, Result, Before, After, Errors, InitLabels
<1>1. CASE CreateVmcb(p)
  <2>1. GoesOn(p)
    BY <1>1 DEF CreateVmcb, GoesOn
  <2>2. /\ svm'.initialized = svm.initialized /\ svm'.vm_created = svm.vm_created
        /\ svm'.last_exit_code = svm.last_exit_code
    BY <1>1 DEF CreateVmcb, AllocPage, SvmType
  <2>3. QED
    BY <2>1, <2>2, GoingOn
<1>2. CASE CreateGuest(p)
  <2>1. /\ svm'.initialized = svm.initialized /\ svm'.vm_created
        /\ svm'.last_exit_code = svm.last_exit_code
    BY <1>2 DEF CreateGuest, SvmType
  <2>2. pc[p] = "create_guest" /\ lock = p /\ module' = module /\ Answered(p, "OK")
    BY <1>2 DEF CreateGuest, outside, Answered
  <2>3. svm.initialized /\ call[p].cmd = "CREATE_VM"
    <3>1. Where = "create_guest"
      BY <2>2, TaskAssumption DEF Where
    <3>2. QED
      BY <2>2, <3>1 DEF RefinementInv, DriverInv, ContextShape, CallReturn
  <2>4. absPhase \in {"BACKEND_INITIALIZED", "VM_CREATED"} /\ absPhase' = "VM_CREATED"
    <3>1. module = "loaded"
      BY <2>2, PendingView
    <3>2. QED
      BY <2>1, <2>2, <2>3, <3>1, Phase, NextPhase
  <2>5. Abs!IsPending(p, "CREATE_VM") /\ Abs!Answer(p, "ok", Abs!NoSnap)
    BY <2>2, <2>3, Accepts
  <2>6. Abs!CreateVm(p)
    BY <2>1, <2>4, <2>5 DEF Abs!CreateVm, absPhase
  <2>7. QED
    BY <2>6 DEF Refines, Abs!AbsNext
<1>3. QED
  BY <1>1, <1>2, BranchRefines DEF CreateSteps

LEMMA RunRefines ==
  ASSUME RefinementInv, NEW p \in Procs, RunSteps(p)
  PROVE  Refines
<1> p \in Tasks /\ p # Admin /\ Handler(p) /\ call \in [Tasks -> CallType] /\ pc \in [Tasks -> Labels]
    /\ svm \in SvmType
  BY TaskAssumption DEF Tasks, Handler, RefinementInv, DriverInv, TypeOK
<1> USE DEF Holds, Dispatched, Goto, Result, Before, After, Errors, InitLabels
<1>1. CASE RunChecks(p)
  <2>1. svm' = svm /\ module' = module /\ call[p].cmd # "DESTROY_VM"
    BY <1>1 DEF RunChecks, outside
  <2>2. AbsQuiet
    BY <2>1, QuietPhase
  <2>3. GoesOn(p) \/ \E r \in Errors : Answered(p, r)
    BY <1>1 DEF RunChecks, GoesOn, Answered
  <2>4. QED
    BY <2>1, <2>2, <2>3, Rejects, GoingOn
<1>2. ASSUME pc[p] = "vmrun", lock = p, module' = module,
             svm'.initialized = svm.initialized, svm'.vm_created = svm.vm_created
      PROVE  /\ absPhase = "VM_CREATED" /\ absPhase' = absPhase
             /\ call[p].cmd = "RUN_VM" /\ Abs!IsPending(p, "RUN_VM")
  <2>1. Where = "vmrun"
    BY <1>2, TaskAssumption DEF Where
  <2>2. svm.vm_created /\ call[p].cmd = "RUN_VM"
    BY <1>2, <2>1 DEF RefinementInv, DriverInv, ContextShape, CallShape
  <2>3. module = "loaded" /\ Abs!IsPending(p, "RUN_VM")
    BY <1>2, <2>2, PendingView, IsPendingView
  <2>4. QED
    BY <1>2, <2>2, <2>3, Phase, NextPhase
<1>3. CASE Vmrun(p)
  <2>1. PICK code \in ExitCodes : svm' = [svm EXCEPT !.last_exit_code = code]
    BY <1>3 DEF Vmrun
  <2>2. /\ svm'.initialized = svm.initialized /\ svm'.vm_created = svm.vm_created
        /\ svm'.last_exit_code \in ExitCodes
    BY <2>1 DEF SvmType
  <2>3. pc[p] = "vmrun" /\ lock = p /\ module' = module /\ Answered(p, "OK")
    BY <1>3 DEF Vmrun, outside, Answered
  <2>4. Abs!Answer(p, "ok", Abs!NoSnap)
    BY <1>2, <2>2, <2>3, Accepts
  <2>5. Abs!RunVm(p)
    BY <1>2, <2>2, <2>3, <2>4 DEF Abs!RunVm, absPhase
  <2>6. QED
    BY <2>5 DEF Refines, Abs!AbsNext
<1>4. CASE VmrunFaults(p)
  <2>1. svm' = svm /\ module' = module /\ pc[p] = "vmrun" /\ lock = p
    BY <1>4 DEF VmrunFaults
  <2>2. pc'[p] = "oops" /\ call'[p].ret = "oops" /\ call'[p].cmd = call[p].cmd
    BY <1>4 DEF VmrunFaults, CallType
  <2>3. /\ AbsOp(p) = [cmd |-> "RUN_VM", result |-> "pending", snap |-> NoSnap]
        /\ AbsOp(p)' = [cmd |-> "RUN_VM", result |-> "dead", snap |-> NoSnap]
    BY <1>2, <2>1, <2>2, PendingView, NextViews
  <2>4. \A q \in Procs \ {p} : AbsOp(q)' = AbsOp(q)
    BY OthersView
  <2>5. Abs!Answer(p, "dead", NoSnap)
    <3> HIDE DEF NoSnap
    <3>1. QED
      BY <2>3, <2>4, AnswerView
  <2> DEFINE v == [cmd |-> "RUN_VM", result |-> "dead", snap |-> NoSnap]
             b == absOp[p]
             R == [cmd : {"RUN_VM"}, result : {"pending", "dead"}, snap : {NoSnap}]
  <2>6. absOp' = [absOp EXCEPT ![p] = v]
    BY <2>3, <2>4, OneView
  <2>7. v = [b EXCEPT !.result = "dead"]
    <3>1. b = [cmd |-> "RUN_VM", result |-> "pending", snap |-> NoSnap]
      BY <2>3 DEF absOp
    <3>2. b \in R /\ v \in R /\ v.cmd = b.cmd /\ v.result = "dead" /\ v.snap = b.snap
      BY <3>1
    <3> HIDE DEF b, v
    <3>3. [b EXCEPT !.result = "dead"] \in R
      BY <3>2
    <3>4. QED
      BY <3>2, <3>3
  <2>8. absOp' = [absOp EXCEPT ![p].result = "dead"]
    <3> HIDE DEF v
    <3>1. QED
      BY <2>6, <2>7
  <2>9. Abs!Perish(p)
    BY <1>2, <2>1, <2>8 DEF Abs!Perish, absPhase, absOp
  <2>10. QED
    BY <2>9 DEF Refines, Abs!AbsNext
<1>5. CASE RunCopyOut(p)
  <2>1. /\ svm' = svm /\ module' = module /\ pc[p] = "run_copy_out" /\ pc'[p] = "refresh"
        /\ call[p].cmd = "RUN_VM"
    BY <1>5 DEF RunCopyOut, outside, RefinementInv, DriverInv, CallShape
  <2>2. AbsQuiet
    BY <2>1, QuietPhase
  <2>3. CASE call' = call
    BY <2>1, <2>3, GoingOn DEF Leaves
  <2>4. CASE call' = [call EXCEPT ![p].ret = "EFAULT"]
    <3>1. call'[p].ret = "EFAULT" /\ call'[p].cmd = "RUN_VM"
      BY <2>1, <2>4 DEF CallType
    <3>2. AbsOp(p)' = [cmd |-> "RUN_VM", result |-> "error", snap |-> NoSnap]
      BY <2>1, <3>1, NextViews
    <3>3. \A q \in Procs \ {p} : AbsOp(q)' = AbsOp(q)
      BY OthersView
    <3>4. CASE call[p].ret = "OK"
      <4>1. AbsOp(p) = [cmd |-> "RUN_VM", result |-> "ok", snap |-> NoSnap]
        BY <2>1, <3>4, Views
      <4>2. Abs!Answer(p, "error", NoSnap)
        <5> HIDE DEF NoSnap
        <5>1. QED
          BY <3>2, <3>3, <4>1, AnswerView
      <4>3. absOp[p].cmd = "RUN_VM" /\ absOp[p].result = "ok"
        BY <4>1 DEF absOp
      <4>4. Abs!LoseAnswer(p)
        BY <2>2, <4>2, <4>3 DEF Abs!LoseAnswer, Abs!NoSnap, NoSnap, AbsQuiet, absPhase, absOp
      <4>5. QED
        BY <4>4 DEF Refines, Abs!AbsNext
    <3>5. CASE call[p].ret \in Errors
      <4>1. AbsOp(p)' = AbsOp(p)
        BY <2>1, <3>2, <3>5, Views
      <4>2. QED
        BY <2>2, <3>3, <4>1, Stutters
    <3>6. QED
      BY <2>1, <3>4, <3>5 DEF RefinementInv, CallReturn
  <2>5. QED
    BY <1>5, <2>3, <2>4 DEF RunCopyOut
<1>6. QED
  BY <1>1, <1>3, <1>4, <1>5 DEF RunSteps

LEMMA DestroyRefines ==
  ASSUME RefinementInv, NEW p \in Procs, DestroySteps(p)
  PROVE  Refines
<1> p \in Tasks /\ p # Admin /\ Handler(p) /\ call \in [Tasks -> CallType] /\ pc \in [Tasks -> Labels]
  BY TaskAssumption DEF Tasks, Handler, RefinementInv, DriverInv, TypeOK
<1> USE DEF Holds, Dispatched, Goto, Result, Before, After, Errors, InitLabels
<1>1. CASE DestroyHsave(p) \/ DestroyEfer(p)
  <2>1. GoesOn(p) /\ svm' = svm
    BY <1>1 DEF DestroyHsave, DestroyEfer, GoesOn, RefinementInv, DriverInv, CallShape
  <2>2. QED
    BY <2>1, GoingOn
<1>2. CASE DestroyFree(p)
  <2>1. svm' = ZeroSvm /\ module' = module /\ pc[p] = "destroy_free"
    BY <1>2 DEF DestroyFree, outside
  <2>2. call[p].cmd = "DESTROY_VM"
    BY <2>1 DEF RefinementInv, CallReturn
  <2>3. Answered(p, "OK")
    BY <1>2, <2>2 DEF DestroyFree, Answered
  <2>4. absPhase' = "CAPS_READY" /\ svm'.last_exit_code = NoExit
    BY <2>1, PendingView, NextPhase DEF ZeroSvm
  <2>5. Abs!IsPending(p, "DESTROY_VM") /\ Abs!Answer(p, "ok", Abs!NoSnap)
    BY <2>2, <2>3, Accepts
  <2>6. Abs!DestroyVm(p)
    BY <2>4, <2>5 DEF Abs!DestroyVm, absPhase
  <2>7. QED
    BY <2>6 DEF Refines, Abs!AbsNext
<1>3. QED
  BY <1>1, <1>2 DEF DestroySteps

LEMMA UnlockRefines ==
  ASSUME RefinementInv, NEW p \in Procs, Unlock(p)
  PROVE  Refines
<1> p \in Tasks /\ Handler(p) /\ call \in [Tasks -> CallType] /\ pc \in [Tasks -> Labels]
  BY DEF Tasks, Handler, RefinementInv, DriverInv, TypeOK
<1>1. pc[p] = "unlock" /\ pc'[p] = "user" /\ svm' = svm /\ module' = module
  BY DEF Unlock, Holds, Goto, outside
<1>2. AbsOp(p)' = Abs!Idle
  BY <1>1, NextViews DEF Abs!Idle, Abs!NoSnap, NoSnap
<1>3. absOp[p].result \in {"ok", "error"}
  <2>1. call[p].ret \in Errors \cup {"OK"}
    BY <1>1 DEF RefinementInv, CallReturn, After
  <2>2. AbsOp(p).result \in {"ok", "error"}
    BY <1>1, <2>1, Views
  <2>3. QED
    BY <2>2 DEF absOp
<1>4. absOp' = [absOp EXCEPT ![p] = Abs!Idle]
  BY <1>2, OthersView, OneView
<1>5. AbsQuiet
  BY <1>1, QuietPhase
<1>6. Abs!Return(p)
  BY <1>3, <1>4, <1>5 DEF Abs!Return, AbsQuiet, absPhase, absOp
<1>7. QED
  BY <1>6 DEF Refines, Abs!AbsNext

LEMMA ProcessRefines ==
  ASSUME RefinementInv, NEW p \in Procs, Acquire(p) \/ Handler(p)
  PROVE  Refines
<1> p \in Tasks /\ p # Admin /\ pc \in [Tasks -> Labels] /\ call \in [Tasks -> CallType]
  BY TaskAssumption DEF Tasks, RefinementInv, DriverInv, TypeOK
<1>1. CASE Acquire(p)
  <2>1. GoesOn(p) /\ svm' = svm
    BY <1>1 DEF Acquire, Goto, GoesOn, Before
  <2>2. QED
    BY <1>1, <2>1, GoingOn
<1>2. CASE Refresh(p)
  <2>1. Leaves(p) /\ svm' = svm
    BY <1>2 DEF Refresh, Goto, Holds, Leaves, After
  <2>2. Handler(p)
    BY <1>2 DEF Handler
  <2>3. QED
    BY <2>1, <2>2, GoingOn
<1>3. QED
  BY <1>1, <1>2, QueryRefines, BranchRefines, InitRefines, CreateRefines, RunRefines,
     DestroyRefines, UnlockRefines DEF Handler

(* module_exit discards what the processes left.                           *)
LEMMA AdminRefines ==
  ASSUME RefinementInv, Acquire(Admin) \/ Handler(Admin)
  PROVE  Refines
<1> Admin \in Tasks /\ Admin \notin Procs
  BY TaskAssumption DEF Tasks
<1> USE DEF RefinementInv, DriverInv
<1>1. \A p \in Procs : AbsOp(p)' = AbsOp(p)
  BY OthersView
<1>2. module' = module
  BY OthersKept
<1>3. CASE svm' = svm
  BY <1>1, <1>2, <1>3, QuietPhase, Stutters
<1>4. CASE svm' # svm
  <2>1. Handler(Admin) /\ pc[Admin] # "user"
    BY <1>4, HolderSteps DEF Acquire
  <2>2. call[Admin].cmd = "MODULE_EXIT" /\ module = "exiting" /\ pc[Admin] # "create_guest"
    BY <2>1 DEF CallShape, ModuleShape
  <2>3. pc[Admin] \notin InitLabels /\ pc[Admin] # "vmrun"
    BY <2>1, <2>2 DEF CallShape
  <2>4. ~InitSteps(Admin) /\ ~CreateSteps(Admin) /\ ~Vmrun(Admin)
    BY <2>2, <2>3
    DEF InitSteps, InitChecks, InitAlloc, InitReadEfer, InitReadHsave, InitWriteEfer,
        InitWriteHsave, CreateSteps, CreateChecks, CreateVmcb, CreateGuest, CreateGuestFails,
        Vmrun, Dispatched, Holds, InitLabels
  <2>5. DestroyFree(Admin)
    BY <1>4, <2>1, <2>4
    DEF Handler, Query, UnknownCommand, CopyInFails, WrongBackend, RunSteps, RunChecks,
        VmrunFaults, RunCopyOut, DestroySteps, DestroyHsave, DestroyEfer, Refresh, Unlock
  <2>6. svm' = ZeroSvm
    BY <2>5 DEF DestroyFree
  <2>7. absPhase # "UNLOADED" /\ absPhase' = "CAPS_READY" /\ svm'.last_exit_code = NoExit
    BY <1>2, <2>2, <2>6, Phase, NextPhase DEF ZeroSvm
  <2>8. absOp' = absOp
    BY <1>1 DEF absOp
  <2>9. ASSUME NEW p \in Procs PROVE absOp[p].result # "pending"
    <3>1. pc[p] \in {"user", "oops"}
      BY <2>2 DEF CallReturn
    <3>2. AbsOp(p).result # "pending"
      BY <3>1, Views DEF CallReturn
    <3>3. QED
      BY <3>2 DEF absOp
  <2>10. Abs!Discard
    BY <2>7, <2>8, <2>9 DEF Abs!Discard, absPhase, absOp
  <2>11. QED
    BY <2>10 DEF Refines, Abs!AbsNext
<1>5. QED
  BY <1>3, <1>4

LEMMA OutsideRefines ==
  ASSUME RefinementInv, UserStep \/ ModuleExit
  PROVE  Refines
<1> Admin \in Tasks /\ Admin \notin Procs /\ Procs \subseteq Tasks
  BY TaskAssumption DEF Tasks
<1> pc \in [Tasks -> Labels] /\ call \in [Tasks -> CallType]
  BY DEF RefinementInv, DriverInv, TypeOK
<1>1. CASE Insmod
  <2>1. svm' = ZeroSvm /\ svm = ZeroSvm /\ module = "unloaded" /\ module' = "loaded"
    BY <1>1 DEF Insmod, RefinementInv, ModuleShape
  <2>2. absPhase = "UNLOADED" /\ absPhase' = "CAPS_READY"
    BY <2>1, Phase, NextPhase DEF ZeroSvm
  <2>3. absOp' = absOp
    BY <1>1, SameView DEF Insmod, absOp
  <2>4. Abs!Load
    BY <2>1, <2>2, <2>3 DEF Abs!Load, absPhase, absOp
  <2>5. QED
    BY <2>4 DEF Refines, Abs!AbsNext
<1>2. CASE Rmmod
  <2>1. \A p \in Procs : AbsOp(p)' = AbsOp(p)
    BY <1>2, SameView DEF Rmmod, Goto
  <2>2. AbsQuiet
    BY <1>2, Phase, NextPhase DEF Rmmod, AbsQuiet
  <2>3. QED
    BY <2>1, <2>2, Stutters
<1>3. CASE SetAllowVmrun
  BY <1>3, SameView, QuietPhase, Stutters DEF SetAllowVmrun
<1>4. ASSUME NEW p \in Procs, Open(p) \/ Close(p) PROVE Refines
  BY <1>4, SameView, QuietPhase, Stutters DEF Open, Close
<1>5. ASSUME NEW p \in Procs, Ioctl(p) PROVE Refines
  <2>1. PICK c \in Commands : call' = [call EXCEPT ![p] = Calling(c)]
    BY <1>5 DEF Ioctl
  <2>2. /\ pc[p] = "user" /\ pc'[p] = "lock" /\ svm' = svm /\ module' = module
        /\ module = "loaded"
    BY <1>5 DEF Ioctl, Goto, outside, RefinementInv, CallReturn
  <2>3. call'[p].ret = "none" /\ call'[p].cmd = c
    BY <2>1 DEF Calling, NoCall
  <2>4. AbsOp(p) = Abs!Idle /\ AbsOp(p)' = Abs!Pending(c)
    BY <2>2, <2>3, Views, NextViews DEF Abs!Idle, Abs!Pending, Abs!NoSnap, NoSnap
  <2>5. \A q \in Procs \ {p} : AbsOp(q)' = AbsOp(q)
    BY <1>5, SameView DEF Ioctl, Goto
  <2>6. absOp[p] = Abs!Idle /\ absOp' = [absOp EXCEPT ![p] = Abs!Pending(c)]
    BY <2>4, <2>5, OneView DEF absOp
  <2>7. AbsQuiet /\ absPhase # "UNLOADED"
    BY <2>2, QuietPhase, Phase
  <2>8. c \in Abs!Commands
    BY DEF Abs!Commands, Commands
  <2>9. Abs!Invoke(p)
    BY <2>6, <2>7, <2>8 DEF Abs!Invoke, AbsQuiet, absPhase, absOp
  <2>10. QED
    BY <2>9 DEF Refines, Abs!AbsNext
<1>6. CASE ModuleExit
  <2>1. /\ svm = ZeroSvm /\ svm' = svm /\ module = "exiting" /\ module' = "unloaded"
    BY <1>6 DEF ModuleExit, Holds, RefinementInv, ModuleShape
  <2>2. absPhase = "CAPS_READY" /\ absPhase' = "UNLOADED" /\ svm.last_exit_code = NoExit
    BY <2>1, Phase, NextPhase DEF ZeroSvm
  <2>3. absOp' = absOp
    BY <1>6, SameView DEF ModuleExit, Goto, absOp
  <2>4. ASSUME NEW p \in Procs PROVE absOp[p].result # "pending"
    <3>1. pc[p] \in {"user", "oops"} /\ (pc[p] = "oops" => call[p].ret = "oops")
      BY <2>1 DEF RefinementInv, CallReturn
    <3>2. AbsOp(p).result # "pending"
      BY <3>1, Views
    <3>3. QED
      BY <3>2 DEF absOp
  <2>5. Abs!Unload
    BY <2>1, <2>2, <2>3, <2>4 DEF Abs!Unload, absPhase, absOp
  <2>6. QED
    BY <2>5 DEF Refines, Abs!AbsNext
<1>7. QED
  BY <1>1, <1>2, <1>3, <1>4, <1>5, <1>6 DEF UserStep

-----------------------------------------------------------------------------
(* What the refinement needs to know of every reachable state.             *)
LEMMA InitRefinementInv == Init => RefinementInv
<1>1. Init => DriverInv
  BY TypeInit, TaskAssumption
  DEF Init, DriverInv, MutualExclusion, InHandler, PagesAccounted, ContextShape, CallShape,
      Settled, Where, InitLabels, SvmPages, ZeroSvm
<1>2. Init => ModuleShape /\ \A p \in Procs : CallReturn(p) /\ FreshCaps(p)
  BY DEF Init, ModuleShape, CallReturn, FreshCaps, Before, After, InitLabels, Tasks
<1>3. QED
  BY <1>1, <1>2 DEF RefinementInv

THEOREM RefinementInvariance == Spec => []RefinementInv
  BY InitRefinementInv, RefinementStep, PTL DEF Spec

(* Every ioctl of the stepped, preemptible handlers takes effect at once,  *)
(* at most once and between its call and its return.                       *)
THEOREM DriverImplementsLifecycle == Spec => ImplementsLifecycle
<1>1. RefinementInv /\ [Next]_vars => [Abs!AbsNext]_(Abs!absVars)
  <2> SUFFICES ASSUME RefinementInv, [Next]_vars PROVE Refines
    BY DEF Refines
  <2>1. CASE UNCHANGED vars
    BY <2>1, SameView, QuietPhase, Stutters DEF vars
  <2>2. CASE UserStep \/ ModuleExit
    BY <2>2, OutsideRefines
  <2>3. ASSUME NEW t \in Tasks, Acquire(t) \/ Handler(t) PROVE Refines
    BY <2>3, ProcessRefines, AdminRefines DEF Tasks
  <2>4. QED
    BY <2>1, <2>2, <2>3 DEF Next
<1>2. QED
  BY <1>1, RefinedInit, RefinementInvariance, PTL DEF Spec, ImplementsLifecycle, Abs!AbsSpec

-----------------------------------------------------------------------------
(* A second INIT_BACKEND or CREATE_VM keeps what the first one saved.      *)
Saved ==
  /\ svm.initialized /\ svm'.initialized =>
       /\ svm'.original_efer = svm.original_efer
       /\ svm'.original_vm_hsave_pa = svm.original_vm_hsave_pa
       /\ svm'.host_save_area = svm.host_save_area
  /\ svm.vm_created /\ svm'.vm_created =>
       /\ svm'.vmcb = svm.vmcb
       /\ svm'.guest_page = svm.guest_page

LEMMA ContextWrites ==
  ASSUME DriverInv, NEW t \in Tasks, Acquire(t) \/ Handler(t), svm' # svm
  PROVE  Saved
<1> svm \in SvmType
  BY DEF DriverInv, TypeOK
<1> USE DEF DriverInv, SvmType, Saved, Holds, Dispatched
<1>1. Handler(t) /\ Where = pc[t]
  <2>1. Handler(t)
    BY DEF Acquire
  <2>2. QED
    BY <2>1, HolderSteps, TaskAssumption DEF Where
<1>2. CASE InitSteps(t)
  <2>1. ~svm.initialized /\ ~svm.vm_created
    BY <1>1, <1>2
    DEF InitSteps, InitChecks, InitAlloc, InitReadEfer, InitReadHsave, InitWriteEfer,
        InitWriteHsave, ContextShape, Settled, InitLabels
  <2>2. QED
    BY <2>1
<1>3. CASE CreateVmcb(t)
  <2>1. svm.vmcb = NULL /\ pc[t] = "dispatch"
    BY <1>3 DEF CreateVmcb
  <2>2. ~svm.vm_created
    BY <1>1, <2>1 DEF ContextShape, Settled, InitLabels
  <2>3. PICK page \in freePages : svm' = [svm EXCEPT !.vmcb = page]
    BY <1>3, <2>1 DEF CreateVmcb, AllocPage
  <2>4. QED
    BY <2>2, <2>3
<1>4. CASE CreateGuest(t)
  <2>1. PICK page \in IF svm.guest_page = NULL THEN freePages ELSE {svm.guest_page} :
          svm' = [svm EXCEPT !.guest_page = page, !.vm_created = TRUE]
    BY <1>4 DEF CreateGuest
  <2>2. svm.vm_created => svm.guest_page # NULL
    BY <1>1, <1>4 DEF CreateGuest, ContextShape
  <2>3. QED
    BY <2>1, <2>2
<1>5. CASE CreateGuestFails(t)
  <2>1. ~svm.vm_created
    BY <1>1, <1>5 DEF CreateGuestFails, ContextShape
  <2>2. svm' = [svm EXCEPT !.vmcb = NULL]
    BY <1>5 DEF CreateGuestFails
  <2>3. QED
    BY <2>1, <2>2
<1>6. CASE Vmrun(t)
  BY <1>6 DEF Vmrun
<1>7. CASE DestroyFree(t)
  BY <1>7 DEF DestroyFree, ZeroSvm
<1>8. QED
  BY <1>1, <1>2, <1>3, <1>4, <1>5, <1>6, <1>7
  DEF Handler, Query, UnknownCommand, CopyInFails, WrongBackend, CreateSteps, CreateChecks,
      RunSteps, RunChecks, VmrunFaults, RunCopyOut, DestroySteps, DestroyHsave, DestroyEfer,
      Refresh, Unlock

THEOREM NothingSavedTwice == Spec => SavedOnce
<1>1. ASSUME DriverInv, Next, svm' # svm PROVE Saved
  <2>1. CASE UserStep \/ ModuleExit
    BY <1>1, <2>1 DEF UserStep, Insmod, Rmmod, SetAllowVmrun, Open, Close, Ioctl, ModuleExit
  <2>2. QED
    BY <1>1, <2>1, ContextWrites DEF Next
<1>2. DriverInv /\ [Next]_vars => [Saved]_vars
  BY <1>1 DEF Saved, vars
<1>3. QED
  BY <1>2, Invariance, PTL DEF Spec, SavedOnce, Saved

-----------------------------------------------------------------------------
(* How far a call is from its return.                                      *)
LabelRank == [lock |-> 8, dispatch |-> 7, init_rd_efer |-> 6, init_rd_hsave |-> 5,
              init_wr_efer |-> 4, init_wr_hsave |-> 3, create_guest |-> 3, vmrun |-> 4,
              run_copy_out |-> 3, destroy_efer |-> 4, destroy_free |-> 3, refresh |-> 2,
              unlock |-> 1, exit |-> 1, user |-> 0, oops |-> 0]
CallLeft(t) == LabelRank[pc[t]]

(* No step of anybody sets a call back, and its own steps bring it nearer  *)
(* to its return: a handler has no loop, whatever fails in it.             *)
CallsShrink ==
  [][\A t \in Tasks : pc[t] # "user" =>
       /\ CallLeft(t)' <= CallLeft(t)
       /\ Acquire(t) \/ Handler(t) => CallLeft(t)' < CallLeft(t)]_vars

LEMMA LabelRanks ==
  /\ LabelRank["lock"] = 8 /\ LabelRank["dispatch"] = 7
  /\ LabelRank["init_rd_efer"] = 6 /\ LabelRank["init_rd_hsave"] = 5
  /\ LabelRank["init_wr_efer"] = 4 /\ LabelRank["init_wr_hsave"] = 3
  /\ LabelRank["create_guest"] = 3 /\ LabelRank["vmrun"] = 4 /\ LabelRank["run_copy_out"] = 3
  /\ LabelRank["destroy_efer"] = 4 /\ LabelRank["destroy_free"] = 3
  /\ LabelRank["refresh"] = 2 /\ LabelRank["unlock"] = 1 /\ LabelRank["exit"] = 1
  /\ LabelRank["user"] = 0 /\ LabelRank["oops"] = 0
  BY DEF LabelRank

LEMMA RankRange == \A l \in Labels : LabelRank[l] \in 0..8
  BY LabelRanks DEF Labels

(* The way through a handler.                                              *)
LEMMA Forward ==
  ASSUME TypeOK, NEW t \in Tasks, Acquire(t) \/ Handler(t)
  PROVE  \/ pc[t] = "lock" /\ pc'[t] = "dispatch"
         \/ pc[t] = "dispatch" /\ pc'[t] \in {"refresh", "unlock", "init_rd_efer", "create_guest",
                                              "vmrun", "run_copy_out", "destroy_efer"}
         \/ pc[t] = "init_rd_efer" /\ pc'[t] = "init_rd_hsave"
         \/ pc[t] = "init_rd_hsave" /\ pc'[t] = "init_wr_efer"
         \/ pc[t] = "init_wr_efer" /\ pc'[t] = "init_wr_hsave"
         \/ pc[t] \in {"init_wr_hsave", "create_guest", "run_copy_out"} /\ pc'[t] = "refresh"
         \/ pc[t] = "vmrun" /\ pc'[t] \in {"run_copy_out", "oops"}
         \/ pc[t] = "destroy_efer" /\ pc'[t] = "destroy_free"
         \/ pc[t] = "destroy_free" /\ pc'[t] \in {"exit", "refresh"}
         \/ pc[t] = "refresh" /\ pc'[t] = "unlock"
         \/ pc[t] = "unlock" /\ pc'[t] = "user"
<1>0. \A l : Goto(t, l) => pc'[t] = l
  BY DEF Goto, TypeOK
<1> USE DEF Result, Holds, Dispatched
<1>1. CASE Acquire(t) \/ Query(t) \/ UnknownCommand(t) \/ CopyInFails(t) \/ WrongBackend(t)
  BY <1>0, <1>1 DEF Acquire, Query, UnknownCommand, CopyInFails, WrongBackend
<1>2. CASE InitSteps(t)
  <2>1. CASE InitChecks(t) \/ InitAlloc(t)
    BY <1>0, <2>1 DEF InitChecks, InitAlloc
  <2>2. CASE InitReadEfer(t) \/ InitReadHsave(t)
    BY <1>0, <2>2 DEF InitReadEfer, InitReadHsave
  <2>3. CASE InitWriteEfer(t) \/ InitWriteHsave(t)
    BY <1>0, <2>3 DEF InitWriteEfer, InitWriteHsave
  <2>4. QED
    BY <1>2, <2>1, <2>2, <2>3 DEF InitSteps
<1>3. CASE CreateSteps(t)
  <2>1. CASE CreateChecks(t) \/ CreateVmcb(t)
    BY <1>0, <2>1 DEF CreateChecks, CreateVmcb
  <2>2. CASE CreateGuest(t) \/ CreateGuestFails(t)
    BY <1>0, <2>2 DEF CreateGuest, CreateGuestFails
  <2>3. QED
    BY <1>3, <2>1, <2>2 DEF CreateSteps
<1>4. CASE RunSteps(t)
  BY <1>0, <1>4 DEF RunSteps, RunChecks, Vmrun, VmrunFaults, RunCopyOut
<1>5. CASE DestroySteps(t)
  BY <1>0, <1>5 DEF DestroySteps, DestroyHsave, DestroyEfer, DestroyFree
<1>6. CASE Refresh(t) \/ Unlock(t)
  BY <1>0, <1>6 DEF Refresh, Unlock
<1>7. QED
  BY <1>1, <1>2, <1>3, <1>4, <1>5, <1>6 DEF Handler

LEMMA OwnStepShrinks ==
  ASSUME TypeOK, NEW t \in Tasks, Acquire(t) \/ Handler(t)
  PROVE  CallLeft(t)' < CallLeft(t)
  BY Forward, LabelRanks DEF CallLeft

(* A step of another task, of the callers or of the administrator.         *)
LEMMA OtherStepKeeps ==
  ASSUME TypeOK, [Next]_vars, NEW t \in Tasks, pc[t] # "user", ~Acquire(t), ~Handler(t)
  PROVE  pc'[t] = pc[t] \/ (ModuleExit /\ t = Admin)
<1> pc \in [Tasks -> Labels]
  BY DEF TypeOK
<1>1. CASE UNCHANGED vars
  BY <1>1 DEF vars
<1>2. CASE UserStep
  BY <1>2 DEF UserStep, Insmod, Rmmod, SetAllowVmrun, Open, Close, Ioctl, Goto
<1>3. CASE ModuleExit
  BY <1>3 DEF ModuleExit, Goto
<1>4. CASE \E u \in Tasks \ {t} : Acquire(u) \/ Handler(u)
  BY <1>4, OthersKept
<1>5. QED
  BY <1>1, <1>2, <1>3, <1>4 DEF Next

(* The variant behind EveryCallReturns: from the dispatch on a handler     *)
(* ends, in the return of its call or in a fault, within seven steps, and  *)
(* neither preemption nor what others do in between makes it more.  So the *)
(* mutex is held for that long, except by a task that died holding it.     *)
THEOREM HandlersDescend == Spec => [](\A t \in Tasks : CallLeft(t) \in 0..8) /\ CallsShrink
<1>1. TypeOK => \A t \in Tasks : CallLeft(t) \in 0..8
  BY RankRange DEF TypeOK, CallLeft
<1>2. TypeOK /\ [Next]_vars =>
        [\A t \in Tasks : pc[t] # "user" =>
           /\ CallLeft(t)' <= CallLeft(t)
           /\ Acquire(t) \/ Handler(t) => CallLeft(t)' < CallLeft(t)]_vars
  <2> SUFFICES ASSUME TypeOK, Next, NEW t \in Tasks, pc[t] # "user"
               PROVE  /\ CallLeft(t)' <= CallLeft(t)
                      /\ Acquire(t) \/ Handler(t) => CallLeft(t)' < CallLeft(t)
    OBVIOUS
  <2>1. CallLeft(t) \in 0..8 /\ CallLeft(t)' \in 0..8
    <3>1. TypeOK'
      BY TypeStep
    <3>2. pc[t] \in Labels /\ pc'[t] \in Labels
      BY <3>1 DEF TypeOK
    <3>3. QED
      BY <3>2, RankRange DEF CallLeft
  <2>2. CASE Acquire(t) \/ Handler(t)
    BY <2>1, <2>2, OwnStepShrinks
  <2>3. CASE ~Acquire(t) /\ ~Handler(t)
    <3>1. CASE pc'[t] = pc[t]
      BY <2>1, <2>3, <3>1 DEF CallLeft
    <3>2. CASE ModuleExit /\ t = Admin
      <4>1. CallLeft(t) = 1 /\ CallLeft(t)' = 0
        BY <3>2, LabelRanks DEF ModuleExit, Holds, Goto, CallLeft, TypeOK
      <4>2. QED
        BY <2>3, <4>1
    <3>3. QED
      BY <2>3, <3>1, <3>2, OtherStepKeeps
  <2>4. QED
    BY <2>2, <2>3
<1>3. QED
  BY <1>1, <1>2, TypeCorrect, PTL DEF Spec, CallsShrink

-----------------------------------------------------------------------------
(* A VMRUN that faults kills its task with the mutex locked.  Nothing in   *)
(* the driver ever undoes that: no handler runs again, the module cannot   *)
(* be unloaded, and the VM, its pages and the registers stay as they are.  *)
StaysWedged ==
  [][\A t \in Tasks : pc[t] = "oops" =>
       /\ pc'[t] = "oops" /\ lock' = t /\ module' # "unloaded"
       /\ \A u \in Tasks \ {t} : pc'[u] \in {"user", "lock"}
       /\ UNCHANGED <<svm, efer, hsavePa, freePages, vmcbRip, caps>>]_vars

(* The module is still there.                                              *)
WedgeInv == RefinementInv /\ \A t \in Tasks : pc[t] = "oops" => module # "unloaded"

LEMMA WedgedStep ==
  ASSUME WedgeInv, [Next]_vars, NEW t \in Tasks, pc[t] = "oops"
  PROVE  /\ pc'[t] = "oops" /\ lock' = t /\ module' # "unloaded"
         /\ UNCHANGED <<svm, efer, hsavePa, freePages, vmcbRip, caps>>
<1>1. TypeOK /\ lock = t /\ t # Nobody /\ module # "unloaded"
  BY TaskAssumption DEF WedgeInv, RefinementInv, DriverInv, MutualExclusion, InHandler
<1>2. pc \in [Tasks -> Labels]
  BY <1>1 DEF TypeOK
<1>3. CASE UNCHANGED vars
  BY <1>1, <1>3 DEF vars
<1>4. CASE UserStep
  BY <1>1, <1>2, <1>4
  DEF UserStep, Insmod, Rmmod, SetAllowVmrun, Open, Close, Ioctl, Goto, msrs, outside
<1>5. CASE ModuleExit
  BY <1>1, <1>5 DEF ModuleExit, Holds
<1>6. ASSUME NEW u \in Tasks, Acquire(u) \/ Handler(u)
      PROVE  FALSE
  BY <1>1, <1>6, HolderSteps DEF Acquire
<1>7. QED
  BY <1>3, <1>4, <1>5, <1>6 DEF Next

LEMMA WedgeStep == WedgeInv /\ [Next]_vars => WedgeInv'
<1> SUFFICES ASSUME WedgeInv, [Next]_vars PROVE WedgeInv'
  OBVIOUS
<1>1. RefinementInv'
  BY RefinementStep DEF WedgeInv
<1>2. ASSUME NEW t \in Tasks, pc'[t] = "oops" PROVE module' # "unloaded"
  <2>1. CASE pc[t] = "oops"
    BY <2>1, WedgedStep
  <2>2. CASE pc[t] # "oops"
    <3> TypeOK /\ pc \in [Tasks -> Labels]
      BY DEF WedgeInv, RefinementInv, DriverInv, TypeOK
    <3>1. Acquire(t) \/ Handler(t)
      <4>1. CASE \E u \in Tasks : Acquire(u) \/ Handler(u)
        BY <1>2, <2>2, <4>1, OthersKept
      <4>2. QED
        BY <1>2, <2>2, <4>1
        DEF Next, UserStep, Insmod, Rmmod, SetAllowVmrun, Open, Close, Ioctl, ModuleExit, Goto,
            vars
    <3>2. pc[t] = "vmrun" /\ module' = module
      BY <1>2, <2>2, <3>1, Forward, OthersKept
    <3>3. t \in Procs
      BY <3>2 DEF WedgeInv, RefinementInv, DriverInv, CallShape, Tasks
    <3>4. QED
      BY <3>2, <3>3 DEF WedgeInv, RefinementInv, CallReturn
  <2>3. QED
    BY <2>1, <2>2
<1>3. QED
  BY <1>1, <1>2 DEF WedgeInv

THEOREM WedgedForGood == Spec => StaysWedged
<1>1. Init => WedgeInv
  <2>1. Init => RefinementInv
    BY InitRefinementInv
  <2>2. QED
    BY <2>1 DEF WedgeInv, Init
<1>2. WedgeInv /\ WedgeInv' /\ [Next]_vars =>
        [\A t \in Tasks : pc[t] = "oops" =>
           /\ pc'[t] = "oops" /\ lock' = t /\ module' # "unloaded"
           /\ \A u \in Tasks \ {t} : pc'[u] \in {"user", "lock"}
           /\ UNCHANGED <<svm, efer, hsavePa, freePages, vmcbRip, caps>>]_vars
  <2> SUFFICES ASSUME WedgeInv, WedgeInv', [Next]_vars, NEW t \in Tasks, pc[t] = "oops"
               PROVE  /\ pc'[t] = "oops" /\ lock' = t /\ module' # "unloaded"
                      /\ \A u \in Tasks \ {t} : pc'[u] \in {"user", "lock"}
                      /\ UNCHANGED <<svm, efer, hsavePa, freePages, vmcbRip, caps>>
    OBVIOUS
  <2>1. /\ pc'[t] = "oops" /\ lock' = t /\ module' # "unloaded"
        /\ UNCHANGED <<svm, efer, hsavePa, freePages, vmcbRip, caps>>
    BY WedgedStep
  <2>2. ASSUME NEW u \in Tasks \ {t} PROVE pc'[u] \in {"user", "lock"}
    BY <2>1 DEF WedgeInv, RefinementInv, DriverInv, MutualExclusion, InHandler
  <2>3. QED
    BY <2>1, <2>2
<1>3. QED
  BY <1>1, <1>2, WedgeStep, PTL DEF Spec, StaysWedged

-----------------------------------------------------------------------------
(* Promise is Abs with the theorems of DriverLifecycle_proofs.             *)
Promise == INSTANCE DriverLifecycle_proofs WITH
             phase    <- PhaseOf(CapsOf(svm, hw.svm, allow_vmrun)),
             lastExit <- svm.last_exit_code,
             op       <- [p \in Procs |-> AbsOp(p)]

LEMMA PromiseInit == Abs!AbsInit => Promise!AbsInit
  BY DEF Abs!AbsInit, Promise!AbsInit, Abs!Idle, Promise!Idle, Abs!NoSnap, Promise!NoSnap

LEMMA PromiseStep == [Abs!AbsNext]_Abs!absVars => [Promise!AbsNext]_Promise!absVars
  BY DEF Abs!AbsNext, Promise!AbsNext,
         Abs!Load, Abs!Discard, Abs!Unload, Abs!Invoke, Abs!Reject, Abs!Query,
         Abs!InitBackend, Abs!CreateVm, Abs!RunVm, Abs!DestroyVm, Abs!LoseAnswer,
         Abs!Return, Abs!Perish, Abs!Answer, Abs!IsPending, Abs!Pending,
         Abs!Idle, Abs!NoSnap, Abs!Snap, Abs!Commands, Abs!absVars,
         Promise!Load, Promise!Discard, Promise!Unload, Promise!Invoke,
         Promise!Reject, Promise!Query, Promise!InitBackend, Promise!CreateVm,
         Promise!RunVm, Promise!DestroyVm, Promise!LoseAnswer, Promise!Return,
         Promise!Perish, Promise!Answer, Promise!IsPending, Promise!Pending,
         Promise!Idle, Promise!NoSnap, Promise!Snap, Promise!Commands,
         Promise!absVars

(* The driver inherits the theorem of its promise: a recorded exit belongs *)
(* to the VM that exists, and what a query copies out never pairs the exit *)
(* of one VM with the life-cycle phase after that VM.                      *)
THEOREM DriverReports == Spec => []Promise!ReportsMakeSense
<1>1. ImplementsLifecycle => Promise!AbsSpec
  BY PromiseInit, PromiseStep, PTL DEF ImplementsLifecycle, Abs!AbsSpec, Promise!AbsSpec
<1>2. QED
  BY <1>1, DriverImplementsLifecycle, Promise!LifecycleReports, PTL
=============================================================================

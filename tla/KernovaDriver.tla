---------------------------- MODULE KernovaDriver ----------------------------
(***************************************************************************)
(* The Linux driver behind /dev/kernova (service-kernel/linux): module     *)
(* load and unload, and kernova_ioctl with the AMD SVM operations it       *)
(* calls.  The driver keeps one global kernova_state under one mutex; the  *)
(* model registers it writes (EFER.SVME, VM_HSAVE_PA) belong to the CPU    *)
(* the calling task happens to run on, and a task may be moved to another  *)
(* CPU between any two of its steps.  A handler is therefore cut at every  *)
(* MSR access, page allocation and flag change; the state only the lock    *)
(* holder touches is read and written inside one step.                     *)
(***************************************************************************)
EXTENDS Naturals, FiniteSets

CONSTANTS
  Procs,       \* processes that open the device
  Admin,       \* the task that runs insmod and rmmod
  Cpus,
  Affinity,    \* Affinity[t]: the CPUs the scheduler may run task t on
  Pages,       \* page frames the driver may be given
  NULL,        \* no page
  Nobody,      \* the mutex is free
  ExitCodes,   \* the VMCB exit codes VMRUN may produce
  NoExit,      \* last_exit_code = 0
  GuestSizes,  \* guest_size arguments of CREATE_VM
  BootSvme,    \* BootSvme[c]: EFER.SVME of CPU c before the driver is used
  BootHsave    \* BootHsave[c]: its VM_HSAVE_PA

Tasks == Procs \cup {Admin}

ASSUME TaskAssumption ==
  /\ Admin \notin Procs
  /\ Nobody \notin Tasks
ASSUME CpuAssumption ==
  /\ Affinity \in [Tasks -> SUBSET Cpus]
  /\ BootSvme \in [Cpus -> BOOLEAN]
ASSUME PageAssumption ==
  /\ NULL \notin Pages
  /\ BootHsave = [c \in Cpus |-> BootHsave[c]]
  /\ \A c \in Cpus : BootHsave[c] \notin Pages
ASSUME DataAssumption ==
  /\ NoExit \notin ExitCodes
  /\ GuestSizes \subseteq Nat

KERNOVA_GUEST_PAGE_SIZE == 4096

VARIABLES
  hw,           \* [svm, svmdis]: boot_cpu_has(X86_FEATURE_SVM), VM_CR.SVMDIS
  efer,         \* efer[c]: EFER.SVME of CPU c
  hsavePa,      \* hsavePa[c]: VM_HSAVE_PA of CPU c
  freePages,    \* frames __get_free_page may return
  module,       \* the module: "unloaded", "loaded" or "exiting"
  allow_vmrun,  \* the module parameter, writable through sysfs (0600)
  fd,           \* fd[p]: p holds an open file of the device
  lock,         \* kernova_state.lock
  svm,          \* kernova_state.svm
  vmcbRip,      \* the page the prepared VMCB's guest RIP lies in
  caps,         \* kernova_state.caps
  pc, call      \* where each task is and the ioctl it is in

vars == <<hw, efer, hsavePa, freePages, module, allow_vmrun, fd, lock, svm,
          vmcbRip, caps, pc, call>>
msrs == <<efer, hsavePa>>
outside == <<hw, module, allow_vmrun, fd>>  \* no handler step changes these

-----------------------------------------------------------------------------
Commands == {"QUERY_CAPS", "INIT_BACKEND", "CREATE_VM", "RUN_VM", "DESTROY_VM", "OTHER"}
Errors == {"ENOTTY", "EFAULT", "ENODEV", "EOPNOTSUPP", "ENOMEM", "EINVAL", "EPERM"}
Labels == {"user", "lock", "dispatch", "init_rd_efer", "init_rd_hsave", "init_wr_efer",
           "init_wr_hsave", "create_guest", "vmrun", "run_copy_out", "destroy_efer",
           "destroy_free", "refresh", "unlock", "exit", "oops"}

(* A page pointer and its _pa twin are one field: the driver never uses a  *)
(* physical address whose pointer is NULL.                                 *)
ZeroSvm == [vmcb |-> NULL, host_save_area |-> NULL, guest_page |-> NULL,
            original_efer |-> FALSE, original_vm_hsave_pa |-> NULL,
            efer_saved |-> FALSE, hsave_saved |-> FALSE,
            initialized |-> FALSE, vm_created |-> FALSE, last_exit_code |-> NoExit]

(* kernova_detect_cpu followed by the two fill_caps functions.             *)
CapsOf(s, supported, allow) ==
  [svm_supported     |-> supported,
   svm_initialized   |-> s.initialized,
   vm_created        |-> s.vm_created,
   vmrun_enabled     |-> allow,
   last_vmexit_valid |-> s.last_exit_code # NoExit,
   last_exit_code    |-> s.last_exit_code,
   runtime_state     |-> IF s.vm_created THEN "VM_CREATED"
                         ELSE IF s.initialized THEN "BACKEND_INITIALIZED"
                         ELSE "CAPS_READY"]
refresh_caps_locked == caps' = CapsOf(svm, hw.svm, allow_vmrun)

NoCaps == CapsOf(ZeroSvm, FALSE, FALSE)
NoCall == [cmd |-> "none", ret |-> "none", reply |-> NoCaps]
Calling(c) == [NoCall EXCEPT !.cmd = c]

Goto(t, l) == pc' = [pc EXCEPT ![t] = l]
Result(t, r, l) == /\ call' = [call EXCEPT ![t].ret = r]
                   /\ Goto(t, l)
Holds(t, l) == lock = t /\ pc[t] = l
Dispatched(t, c) == Holds(t, "dispatch") /\ call[t].cmd = c

Init ==
  /\ hw \in [svm : BOOLEAN, svmdis : BOOLEAN]
  /\ efer = BootSvme
  /\ hsavePa = BootHsave
  /\ freePages = Pages
  /\ module = "unloaded"
  /\ allow_vmrun = FALSE
  /\ fd = [p \in Procs |-> FALSE]
  /\ lock = Nobody
  /\ svm = ZeroSvm
  /\ vmcbRip = NULL
  /\ caps = NoCaps
  /\ pc = [t \in Tasks |-> "user"]
  /\ call = [t \in Tasks |-> NoCall]

-----------------------------------------------------------------------------
(* The module and its parameter.  When misc_register fails insmod fails    *)
(* and nothing is left behind: no step.                                    *)
Insmod ==
  /\ module = "unloaded"
  /\ module' = "loaded"
  /\ \E allow \in BOOLEAN :
       /\ allow_vmrun' = allow
       /\ caps' = CapsOf(svm, hw.svm, allow)
  /\ UNCHANGED <<hw, msrs, freePages, fd, lock, svm, vmcbRip, pc, call>>

(* delete_module: refused while the device is open (fops.owner).           *)
Rmmod ==
  /\ module = "loaded"
  /\ pc[Admin] = "user"
  /\ \A p \in Procs : ~fd[p]
  /\ module' = "exiting"
  /\ call' = [call EXCEPT ![Admin] = Calling("MODULE_EXIT")]
  /\ Goto(Admin, "lock")
  /\ UNCHANGED <<hw, msrs, freePages, allow_vmrun, fd, lock, svm, vmcbRip, caps>>

SetAllowVmrun ==
  /\ module # "unloaded"
  /\ allow_vmrun' = ~allow_vmrun
  /\ UNCHANGED <<hw, msrs, freePages, module, fd, lock, svm, vmcbRip, caps, pc, call>>

(* The processes.  There is no .open and no .release handler: closing the  *)
(* file, or dying with it open, tells the driver nothing.                  *)
Open(p) ==
  /\ module = "loaded"
  /\ ~fd[p]
  /\ pc[p] = "user"
  /\ fd' = [fd EXCEPT ![p] = TRUE]
  /\ UNCHANGED <<hw, msrs, freePages, module, allow_vmrun, lock, svm, vmcbRip, caps, pc, call>>

Close(p) ==
  /\ fd[p]
  /\ pc[p] = "user"
  /\ fd' = [fd EXCEPT ![p] = FALSE]
  /\ UNCHANGED <<hw, msrs, freePages, module, allow_vmrun, lock, svm, vmcbRip, caps, pc, call>>

(* A command of another magic number returns -ENOTTY before the lock and   *)
(* changes nothing: it is no step here.                                    *)
Ioctl(p) ==
  /\ fd[p]
  /\ pc[p] = "user"
  /\ \E c \in Commands : call' = [call EXCEPT ![p] = Calling(c)]
  /\ Goto(p, "lock")
  /\ UNCHANGED <<outside, msrs, freePages, lock, svm, vmcbRip, caps>>

Acquire(t) ==
  /\ pc[t] = "lock"
  /\ lock = Nobody
  /\ lock' = t
  /\ IF call[t].cmd = "MODULE_EXIT"
     THEN UNCHANGED caps
     ELSE refresh_caps_locked
  /\ Goto(t, "dispatch")
  /\ UNCHANGED <<outside, msrs, freePages, svm, vmcbRip, call>>

-----------------------------------------------------------------------------
(* The switch of kernova_ioctl.  A failed copy_from_user leaves by "break" *)
(* without the second refresh.                                             *)
Query(t) ==
  /\ Dispatched(t, "QUERY_CAPS")
  /\ \/ /\ call' = [call EXCEPT ![t].ret = "OK", ![t].reply = caps]
        /\ Goto(t, "unlock")
     \/ Result(t, "EFAULT", "unlock")
  /\ UNCHANGED <<outside, msrs, freePages, lock, svm, vmcbRip, caps>>

UnknownCommand(t) ==
  /\ Dispatched(t, "OTHER")
  /\ Result(t, "ENOTTY", "unlock")
  /\ UNCHANGED <<outside, msrs, freePages, lock, svm, vmcbRip, caps>>

(* Mutant: "return -EFAULT" instead of "break", past mutex_unlock.         *)
CopyInReturns(t) ==
  /\ Holds(t, "dispatch")
  /\ call[t].cmd \in {"INIT_BACKEND", "CREATE_VM", "RUN_VM"}
  /\ Goto(t, "user")
  /\ call' = [call EXCEPT ![t] = NoCall]
  /\ UNCHANGED <<outside, msrs, freePages, lock, svm, vmcbRip, caps>>

CopyInFails(t) ==
  /\ Holds(t, "dispatch")
  /\ call[t].cmd \in {"INIT_BACKEND", "CREATE_VM", "RUN_VM"}
  /\ Result(t, "EFAULT", "unlock")
  /\ UNCHANGED <<outside, msrs, freePages, lock, svm, vmcbRip, caps>>

(* The request names another backend than AMD SVM.                         *)
WrongBackend(t) ==
  /\ Holds(t, "dispatch")
  /\ call[t].cmd \in {"INIT_BACKEND", "CREATE_VM"}
  /\ Result(t, "ENODEV", "refresh")
  /\ UNCHANGED <<outside, msrs, freePages, lock, svm, vmcbRip, caps>>

(* kernova_alloc_page into field f: any free frame, or -ENOMEM.            *)
AllocPage(f, page) ==
  /\ page \in freePages
  /\ svm' = [svm EXCEPT ![f] = page]
  /\ freePages' = freePages \ {page}

-----------------------------------------------------------------------------
(* kernova_amd_svm_init                                                    *)
InitChecks(t) ==
  /\ Dispatched(t, "INIT_BACKEND")
  /\ \/ /\ ~caps.svm_supported
        /\ Result(t, "ENODEV", "refresh")
     \/ /\ caps.svm_supported /\ hw.svmdis
        /\ Result(t, "EOPNOTSUPP", "refresh")
     \/ /\ caps.svm_supported /\ ~hw.svmdis
        /\ svm.initialized
        /\ Result(t, "OK", "refresh")
     \/ /\ caps.svm_supported /\ ~hw.svmdis
        /\ ~svm.initialized
        /\ Result(t, "ENOMEM", "refresh")
  /\ UNCHANGED <<outside, msrs, freePages, lock, svm, vmcbRip, caps>>

(* Mutant: a second INIT_BACKEND starts all over again.                    *)
InitAllocAgain(t) ==
  /\ Dispatched(t, "INIT_BACKEND")
  /\ caps.svm_supported /\ ~hw.svmdis
  /\ \E page \in freePages : AllocPage("host_save_area", page)
  /\ Goto(t, "init_rd_efer")
  /\ UNCHANGED <<outside, msrs, lock, vmcbRip, caps, call>>

InitAlloc(t) ==
  /\ Dispatched(t, "INIT_BACKEND")
  /\ caps.svm_supported /\ ~hw.svmdis
  /\ ~svm.initialized
  /\ \E page \in freePages : AllocPage("host_save_area", page)
  /\ Goto(t, "init_rd_efer")
  /\ UNCHANGED <<outside, msrs, lock, vmcbRip, caps, call>>

InitReadEfer(t) ==
  /\ Holds(t, "init_rd_efer")
  /\ \E c \in Affinity[t] :
       svm' = [svm EXCEPT !.original_efer = efer[c], !.efer_saved = TRUE]
  /\ Goto(t, "init_rd_hsave")
  /\ UNCHANGED <<outside, msrs, freePages, lock, vmcbRip, caps, call>>

InitReadHsave(t) ==
  /\ Holds(t, "init_rd_hsave")
  /\ \E c \in Affinity[t] :
       svm' = [svm EXCEPT !.original_vm_hsave_pa = hsavePa[c], !.hsave_saved = TRUE]
  /\ Goto(t, "init_wr_efer")
  /\ UNCHANGED <<outside, msrs, freePages, lock, vmcbRip, caps, call>>

InitWriteEfer(t) ==
  /\ Holds(t, "init_wr_efer")
  /\ \E c \in Affinity[t] : efer' = [efer EXCEPT ![c] = TRUE]
  /\ Goto(t, "init_wr_hsave")
  /\ UNCHANGED <<outside, hsavePa, freePages, lock, svm, vmcbRip, caps, call>>

(* Mutant: VM_HSAVE_PA is left to the BIOS.                                *)
InitSkipHsave(t) ==
  /\ Holds(t, "init_wr_hsave")
  /\ svm' = [svm EXCEPT !.initialized = TRUE]
  /\ Result(t, "OK", "refresh")
  /\ UNCHANGED <<outside, msrs, freePages, lock, vmcbRip, caps>>

InitWriteHsave(t) ==
  /\ Holds(t, "init_wr_hsave")
  /\ \E c \in Affinity[t] : hsavePa' = [hsavePa EXCEPT ![c] = svm.host_save_area]
  /\ svm' = [svm EXCEPT !.initialized = TRUE]
  /\ Result(t, "OK", "refresh")
  /\ UNCHANGED <<outside, efer, freePages, lock, vmcbRip, caps>>

-----------------------------------------------------------------------------
(* kernova_amd_svm_create_vm                                               *)
CreateChecks(t) ==
  /\ Dispatched(t, "CREATE_VM")
  /\ \/ /\ ~svm.initialized
        /\ Result(t, "EINVAL", "refresh")
     \/ /\ svm.initialized
        /\ \E size \in GuestSizes : size > KERNOVA_GUEST_PAGE_SIZE
        /\ Result(t, "EINVAL", "refresh")
     \/ /\ svm.initialized /\ svm.vmcb = NULL
        /\ Result(t, "ENOMEM", "refresh")
  /\ UNCHANGED <<outside, msrs, freePages, lock, svm, vmcbRip, caps>>

CreateVmcb(t) ==
  /\ Dispatched(t, "CREATE_VM")
  /\ svm.initialized
  /\ \E size \in GuestSizes : size <= KERNOVA_GUEST_PAGE_SIZE
  /\ IF svm.vmcb = NULL
     THEN \E page \in freePages : AllocPage("vmcb", page)
     ELSE UNCHANGED <<svm, freePages>>
  /\ Goto(t, "create_guest")
  /\ UNCHANGED <<outside, msrs, lock, vmcbRip, caps, call>>

(* The last steps of create_vm: the guest page and the VMCB are prepared   *)
(* (the guest RIP is the first byte of the guest page).                    *)
CreateGuest(t) ==
  /\ Holds(t, "create_guest")
  /\ \E page \in IF svm.guest_page = NULL THEN freePages ELSE {svm.guest_page} :
       /\ svm' = [svm EXCEPT !.guest_page = page, !.vm_created = TRUE]
       /\ freePages' = freePages \ {page}
       /\ vmcbRip' = page
  /\ Result(t, "OK", "refresh")
  /\ UNCHANGED <<outside, msrs, lock, caps>>

(* Mutant: the VMCB page is kept when the guest page cannot be had.        *)
CreateGuestKeepsVmcb(t) ==
  /\ Holds(t, "create_guest")
  /\ svm.guest_page = NULL
  /\ Result(t, "ENOMEM", "refresh")
  /\ UNCHANGED <<outside, msrs, freePages, lock, svm, vmcbRip, caps>>

(* Mutant: the VMCB page is freed but its pointer kept.                    *)
CreateGuestDangles(t) ==
  /\ Holds(t, "create_guest")
  /\ svm.guest_page = NULL
  /\ freePages' = freePages \cup ({svm.vmcb} \ {NULL})
  /\ Result(t, "ENOMEM", "refresh")
  /\ UNCHANGED <<outside, msrs, lock, svm, vmcbRip, caps>>

CreateGuestFails(t) ==
  /\ Holds(t, "create_guest")
  /\ svm.guest_page = NULL
  /\ freePages' = freePages \cup ({svm.vmcb} \ {NULL})
  /\ svm' = [svm EXCEPT !.vmcb = NULL]
  /\ Result(t, "ENOMEM", "refresh")
  /\ UNCHANGED <<outside, msrs, lock, vmcbRip, caps>>

-----------------------------------------------------------------------------
(* kernova_amd_svm_run                                                     *)
(* Mutant: RUN_VM only asks for an initialized backend.                    *)
RunChecksNoVm(t) ==
  /\ Dispatched(t, "RUN_VM")
  /\ \/ /\ ~svm.initialized
        /\ Result(t, "EINVAL", "run_copy_out")
     \/ /\ svm.initialized /\ allow_vmrun
        /\ Goto(t, "vmrun")
        /\ UNCHANGED call
  /\ UNCHANGED <<outside, msrs, freePages, lock, svm, vmcbRip, caps>>

RunChecks(t) ==
  /\ Dispatched(t, "RUN_VM")
  /\ \/ /\ ~svm.initialized \/ ~svm.vm_created
        /\ Result(t, "EINVAL", "run_copy_out")
     \/ /\ svm.initialized /\ svm.vm_created
        /\ Result(t, "EPERM", "run_copy_out")  \* the parameter or the flag is off
     \/ /\ svm.initialized /\ svm.vm_created
        /\ allow_vmrun
        /\ Goto(t, "vmrun")
        /\ UNCHANGED call
  /\ UNCHANGED <<outside, msrs, freePages, lock, svm, vmcbRip, caps>>

(* VMRUN raises #UD where EFER.SVME is off: the task is killed inside the  *)
(* handler, its file closed, and the mutex stays locked.                   *)
Vmrun(t) ==
  /\ Holds(t, "vmrun")
  /\ \E c \in Affinity[t] : efer[c]
  /\ \E code \in ExitCodes : svm' = [svm EXCEPT !.last_exit_code = code]
  /\ Result(t, "OK", "run_copy_out")
  /\ UNCHANGED <<outside, msrs, freePages, lock, vmcbRip, caps>>

VmrunFaults(t) ==
  /\ Holds(t, "vmrun")
  /\ \E c \in Affinity[t] : ~efer[c]
  /\ Result(t, "oops", "oops")
  /\ fd' = [fd EXCEPT ![t] = FALSE]
  /\ UNCHANGED <<hw, module, allow_vmrun, msrs, freePages, lock, svm, vmcbRip, caps>>

RunCopyOut(t) ==
  /\ Holds(t, "run_copy_out")
  /\ \/ Goto(t, "refresh") /\ UNCHANGED call
     \/ Result(t, "EFAULT", "refresh")
  /\ UNCHANGED <<outside, msrs, freePages, lock, svm, vmcbRip, caps>>

-----------------------------------------------------------------------------
(* kernova_amd_svm_destroy, called by the ioctl and by module_exit         *)
(* Mutant: VM_HSAVE_PA is not restored.                                    *)
DestroyKeepsHsave(t) ==
  /\ Holds(t, "dispatch")
  /\ call[t].cmd \in {"DESTROY_VM", "MODULE_EXIT"}
  /\ Goto(t, "destroy_efer")
  /\ UNCHANGED <<outside, msrs, freePages, lock, svm, vmcbRip, caps, call>>

DestroyHsave(t) ==
  /\ Holds(t, "dispatch")
  /\ call[t].cmd \in {"DESTROY_VM", "MODULE_EXIT"}
  /\ IF svm.hsave_saved
     THEN \E c \in Affinity[t] :
            hsavePa' = [hsavePa EXCEPT ![c] = svm.original_vm_hsave_pa]
     ELSE UNCHANGED hsavePa
  /\ Goto(t, "destroy_efer")
  /\ UNCHANGED <<outside, efer, freePages, lock, svm, vmcbRip, caps, call>>

(* Mutant: SVM is switched off whatever EFER was.                          *)
DestroyClearsEfer(t) ==
  /\ Holds(t, "destroy_efer")
  /\ \E c \in Affinity[t] : efer' = [efer EXCEPT ![c] = FALSE]
  /\ Goto(t, "destroy_free")
  /\ UNCHANGED <<outside, hsavePa, freePages, lock, svm, vmcbRip, caps, call>>

DestroyEfer(t) ==
  /\ Holds(t, "destroy_efer")
  /\ IF svm.efer_saved
     THEN \E c \in Affinity[t] : efer' = [efer EXCEPT ![c] = svm.original_efer]
     ELSE UNCHANGED efer
  /\ Goto(t, "destroy_free")
  /\ UNCHANGED <<outside, hsavePa, freePages, lock, svm, vmcbRip, caps, call>>

(* Mutant: kernova_free_page does not test for NULL.                       *)
SvmPagesWithNull(s) == {s.vmcb, s.guest_page, s.host_save_area}

SvmPages(s) == {s.vmcb, s.guest_page, s.host_save_area} \ {NULL}

(* Mutant: the host-save page is not freed.                                *)
DestroyLeaks(t) ==
  /\ Holds(t, "destroy_free")
  /\ freePages' = freePages \cup ({svm.vmcb, svm.guest_page} \ {NULL})
  /\ svm' = ZeroSvm
  /\ vmcbRip' = NULL
  /\ Result(t, "OK", IF call[t].cmd = "MODULE_EXIT" THEN "exit" ELSE "refresh")
  /\ UNCHANGED <<outside, msrs, lock, caps>>

(* Mutant: the last exit of the dead VM is kept.                           *)
DestroyKeepsExit(t) ==
  /\ Holds(t, "destroy_free")
  /\ freePages' = freePages \cup SvmPages(svm)
  /\ svm' = [ZeroSvm EXCEPT !.last_exit_code = svm.last_exit_code]
  /\ vmcbRip' = NULL
  /\ Result(t, "OK", IF call[t].cmd = "MODULE_EXIT" THEN "exit" ELSE "refresh")
  /\ UNCHANGED <<outside, msrs, lock, caps>>

DestroyFree(t) ==
  /\ Holds(t, "destroy_free")
  /\ freePages' = freePages \cup SvmPages(svm)
  /\ svm' = ZeroSvm
  /\ vmcbRip' = NULL
  /\ Result(t, "OK", IF call[t].cmd = "MODULE_EXIT" THEN "exit" ELSE "refresh")
  /\ UNCHANGED <<outside, msrs, lock, caps>>

-----------------------------------------------------------------------------
(* The way out                                                             *)
Refresh(t) ==
  /\ Holds(t, "refresh")
  /\ refresh_caps_locked
  /\ Goto(t, "unlock")
  /\ UNCHANGED <<outside, msrs, freePages, lock, svm, vmcbRip, call>>

Unlock(t) ==
  /\ Holds(t, "unlock")
  /\ lock' = Nobody
  /\ Goto(t, "user")
  /\ call' = [call EXCEPT ![t] = NoCall]
  /\ UNCHANGED <<outside, msrs, freePages, svm, vmcbRip, caps>>

ModuleExit ==
  /\ Holds(Admin, "exit")
  /\ lock' = Nobody
  /\ module' = "unloaded"
  /\ allow_vmrun' = FALSE
  /\ caps' = NoCaps
  /\ Goto(Admin, "user")
  /\ call' = [call EXCEPT ![Admin] = NoCall]
  /\ UNCHANGED <<hw, msrs, freePages, fd, svm, vmcbRip>>

-----------------------------------------------------------------------------
(* What the caller and the administrator decide, and what the handler does.*)
UserStep == Insmod \/ Rmmod \/ SetAllowVmrun
            \/ \E p \in Procs : Open(p) \/ Close(p) \/ Ioctl(p)

InitSteps(t) == InitChecks(t) \/ InitAlloc(t) \/ InitReadEfer(t) \/ InitReadHsave(t)
                \/ InitWriteEfer(t) \/ InitWriteHsave(t)
CreateSteps(t) == CreateChecks(t) \/ CreateVmcb(t) \/ CreateGuest(t) \/ CreateGuestFails(t)
RunSteps(t) == RunChecks(t) \/ Vmrun(t) \/ VmrunFaults(t) \/ RunCopyOut(t)
DestroySteps(t) == DestroyHsave(t) \/ DestroyEfer(t) \/ DestroyFree(t)

Handler(t) ==
  \/ Query(t) \/ UnknownCommand(t) \/ CopyInFails(t) \/ WrongBackend(t)
  \/ InitSteps(t) \/ CreateSteps(t) \/ RunSteps(t) \/ DestroySteps(t)
  \/ Refresh(t) \/ Unlock(t)

Next == \/ UserStep
        \/ ModuleExit
        \/ \E t \in Tasks : Acquire(t) \/ Handler(t)

Spec == Init /\ [][Next]_vars

(* A task inside the kernel keeps running; a waiter of the mutex is handed *)
(* it sooner or later (Linux mutexes hand off to a starving waiter).       *)
FairSpec == /\ Spec
            /\ WF_vars(ModuleExit)
            /\ \A t \in Tasks : WF_vars(Handler(t)) /\ SF_vars(Acquire(t))

-----------------------------------------------------------------------------
(* Properties                                                              *)

Addresses == Pages \cup {NULL} \cup {BootHsave[c] : c \in Cpus}
SvmType == [vmcb : Pages \cup {NULL}, host_save_area : Pages \cup {NULL},
            guest_page : Pages \cup {NULL},
            original_efer : BOOLEAN, original_vm_hsave_pa : Addresses,
            efer_saved : BOOLEAN, hsave_saved : BOOLEAN,
            initialized : BOOLEAN, vm_created : BOOLEAN,
            last_exit_code : ExitCodes \cup {NoExit}]
CapsType == [svm_supported : BOOLEAN, svm_initialized : BOOLEAN, vm_created : BOOLEAN,
             vmrun_enabled : BOOLEAN, last_vmexit_valid : BOOLEAN,
             last_exit_code : ExitCodes \cup {NoExit},
             runtime_state : {"CAPS_READY", "BACKEND_INITIALIZED", "VM_CREATED"}]
CallType == [cmd : Commands \cup {"none", "MODULE_EXIT"},
             ret : Errors \cup {"none", "OK", "oops"}, reply : CapsType]

(* Every variable has its type.                                            *)
TypeOK ==
  /\ hw \in [svm : BOOLEAN, svmdis : BOOLEAN]
  /\ efer \in [Cpus -> BOOLEAN]
  /\ hsavePa \in [Cpus -> Addresses]
  /\ freePages \in SUBSET Pages
  /\ module \in {"unloaded", "loaded", "exiting"}
  /\ allow_vmrun \in BOOLEAN
  /\ fd \in [Procs -> BOOLEAN]
  /\ lock \in Tasks \cup {Nobody}
  /\ svm \in SvmType
  /\ vmcbRip \in Pages \cup {NULL}
  /\ caps \in CapsType
  /\ pc \in [Tasks -> Labels]
  /\ call \in [Tasks -> CallType]

InHandler(t) == pc[t] \notin {"user", "lock"}

(* The mutex of kernova_ioctl and module_exit: whoever runs a handler      *)
(* holds it, and nobody else is inside one.                                *)
MutualExclusion == \A t \in Tasks : InHandler(t) <=> lock = t

(* alloc_page and free_page stay paired on every path, failures included:  *)
(* a frame is the driver's exactly while one field of the SVM context      *)
(* names it, and no two fields name the same frame.                        *)
PagesAccounted ==
  /\ freePages = Pages \ SvmPages(svm)
  /\ svm.vmcb \notin {svm.guest_page, svm.host_save_area} \ {NULL}
  /\ svm.guest_page # svm.host_save_area \/ svm.guest_page = NULL

(* The flags of the SVM context say exactly which pages exist.             *)
Settled ==
  /\ svm.initialized <=> svm.host_save_area # NULL
  /\ svm.vm_created <=> svm.vmcb # NULL
  /\ svm.vm_created <=> svm.guest_page # NULL
  /\ svm.vm_created => svm.initialized
  /\ svm.initialized <=> svm.efer_saved
  /\ svm.initialized <=> svm.hsave_saved

(* Between two calls no half-built VM is left, also after an init or a     *)
(* create that failed half way.                                            *)
NothingHalfBuilt == lock = Nobody => Settled

(* VMRUN is only ever executed on a VMCB whose guest RIP lies in the guest *)
(* page the driver owns, and a recorded exit belongs to the present VM.    *)
VmrunOnWholeVm ==
  /\ \A t \in Tasks : pc[t] = "vmrun" =>
       /\ svm.vm_created
       /\ svm.vmcb # NULL /\ svm.guest_page # NULL
       /\ vmcbRip = svm.guest_page
  /\ svm.last_exit_code # NoExit => svm.vm_created

(* A repeated INIT_BACKEND never saves the MSRs it has changed itself, and *)
(* a repeated CREATE_VM keeps the pages of the VM it prepares again.       *)
SavedOnce ==
  [][/\ svm.initialized /\ svm'.initialized =>
          /\ svm'.original_efer = svm.original_efer
          /\ svm'.original_vm_hsave_pa = svm.original_vm_hsave_pa
          /\ svm'.host_save_area = svm.host_save_area
     /\ svm.vm_created /\ svm'.vm_created =>
          /\ svm'.vmcb = svm.vmcb
          /\ svm'.guest_page = svm.guest_page]_vars

-----------------------------------------------------------------------------
(* The host's own registers.  These hold when every task that calls the    *)
(* driver is bound to one CPU, which the code does not arrange.            *)
Pinned == \E c \in Cpus : \A t \in Tasks : Affinity[t] = {c}

(* After destroy (or before init) the CPUs have the MSRs they booted with. *)
HostRestored ==
  lock = Nobody /\ ~svm.initialized => efer = BootSvme /\ hsavePa = BootHsave

(* VM_HSAVE_PA never keeps the address of a page the driver has freed.     *)
HsaveNeverDangles ==
  \A c \in Cpus : hsavePa[c] \in freePages \cup {svm.vmcb, svm.guest_page} =>
                    hsavePa[c] = NULL

(* VMRUN executes only where SVM is on and the host save area is set.      *)
VmrunReady ==
  \A t \in Tasks : pc[t] = "vmrun" =>
    \A c \in Affinity[t] : efer[c] /\ hsavePa[c] = svm.host_save_area

(* Every ioctl returns.                                                    *)
EveryCallReturns == \A p \in Procs : pc[p] = "lock" ~> pc[p] = "user"

-----------------------------------------------------------------------------
(* The life cycle the driver implements.  A call is applied by the step    *)
(* that sets its return value.                                             *)
PhaseOf(c) == IF module = "unloaded" THEN "UNLOADED" ELSE c.runtime_state

AbsOp(p) ==
  IF pc[p] = "user" THEN [cmd |-> "none", result |-> "none",
                          snap |-> [phase |-> "UNLOADED", lastExit |-> NoExit]]
  ELSE [cmd |-> call[p].cmd,
        result |-> CASE call[p].ret = "none" -> "pending"
                     [] call[p].ret = "OK" -> "ok"
                     [] call[p].ret = "oops" -> "dead"
                     [] OTHER -> "error",
        snap |-> IF call[p].ret = "OK" /\ call[p].cmd = "QUERY_CAPS"
                 THEN [phase |-> call[p].reply.runtime_state,
                       lastExit |-> call[p].reply.last_exit_code]
                 ELSE [phase |-> "UNLOADED", lastExit |-> NoExit]]

Abs == INSTANCE DriverLifecycle WITH
         phase    <- PhaseOf(CapsOf(svm, hw.svm, allow_vmrun)),
         lastExit <- svm.last_exit_code,
         op       <- [p \in Procs |-> AbsOp(p)]

(* Every ioctl takes effect at once, at most once and between its call and *)
(* its return, although the handler is many steps and can be preempted.    *)
ImplementsLifecycle == Abs!AbsSpec

-----------------------------------------------------------------------------
(* The inductive invariant.  Where is the step the lock holder is at: all  *)
(* that is known of the context while it is being changed depends on it.   *)
Where == IF lock = Nobody THEN "user" ELSE pc[lock]

InitLabels == {"init_rd_efer", "init_rd_hsave", "init_wr_efer", "init_wr_hsave"}

ContextShape ==
  /\ Where \notin InitLabels \cup {"create_guest"} => Settled
  /\ Where \in InitLabels =>
       /\ ~svm.initialized /\ ~svm.vm_created
       /\ svm.host_save_area # NULL /\ svm.vmcb = NULL /\ svm.guest_page = NULL
       /\ svm.efer_saved <=> Where # "init_rd_efer"
       /\ svm.hsave_saved <=> Where \notin {"init_rd_efer", "init_rd_hsave"}
  /\ Where = "create_guest" =>
       /\ svm.initialized /\ svm.efer_saved /\ svm.hsave_saved
       /\ svm.host_save_area # NULL /\ svm.vmcb # NULL
       /\ svm.vm_created <=> svm.guest_page # NULL
  /\ Where = "vmrun" => svm.vm_created
  /\ svm.vm_created => vmcbRip = svm.guest_page
  /\ svm.last_exit_code # NoExit => svm.vm_created

(* Only module_exit runs in the administrator's name, and only it.         *)
CallShape ==
  \A t \in Tasks : pc[t] # "user" =>
    /\ call[t].cmd = "MODULE_EXIT" <=> t = Admin
    /\ pc[t] \in InitLabels => call[t].cmd = "INIT_BACKEND"
    /\ pc[t] \in {"vmrun", "run_copy_out"} => call[t].cmd = "RUN_VM"
    /\ pc[t] = "exit" => t = Admin

(* The invariant every step of the driver preserves on any machine.        *)
DriverInv ==
  TypeOK /\ MutualExclusion /\ PagesAccounted /\ ContextShape /\ CallShape

(* What the CPU c every task is bound to holds, step by step.              *)
MsrShape(c) ==
  LET booted == /\ efer = BootSvme
                /\ hsavePa = BootHsave
      saved == /\ svm.efer_saved => svm.original_efer = BootSvme[c]
               /\ svm.hsave_saved => svm.original_vm_hsave_pa = BootHsave[c]
      svmeSet == efer = [BootSvme EXCEPT ![c] = TRUE]
      hsaveSet == hsavePa = [BootHsave EXCEPT ![c] = svm.host_save_area]
  IN /\ saved
     /\ Where \in InitLabels \ {"init_wr_hsave"} => booted
     /\ Where = "init_wr_hsave" => svmeSet /\ hsavePa = BootHsave
     /\ Where = "destroy_efer" => /\ hsavePa = BootHsave
                                  /\ IF svm.initialized THEN svmeSet ELSE efer = BootSvme
     /\ Where = "destroy_free" => booted
     /\ Where \notin InitLabels \cup {"destroy_efer", "destroy_free"} =>
          IF svm.initialized THEN svmeSet /\ hsaveSet ELSE booted

PinnedInv == DriverInv /\ \A c \in Cpus : (\A t \in Tasks : Affinity[t] = {c}) => MsrShape(c)
=============================================================================

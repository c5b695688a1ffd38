---------------------------- MODULE KernovaRuntime ----------------------------
(***************************************************************************)
(* Processes running the C++ service (main.cpp and the backends of         *)
(* hypervisor_backend.cpp) on one host, composed with the life cycle of    *)
(* the kernel driver they share.  Each ioctl is a call and a return around *)
(* the step in which the driver applies it, so the calls of two processes  *)
(* interleave; a process may be killed at any point outside the driver.    *)
(* A process slot may be started again: the statics are fresh, what the    *)
(* driver keeps is not.                                                    *)
(***************************************************************************)
EXTENDS DriverLifecycle, Integers

CONSTANTS
  Hosts   \* which CPUs to consider, a subset of HostKinds

(* What detect_cpu_features finds: AMD with SVM and its revision and ASID  *)
(* count, AMD with SVM but without them, Intel with VMX, or neither.       *)
HostKinds == {"amd", "amd_bare", "intel", "other"}

ASSUME HostAssumption == Hosts \subseteq HostKinds

(* HLT is all the driver intercepts (amd_svm.c:130).  The exits that come  *)
(* without an intercept are not 0 either, which is the read of CR0.        *)
ASSUME ExitAssumption == NoExit \notin ExitCodes

VARIABLES
  host,    \* the CPU
  env,     \* env[p]: KERNOVA_ENABLE_HARDWARE_BACKEND, KERNOVA_STRICT_VMX are "1"
  pc,      \* pc[p]: where process p is
  client,  \* client[p]: the selected backend object and g_hv_state
  exit,    \* exit[p]: how its last run ended
  alone    \* auxiliary: the running process whose call changed the life cycle last

vars == <<phase, lastExit, op, host, env, pc, client, exit, alone>>
driver == <<phase, lastExit, op>>
kept == <<env, exit, alone>>  \* what only Start, Ends and Apply change

svm_supported == host \in {"amd", "amd_bare"}
vmx_supported == host = "intel"

(* The ioctl issued at each place by the Kernel Driver backend.            *)
IoctlAt == [status      |-> "QUERY_CAPS",
            init_query  |-> "QUERY_CAPS",
            init        |-> "INIT_BACKEND",
            setup_query |-> "QUERY_CAPS",
            setup       |-> "CREATE_VM",
            launch      |-> "RUN_VM",
            final       |-> "QUERY_CAPS",
            shutdown    |-> "DESTROY_VM"]
Places == DOMAIN IoctlAt \cup {"off", "enclave", "select", "main", "hlt"}
Exits == {"never_ran", "running", "ok", "killed", "fail_enclave", "fail_init",
          "fail_setup", "fail_launch"}

(* kind "driver" is fd_ >= 0.  launched is the outcome of launch().        *)
NoClient == [kind |-> "none", initialized |-> FALSE, configured |-> FALSE,
             launched |-> FALSE, validated |-> FALSE]

NoEnv == [enable |-> FALSE, strict |-> FALSE]

RuntimeInit ==
  /\ AbsInit
  /\ host \in Hosts
  /\ env = [p \in Procs |-> NoEnv]
  /\ pc = [p \in Procs |-> "off"]
  /\ client = [p \in Procs |-> NoClient]
  /\ exit = [p \in Procs |-> "never_ran"]
  /\ alone = {}

-----------------------------------------------------------------------------
Goto(p, l) == pc' = [pc EXCEPT ![p] = l]
Set(p, f) == client' = [client EXCEPT ![p][f] = TRUE]

hardware_backend_enabled(p) == env[p].enable \/ env[p].strict

(* The process is gone and with it its file, its statics and environment.  *)
Ends(p, how) ==
  /\ exit' = [exit EXCEPT ![p] = how]
  /\ client' = [client EXCEPT ![p] = NoClient]
  /\ env' = [env EXCEPT ![p] = NoEnv]
  /\ alone' = alone \ {p}
  /\ Goto(p, "off")

(* A failure of the hardware path: fatal in strict mode, otherwise the     *)
(* process goes on at l.                                                   *)
FailOr(p, how, l) ==
  IF env[p].strict THEN Ends(p, how)
                   ELSE Goto(p, l) /\ UNCHANGED <<client, kept>>

-----------------------------------------------------------------------------
(* main and hypervisor_init up to the choice of the backend.  trace_init   *)
(* always returns 0.                                                       *)
Start(p) ==
  /\ pc[p] = "off"
  /\ \E enable, strict \in BOOLEAN :
       env' = [env EXCEPT ![p] = [enable |-> enable, strict |-> strict]]
  /\ exit' = [exit EXCEPT ![p] = "running"]
  /\ Goto(p, "enclave")
  /\ UNCHANGED <<driver, host, client, alone>>

EnclaveInit(p) ==
  /\ pc[p] = "enclave"
  /\ \/ Goto(p, "select") /\ UNCHANGED <<client, kept>>
     \/ Ends(p, "fail_enclave")
  /\ UNCHANGED <<driver, host>>

(* open may fail although the device exists (permissions).                 *)
select_backend(p) ==
  /\ pc[p] = "select"
  /\ \E kind \in {"driver", "intel", "amd", "poc"} :
       /\ kind = "driver" => phase # "UNLOADED"
       /\ kind = "intel" => host = "intel"
       /\ kind = "amd" => svm_supported
       /\ kind = "poc" => host = "other"
       /\ client' = [client EXCEPT ![p].kind = kind]
       /\ Goto(p, IF kind = "driver" THEN "status" ELSE "init")
  /\ UNCHANGED <<driver, host, kept>>

-----------------------------------------------------------------------------
(* The backends that live in the process.  The privileged VMX routines are *)
(* replaced by stubs at link time; each of them reports success.           *)
VmxStub == 0

IntelInit(p) == vmx_supported /\ hardware_backend_enabled(p) /\ VmxStub = 0

(* Minimum support: SVM, a revision and at least one ASID.                 *)
has_minimum_runtime_support == host = "amd"
prepare_runtime_context == IF has_minimum_runtime_support THEN 0 ELSE -1

LocalInitSucceeds(p) ==
  CASE client[p].kind = "intel" -> IntelInit(p)
    [] client[p].kind = "amd"   -> prepare_runtime_context = 0
    [] client[p].kind = "poc"   -> TRUE

LocalInit(p) ==
  /\ pc[p] = "init"
  /\ client[p].kind # "driver"
  /\ IF LocalInitSucceeds(p)
     THEN Set(p, "initialized") /\ Goto(p, "setup") /\ UNCHANGED kept
     ELSE FailOr(p, "fail_init", "main")
  /\ UNCHANGED <<driver, host>>

(* setup_guest of an initialized backend: vmcs_setup is a stub too, and a  *)
(* prepared SVM context needs nothing more.  Only the Intel backend calls  *)
(* that validated.                                                         *)
LocalSetup(p) ==
  /\ pc[p] = "setup"
  /\ client[p].kind # "driver"
  /\ VmxStub = 0
  /\ client' = [client EXCEPT ![p].configured = TRUE,
                              ![p].validated = client[p].kind = "intel"]
  /\ Goto(p, "main")
  /\ UNCHANGED <<driver, host, kept>>

LocalShutdown(p) ==
  /\ pc[p] = "shutdown"
  /\ client[p].kind # "driver"
  /\ Ends(p, "ok")
  /\ UNCHANGED <<driver, host>>

-----------------------------------------------------------------------------
(* The Kernel Driver backend.                                              *)
Issue(p) ==
  /\ client[p].kind = "driver"
  /\ pc[p] \in DOMAIN IoctlAt
  /\ Invoke(p)
  /\ op'[p].cmd = IoctlAt[pc[p]]
  /\ UNCHANGED <<host, pc, client, kept>>

(* The call at place l has come back.                                      *)
Returned(p, l) == pc[p] = l /\ Return(p)
Succeeded(p) == op[p].result = "ok"

StatusReturns(p) ==
  /\ Returned(p, "status")
  /\ Goto(p, "init_query")
  /\ UNCHANGED <<host, client, kept>>

InitQueryReturns(p) ==
  /\ Returned(p, "init_query")
  /\ IF Succeeded(p) /\ (svm_supported \/ vmx_supported)
     THEN Goto(p, "init") /\ UNCHANGED <<client, kept>>
     ELSE FailOr(p, "fail_init", "main")
  /\ UNCHANGED host

InitReturns(p) ==
  /\ Returned(p, "init")
  /\ IF Succeeded(p)
     THEN Set(p, "initialized") /\ Goto(p, "setup_query") /\ UNCHANGED kept
     ELSE FailOr(p, "fail_init", "main")
  /\ UNCHANGED host

SetupQueryReturns(p) ==
  /\ Returned(p, "setup_query")
  /\ IF Succeeded(p)
     THEN Goto(p, "setup") /\ UNCHANGED <<client, kept>>
     ELSE FailOr(p, "fail_setup", "main")
  /\ UNCHANGED host

(* Mutant: configured_ is set before the answer of CREATE_VM is looked at. *)
SetupTooEarly(p) ==
  /\ Returned(p, "setup")
  /\ IF Succeeded(p) \/ ~env[p].strict
     THEN /\ Set(p, "configured")
          /\ Goto(p, IF Succeeded(p) THEN "final" ELSE "main")
          /\ UNCHANGED kept
     ELSE Ends(p, "fail_setup")
  /\ UNCHANGED host

(* Mutant: the runtime launches whether or not it was enabled.             *)
SetupAlwaysLaunches(p) ==
  /\ Returned(p, "setup")
  /\ IF Succeeded(p)
     THEN Set(p, "configured") /\ Goto(p, "launch") /\ UNCHANGED kept
     ELSE FailOr(p, "fail_setup", "main")
  /\ UNCHANGED host

(* hypervisor_init launches only with its own hardware_backend_enabled,    *)
(* which does not look at KERNOVA_STRICT_VMX.                              *)
SetupReturns(p) ==
  /\ Returned(p, "setup")
  /\ IF Succeeded(p)
     THEN /\ Set(p, "configured")
          /\ Goto(p, IF env[p].enable THEN "launch" ELSE "final")
          /\ UNCHANGED kept
     ELSE FailOr(p, "fail_setup", "main")
  /\ UNCHANGED host

(* Mutant: a blocked launch is tried again and again.                      *)
LaunchRetries(p) ==
  /\ Returned(p, "launch")
  /\ IF Succeeded(p)
     THEN Set(p, "launched") /\ Goto(p, "final") /\ UNCHANGED kept
     ELSE FailOr(p, "fail_launch", "launch")
  /\ UNCHANGED host

(* Mutant: a failed launch is not fatal in strict mode either.             *)
LaunchLenient(p) ==
  /\ Returned(p, "launch")
  /\ client' = [client EXCEPT ![p].launched = Succeeded(p)]
  /\ Goto(p, "final")
  /\ UNCHANGED <<host, kept>>

LaunchReturns(p) ==
  /\ Returned(p, "launch")
  /\ IF Succeeded(p)
     THEN Set(p, "launched") /\ Goto(p, "final") /\ UNCHANGED kept
     ELSE FailOr(p, "fail_launch", "final")
  /\ UNCHANGED host

(* Mutant: the code is stored where the flag belongs.                      *)
FinalStoresCode(p) ==
  /\ Returned(p, "final")
  /\ client' = [client EXCEPT ![p].validated = op[p].snap.lastExit]
  /\ Goto(p, "main")
  /\ UNCHANGED <<host, kept>>

FinalReturns(p) ==
  /\ Returned(p, "final")
  /\ client' = [client EXCEPT ![p].validated =
                  Succeeded(p) /\ op[p].snap.lastExit # NoExit]
  /\ Goto(p, "main")
  /\ UNCHANGED <<host, kept>>

DestroyReturns(p) ==
  /\ Returned(p, "shutdown")
  /\ Ends(p, "ok")
  /\ UNCHANGED host

(* Mutant: shutdown closes the file without DESTROY_VM.                    *)
MainOnlyCloses(p) ==
  /\ pc[p] = "main"
  /\ IF client[p].validated
     THEN Goto(p, "hlt") /\ UNCHANGED <<client, kept>>
     ELSE Ends(p, "ok")
  /\ UNCHANGED <<driver, host>>

(* hypervisor_main.                                                        *)
Main(p) ==
  /\ pc[p] = "main"
  /\ Goto(p, IF client[p].validated THEN "hlt" ELSE "shutdown")
  /\ UNCHANGED <<driver, host, client, kept>>

(* hlt is a privileged instruction: the process dies of a general          *)
(* protection fault and hypervisor_shutdown is not reached.                *)
Halt(p) ==
  /\ pc[p] = "hlt"
  /\ Ends(p, "killed")
  /\ UNCHANGED <<driver, host>>

Kill(p) ==
  /\ pc[p] # "off"
  /\ op[p] = Idle
  /\ Ends(p, "killed")
  /\ UNCHANGED <<driver, host>>

-----------------------------------------------------------------------------
(* The driver.  A caller that died inside VMRUN keeps the mutex, so nobody *)
(* else is served any more.                                                *)
Serving == \A q \in Procs : op[q].result # "dead"

(* RUN_VM needs KERNOVA_RUN_ALLOW_PRIVILEGED, which launch() sets from the *)
(* environment.  An Intel host gets ENODEV for everything but a query.     *)
MayRun(p) == svm_supported /\ hardware_backend_enabled(p)

Apply(p) ==
  /\ Serving
  /\ \/ Reject(p) \/ Query(p) \/ DestroyVm(p)
     \/ svm_supported /\ (InitBackend(p) \/ CreateVm(p))
     \/ MayRun(p) /\ RunVm(p)
     \/ LoseAnswer(p)
  /\ alone' = IF op'[p].result = "ok" /\ op[p].cmd \in {"INIT_BACKEND", "CREATE_VM", "DESTROY_VM"}
              THEN {p} ELSE alone
  /\ UNCHANGED <<host, env, pc, client, exit>>

Dies(p) ==
  /\ Serving
  /\ MayRun(p)
  /\ Perish(p)
  /\ UNCHANGED <<host, pc, client, kept>>

Opened(p) == client[p].kind = "driver" /\ op[p].result # "dead"

Module ==
  /\ Load \/ (/\ Serving
              /\ \A p \in Procs : ~Opened(p)
              /\ Discard \/ Unload)
  /\ UNCHANGED <<host, pc, client, kept>>

Program(p) ==
  \/ EnclaveInit(p) \/ select_backend(p)
  \/ LocalInit(p) \/ LocalSetup(p) \/ LocalShutdown(p)
  \/ Issue(p) \/ StatusReturns(p) \/ InitQueryReturns(p) \/ InitReturns(p)
  \/ SetupQueryReturns(p) \/ SetupReturns(p) \/ LaunchReturns(p) \/ FinalReturns(p)
  \/ DestroyReturns(p) \/ Main(p) \/ Halt(p)

RuntimeNext ==
  \/ Module
  \/ \E p \in Procs : Start(p) \/ Kill(p) \/ Program(p) \/ Apply(p) \/ Dies(p)

RuntimeSpec == RuntimeInit /\ [][RuntimeNext]_vars

(* A running process is scheduled, and the driver serves a pending call    *)
(* (KernovaDriver!EveryCallReturns).  Nobody need start or kill a process. *)
RuntimeFairSpec ==
  /\ RuntimeSpec
  /\ \A p \in Procs : WF_vars(Program(p)) /\ WF_vars(op[p].result = "pending" /\ Apply(p))

-----------------------------------------------------------------------------
(* Properties                                                              *)

(* Every variable has its type.                                            *)
RuntimeTypeOK ==
  /\ phase \in Phases
  /\ lastExit \in ExitCodes \cup {NoExit}
  /\ op \in [Procs -> [cmd : Commands \cup {"none"},
                       result : {"none", "pending", "ok", "error", "dead"},
                       snap : Snapshots]]
  /\ host \in HostKinds
  /\ env \in [Procs -> [enable : BOOLEAN, strict : BOOLEAN]]
  /\ pc \in [Procs -> Places]
  /\ client \in [Procs -> [kind : {"none", "driver", "intel", "amd", "poc"},
                           initialized : BOOLEAN, configured : BOOLEAN,
                           launched : BOOLEAN, validated : BOOLEAN]]
  /\ exit \in [Procs -> Exits]
  /\ alone \in {{}} \cup {{p} : p \in Procs}

Initialized(p) == pc[p] \in {"main", "hlt", "shutdown"}

(* Whatever another process does to the shared driver in between, a guest  *)
(* is entered only for a run that was started with the variable            *)
(* KERNOVA_ENABLE_HARDWARE_BACKEND=1.                                      *)
VmrunOptIn ==
  [][\A p \in Procs :
       op[p].cmd = "RUN_VM" /\ op'[p].result \in {"ok", "dead"} => env[p].enable]_vars

(* In strict mode hypervisor_init never goes on after a failure: a run     *)
(* that gets to hypervisor_main has initialized and set up the backend     *)
(* select_backend found, of whatever kind (on a host without SVM and VMX   *)
(* that is the PoC backend, which always succeeds), and a launch it asked  *)
(* the driver for has come back with a VM exit.                            *)
StrictNeverDegrades ==
  \A p \in Procs : env[p].strict /\ Initialized(p) =>
    /\ client[p].initialized /\ client[p].configured
    /\ env[p].enable /\ client[p].kind = "driver" => client[p].launched

-----------------------------------------------------------------------------
(* What holds of a process while no other changes the life cycle.          *)
Alone(p) == client[p].kind = "driver" /\ p \in alone

(* The flags of the client tell the truth about the driver, whatever state *)
(* an earlier, killed run or another process left the driver in, as long   *)
(* as nobody else has initialised, created or destroyed since this client  *)
(* last did: a configured client has its VM, and one that has launched or  *)
(* reports validated hardware still finds an exit recorded.                *)
ClientAgrees ==
  \A p \in Procs : Alone(p) /\ op[p].cmd # "DESTROY_VM" =>
    /\ client[p].configured => phase = "VM_CREATED"
    /\ client[p].initialized => phase \in {"BACKEND_INITIALIZED", "VM_CREATED"}
    /\ client[p].launched \/ client[p].validated => lastExit # NoExit

(* A run that ends in order leaves no VM and no recorded exit behind, even *)
(* one that could not initialize the backend itself, unless another        *)
(* process has changed the life cycle after this one's DESTROY_VM.         *)
CleanExitDestroys ==
  [][\A p \in Procs : Alone(p) /\ exit'[p] = "ok" /\ exit[p] = "running"
       => phase' = "CAPS_READY" /\ lastExit' = NoExit]_vars

-----------------------------------------------------------------------------
(* Every run ends, unless a caller has died inside the driver with the     *)
(* mutex held.                                                             *)
EveryRunEnds ==
  \A p \in Procs : pc[p] # "off" ~> pc[p] = "off" \/ ~Serving

-----------------------------------------------------------------------------
(* What the documentation says and the code does not do.                   *)

(* README: safe mode does not enter the guest, and hardware execution is   *)
(* off by default.  So a run without either variable reports no validated  *)
(* hardware virtualization.                                                *)
ValidatedOptIn ==
  \A p \in Procs : client[p].validated => hardware_backend_enabled(p)
=============================================================================

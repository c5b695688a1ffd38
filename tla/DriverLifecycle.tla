--------------------------- MODULE DriverLifecycle ---------------------------
(***************************************************************************)
(* What the Kernova kernel driver promises to the processes that open      *)
(* /dev/kernova: one VM life cycle shared by everybody, and ioctls that    *)
(* take effect one at a time, each at most once, somewhere between the     *)
(* call and its return.  KernovaDriver implements this specification.      *)
(***************************************************************************)
EXTENDS Naturals

CONSTANTS
  Procs,      \* the processes that issue ioctls
  ExitCodes,  \* the exit codes VMRUN may store in the VMCB
  NoExit      \* last_exit_code = 0: no VM exit recorded

VARIABLES
  phase,      \* runtime_state as the driver reports it, or "UNLOADED"
  lastExit,   \* the last exit code the driver recorded
  op          \* op[p]: the call of process p

absVars == <<phase, lastExit, op>>

Commands == {"QUERY_CAPS", "INIT_BACKEND", "CREATE_VM", "RUN_VM", "DESTROY_VM", "OTHER"}
Phases == {"UNLOADED", "CAPS_READY", "BACKEND_INITIALIZED", "VM_CREATED"}
Snapshots == [phase : Phases, lastExit : ExitCodes \cup {NoExit}]

NoSnap == [phase |-> "UNLOADED", lastExit |-> NoExit]
Snap == [phase |-> phase, lastExit |-> lastExit]

(* A call is pending until it is applied; "ok" and "error" are what it     *)
(* will answer.                                                            *)
Idle == [cmd |-> "none", result |-> "none", snap |-> NoSnap]
Pending(c) == [cmd |-> c, result |-> "pending", snap |-> NoSnap]
IsPending(p, c) == op[p] = Pending(c)

AbsInit ==
  /\ phase = "UNLOADED"
  /\ lastExit = NoExit
  /\ op = [p \in Procs |-> Idle]

Answer(p, r, s) == op' = [op EXCEPT ![p].result = r, ![p].snap = s]

-----------------------------------------------------------------------------
(* The administrator loads and unloads the module.                         *)
Load ==
  /\ phase = "UNLOADED"
  /\ phase' = "CAPS_READY"
  /\ UNCHANGED <<lastExit, op>>

Discard ==
  /\ phase # "UNLOADED"
  /\ \A p \in Procs : op[p].result # "pending"
  /\ phase' = "CAPS_READY"
  /\ lastExit' = NoExit
  /\ UNCHANGED op

Unload ==
  /\ phase = "CAPS_READY"
  /\ lastExit = NoExit
  /\ \A p \in Procs : op[p].result # "pending"
  /\ phase' = "UNLOADED"
  /\ UNCHANGED <<lastExit, op>>

-----------------------------------------------------------------------------
(* The calls.  Reject is every failure: it changes nothing.                *)
Invoke(p) ==
  /\ phase # "UNLOADED"
  /\ op[p] = Idle
  /\ \E c \in Commands : op' = [op EXCEPT ![p] = Pending(c)]
  /\ UNCHANGED <<phase, lastExit>>

Reject(p) ==
  /\ op[p].result = "pending"
  /\ op[p].cmd # "DESTROY_VM"
  /\ Answer(p, "error", NoSnap)
  /\ UNCHANGED <<phase, lastExit>>

Query(p) ==
  /\ IsPending(p, "QUERY_CAPS")
  /\ Answer(p, "ok", Snap)
  /\ UNCHANGED <<phase, lastExit>>

InitBackend(p) ==
  /\ IsPending(p, "INIT_BACKEND")
  /\ Answer(p, "ok", NoSnap)
  /\ phase' = IF phase = "CAPS_READY" THEN "BACKEND_INITIALIZED" ELSE phase
  /\ UNCHANGED lastExit

CreateVm(p) ==
  /\ IsPending(p, "CREATE_VM")
  /\ phase \in {"BACKEND_INITIALIZED", "VM_CREATED"}
  /\ Answer(p, "ok", NoSnap)
  /\ phase' = "VM_CREATED"
  /\ UNCHANGED lastExit

RunVm(p) ==
  /\ IsPending(p, "RUN_VM")
  /\ phase = "VM_CREATED"
  /\ lastExit' \in ExitCodes
  /\ Answer(p, "ok", NoSnap)
  /\ UNCHANGED phase

DestroyVm(p) ==
  /\ IsPending(p, "DESTROY_VM")
  /\ Answer(p, "ok", NoSnap)
  /\ phase' = "CAPS_READY"
  /\ lastExit' = NoExit

(* The guest ran but its answer could not be copied out.                   *)
LoseAnswer(p) ==
  /\ op[p].cmd = "RUN_VM"
  /\ op[p].result = "ok"
  /\ Answer(p, "error", NoSnap)
  /\ UNCHANGED <<phase, lastExit>>

Return(p) ==
  /\ op[p].result \in {"ok", "error"}
  /\ op' = [op EXCEPT ![p] = Idle]
  /\ UNCHANGED <<phase, lastExit>>

(* The caller is killed inside the call and holds the driver for ever.     *)
Perish(p) ==
  /\ IsPending(p, "RUN_VM")
  /\ phase = "VM_CREATED"
  /\ op' = [op EXCEPT ![p].result = "dead"]
  /\ UNCHANGED <<phase, lastExit>>

AbsNext ==
  \/ Load \/ Discard \/ Unload
  \/ \E p \in Procs :
       \/ Invoke(p) \/ Reject(p) \/ Query(p) \/ InitBackend(p) \/ CreateVm(p)
       \/ RunVm(p) \/ DestroyVm(p) \/ LoseAnswer(p) \/ Return(p) \/ Perish(p)

AbsSpec == AbsInit /\ [][AbsNext]_absVars

-----------------------------------------------------------------------------
(* A VM exit is on record only while the VM that took it exists, and what  *)
(* a query has copied out was true at one moment: it never pairs the exit  *)
(* of one VM with the life-cycle phase after that VM.                      *)
ReportsMakeSense ==
  /\ lastExit # NoExit => phase = "VM_CREATED"
  /\ \A p \in Procs : op[p].snap.lastExit # NoExit => op[p].snap.phase = "VM_CREATED"
=============================================================================

------------------------ MODULE KernovaRuntime_proofs ------------------------
(* Proofs about KernovaRuntime, for any number of processes on any host.   *)
EXTENDS KernovaRuntime, DriverLifecycle_proofs, TLAPS

(* The places of a run before it has chosen a backend, those only the      *)
(* Kernel Driver backend reaches, those before and after the calls that    *)
(* initialise the backend and set the guest up, and those before the guest *)
(* has run.                                                                *)
Unselected == {"off", "enclave", "select"}
DriverOnly == {"status", "init_query", "setup_query", "launch", "final"}
Fresh == Unselected \cup {"status", "init_query", "init"}
AfterInit == {"setup_query", "setup", "launch", "final"}
AfterSetup == {"launch", "final"}
BeforeLaunch == Fresh \cup {"setup_query", "setup", "launch"}

(* What process p knows about itself.                                      *)
Local(p) ==
  /\ client[p].kind = "none" <=> pc[p] \in Unselected
  /\ pc[p] \in DriverOnly => client[p].kind = "driver"
  /\ pc[p] = "launch" => env[p].enable
  /\ pc[p] \in Fresh => ~client[p].initialized /\ ~client[p].configured
  /\ pc[p] \in AfterInit => client[p].initialized
  /\ pc[p] \in AfterSetup => client[p].configured
  /\ pc[p] \in BeforeLaunch => ~client[p].launched
  /\ pc[p] \in BeforeLaunch \cup {"final"} => ~client[p].validated

(* A call is the one its place issues, and DESTROY_VM does not fail.       *)
Calling(p) ==
  op[p] # Idle =>
    /\ client[p].kind = "driver"
    /\ pc[p] \in DOMAIN IoctlAt
    /\ op[p].cmd = IoctlAt[pc[p]]
    /\ op[p].result # "none"
    /\ op[p].cmd = "DESTROY_VM" => op[p].result \in {"pending", "ok"}

(* A strict run that got past the launch has gone all the way.             *)
Strict(p) ==
  env[p].strict =>
    /\ pc[p] = "final" /\ env[p].enable => client[p].launched
    /\ pc[p] \in {"main", "hlt", "shutdown"} =>
         /\ client[p].initialized /\ client[p].configured
         /\ env[p].enable /\ client[p].kind = "driver" => client[p].launched

(* Something of process p says that a VM exit is on record.                *)
SawExit(p) ==
  \/ client[p].launched
  \/ client[p].validated
  \/ op[p].cmd = "RUN_VM" /\ op[p].result = "ok"
  \/ op[p].snap.lastExit # NoExit

(* An open file keeps the module loaded; a process that is alone holds the *)
(* file and, from the answer of its call on, knows the driver's state.     *)
Agrees(p) ==
  /\ client[p].kind = "driver" => phase # "UNLOADED"
  /\ p \in alone => client[p].kind = "driver"
  /\ p \in alone /\ op[p].cmd # "DESTROY_VM" =>
       /\ client[p].configured \/ (op[p].cmd = "CREATE_VM" /\ op[p].result = "ok")
            => phase = "VM_CREATED"
       /\ client[p].initialized \/ (op[p].cmd = "INIT_BACKEND" /\ op[p].result = "ok")
            => phase \in {"BACKEND_INITIALIZED", "VM_CREATED"}
       /\ SawExit(p) => lastExit # NoExit
  /\ p \in alone /\ op[p].cmd = "DESTROY_VM" /\ op[p].result = "ok" =>
       phase = "CAPS_READY" /\ lastExit = NoExit

RuntimeInv ==
  /\ RuntimeTypeOK
  /\ \A p \in Procs : Local(p) /\ Calling(p) /\ Strict(p) /\ Agrees(p)

Moves(p) == Start(p) \/ Kill(p) \/ Program(p) \/ Apply(p) \/ Dies(p)

-----------------------------------------------------------------------------
(* What each place issues.                                                 *)
LEMMA Ioctls ==
  /\ DOMAIN IoctlAt = {"status", "init_query", "init", "setup_query", "setup",
                        "launch", "final", "shutdown"}
  /\ IoctlAt["status"] = "QUERY_CAPS" /\ IoctlAt["init_query"] = "QUERY_CAPS"
  /\ IoctlAt["init"] = "INIT_BACKEND" /\ IoctlAt["setup_query"] = "QUERY_CAPS"
  /\ IoctlAt["setup"] = "CREATE_VM" /\ IoctlAt["launch"] = "RUN_VM"
  /\ IoctlAt["final"] = "QUERY_CAPS" /\ IoctlAt["shutdown"] = "DESTROY_VM"
  BY DEF IoctlAt

LEMMA PlaceNames ==
  Places = {"status", "init_query", "init", "setup_query", "setup", "launch", "final",
            "shutdown", "off", "enclave", "select", "main", "hlt"}
  BY Ioctls DEF Places

LEMMA InitRuntimeInv == RuntimeInit => RuntimeInv
  <1> SUFFICES ASSUME RuntimeInit PROVE RuntimeInv
    OBVIOUS
  <1>1. RuntimeTypeOK
    BY HostAssumption, PlaceNames
    DEF RuntimeInit, AbsInit, RuntimeTypeOK, Idle, NoSnap, Snapshots, Phases, NoEnv,
        NoClient, Exits
  <1>2. ASSUME NEW p \in Procs PROVE Local(p) /\ Calling(p) /\ Strict(p) /\ Agrees(p)
    BY <1>2 DEF RuntimeInit, AbsInit, Local, Calling, Strict, Agrees, NoClient, NoEnv,
                Unselected, DriverOnly, Fresh, AfterInit, AfterSetup, BeforeLaunch,
                SawExit, Idle, NoSnap
  <1> QED
    BY <1>1, <1>2 DEF RuntimeInv

-----------------------------------------------------------------------------
(* A process writes only its own entries.                                  *)
LEMMA OwnEntries ==
  ASSUME RuntimeTypeOK, NEW q \in Procs, Moves(q), NEW p \in Procs, p # q
  PROVE  op'[p] = op[p] /\ env'[p] = env[p] /\ pc'[p] = pc[p] /\ client'[p] = client[p]
  <1> USE DEF RuntimeTypeOK, driver, kept
  <1>1. CASE Apply(q) \/ Dies(q)
    BY <1>1 DEF Apply, Dies, Reject, Query, InitBackend, CreateVm, RunVm, DestroyVm,
                LoseAnswer, Perish, Answer
  <1>2. CASE Start(q) \/ Kill(q) \/ EnclaveInit(q) \/ select_backend(q)
    BY <1>2 DEF Start, Kill, EnclaveInit, select_backend, Ends, Goto
  <1>3. CASE LocalInit(q) \/ LocalSetup(q) \/ LocalShutdown(q) \/ Main(q) \/ Halt(q)
    BY <1>3 DEF LocalInit, LocalSetup, LocalShutdown, Main, Halt, Ends, Goto, Set, FailOr
  <1>4. CASE Issue(q)
    BY <1>4 DEF Issue, Invoke
  <1>5. CASE StatusReturns(q) \/ InitQueryReturns(q) \/ InitReturns(q) \/ SetupQueryReturns(q)
    BY <1>5 DEF StatusReturns, InitQueryReturns, InitReturns, SetupQueryReturns, Returned,
                Return, Ends, Goto, Set, FailOr
  <1>6. CASE SetupReturns(q) \/ LaunchReturns(q) \/ FinalReturns(q) \/ DestroyReturns(q)
    BY <1>6 DEF SetupReturns, LaunchReturns, FinalReturns, DestroyReturns, Returned,
                Return, Ends, Goto, Set, FailOr
  <1> QED
    BY <1>1, <1>2, <1>3, <1>4, <1>5, <1>6 DEF Moves, Program

-----------------------------------------------------------------------------
(* Types.                                                                  *)
EnvType == [enable : BOOLEAN, strict : BOOLEAN]
ClientType == [kind : {"none", "driver", "intel", "amd", "poc"},
               initialized : BOOLEAN, configured : BOOLEAN,
               launched : BOOLEAN, validated : BOOLEAN]
CallType == [cmd : Commands \cup {"none"},
             result : {"none", "pending", "ok", "error", "dead"}, snap : Snapshots]
ProcessTypes ==
  /\ env \in [Procs -> EnvType]
  /\ pc \in [Procs -> Places]
  /\ client \in [Procs -> ClientType]
  /\ exit \in [Procs -> Exits]
  /\ alone \in {{}} \cup {{p} : p \in Procs}
DriverTypes ==
  /\ phase \in Phases
  /\ lastExit \in ExitCodes \cup {NoExit}
  /\ op \in [Procs -> CallType]

LEMMA TypeParts == RuntimeTypeOK <=> DriverTypes /\ host \in HostKinds /\ ProcessTypes
  BY DEF RuntimeTypeOK, DriverTypes, ProcessTypes, EnvType, ClientType, CallType

LEMMA NextTypeParts == RuntimeTypeOK' <=> DriverTypes' /\ host' \in HostKinds /\ ProcessTypes'
  BY DEF RuntimeTypeOK, DriverTypes, ProcessTypes, EnvType, ClientType, CallType

LEMMA Records ==
  /\ NoClient \in ClientType /\ NoEnv \in EnvType /\ Idle \in CallType
  /\ \A c \in Commands : Pending(c) \in CallType
  BY DEF NoClient, ClientType, NoEnv, EnvType, Idle, Pending, CallType, NoSnap, Snapshots, Phases

LEMMA ClientFields ==
  ASSUME NEW c \in ClientType
  PROVE  /\ \A k \in {"driver", "intel", "amd", "poc"} : [c EXCEPT !.kind = k] \in ClientType
         /\ [c EXCEPT !.initialized = TRUE] \in ClientType
         /\ [c EXCEPT !.configured = TRUE] \in ClientType
         /\ [c EXCEPT !.launched = TRUE] \in ClientType
         /\ \A b \in BOOLEAN : [c EXCEPT !.validated = b] \in ClientType
  BY DEF ClientType

(* The end of a run.                                                       *)
LEMMA EndsTypes ==
  ASSUME ProcessTypes, NEW p \in Procs, NEW how \in Exits, Ends(p, how)
  PROVE  ProcessTypes'
  BY Records, PlaceNames DEF ProcessTypes, Ends, Goto

LEMMA FailOrTypes ==
  ASSUME ProcessTypes, NEW p \in Procs, NEW how \in Exits, NEW l \in Places, FailOr(p, how, l)
  PROVE  ProcessTypes'
  <1>1. CASE Ends(p, how)
    BY <1>1, EndsTypes
  <1>2. CASE Goto(p, l) /\ UNCHANGED <<client, kept>>
    BY <1>2 DEF ProcessTypes, Goto, kept
  <1> QED
    BY <1>1, <1>2 DEF FailOr

LEMMA SetTypes ==
  ASSUME ProcessTypes, NEW p \in Procs, NEW f \in {"initialized", "configured", "launched"},
         Set(p, f)
  PROVE  client' \in [Procs -> ClientType]
  BY ClientFields DEF ProcessTypes, Set

LEMMA DriverStepTypes ==
  ASSUME RuntimeTypeOK, NEW p \in Procs, Apply(p) \/ Dies(p)
  PROVE  RuntimeTypeOK'
  <1> USE TypeParts, NextTypeParts
  <1>1. \A r \in {"ok", "error", "dead"}, s \in Snapshots :
          Answer(p, r, s) => op' \in [Procs -> CallType]
    <2> SUFFICES ASSUME NEW r \in {"ok", "error", "dead"}, NEW s \in Snapshots, Answer(p, r, s)
                 PROVE  op' \in [Procs -> CallType]
      OBVIOUS
    <2>1. [op[p] EXCEPT !.result = r, !.snap = s] \in CallType
      BY DEF DriverTypes, CallType
    <2> QED
      BY <2>1 DEF DriverTypes, Answer
  <1>2. NoSnap \in Snapshots /\ Snap \in Snapshots
    BY DEF DriverTypes, NoSnap, Snap, Snapshots, Phases
  <1>3. CASE Apply(p)
    <2>1. ProcessTypes'
      BY <1>3 DEF Apply, ProcessTypes
    <2>2. DriverTypes'
      <3>1. CASE Reject(p) \/ Query(p) \/ LoseAnswer(p)
        BY <3>1, <1>1, <1>2 DEF DriverTypes, Reject, Query, LoseAnswer
      <3>2. CASE InitBackend(p) \/ CreateVm(p)
        BY <3>2, <1>1, <1>2 DEF DriverTypes, InitBackend, CreateVm, Phases
      <3>3. CASE RunVm(p) \/ DestroyVm(p)
        BY <3>3, <1>1, <1>2 DEF DriverTypes, RunVm, DestroyVm, Phases
      <3> QED
        BY <1>3, <3>1, <3>2, <3>3 DEF Apply
    <2> QED
      BY <1>3, <2>1, <2>2 DEF Apply
  <1>4. CASE Dies(p)
    <2>1. ProcessTypes'
      BY <1>4 DEF Dies, kept, ProcessTypes
    <2>2. DriverTypes'
      BY <1>4 DEF Dies, Perish, DriverTypes, CallType
    <2> QED
      BY <1>4, <2>1, <2>2 DEF Dies
  <1> QED
    BY <1>3, <1>4

LEMMA StepTypes ==
  ASSUME RuntimeTypeOK, NEW p \in Procs, Moves(p)
  PROVE  RuntimeTypeOK'
  <1> USE TypeParts, NextTypeParts
  <1> USE PlaceNames DEF Exits
  <1>1. CASE Apply(p) \/ Dies(p)
    BY <1>1, DriverStepTypes
  <1>2. UNCHANGED driver => DriverTypes'
    BY DEF DriverTypes, driver
  <1>3. Return(p) => DriverTypes'
    BY Records DEF DriverTypes, Return
  <1>4. \A l \in Places : Goto(p, l) => pc' \in [Procs -> Places]
    BY DEF ProcessTypes, Goto
  <1>5. UNCHANGED kept =>
          env' \in [Procs -> EnvType] /\ exit' \in [Procs -> Exits] /\ alone' = alone
    BY DEF ProcessTypes, kept
  <1>6. UNCHANGED client => client' \in [Procs -> ClientType]
    BY DEF ProcessTypes
  <1>7. CASE Start(p)
    <2>1. env' \in [Procs -> EnvType]
      BY <1>7 DEF Start, ProcessTypes, EnvType
    <2> QED
      BY <1>2, <1>4, <1>7, <2>1 DEF Start, ProcessTypes
  <1>8. CASE Kill(p) \/ Halt(p) \/ LocalShutdown(p) \/ EnclaveInit(p)
    <2>1. CASE EnclaveInit(p)
      BY <1>2, <1>4, <1>5, <2>1, EndsTypes DEF EnclaveInit, ProcessTypes
    <2> QED
      BY <1>2, <1>8, <2>1, EndsTypes DEF Kill, Halt, LocalShutdown
  <1>9. CASE select_backend(p)
    <2>1. client' \in [Procs -> ClientType]
      <3>1. PICK k \in {"driver", "intel", "amd", "poc"} : client' = [client EXCEPT ![p].kind = k]
        BY <1>9 DEF select_backend
      <3>2. client[p] \in ClientType
        BY DEF ProcessTypes
      <3>3. [client[p] EXCEPT !.kind = k] \in ClientType
        BY <3>2, ClientFields
      <3> QED
        BY <3>1, <3>3 DEF ProcessTypes
    <2>2. pc' \in [Procs -> Places]
      BY <1>4, <1>9 DEF select_backend
    <2> QED
      BY <1>2, <1>5, <1>9, <2>1, <2>2 DEF select_backend, ProcessTypes
  <1>10. CASE LocalInit(p)
    BY <1>2, <1>4, <1>5, <1>10, SetTypes, FailOrTypes DEF LocalInit, ProcessTypes
  <1>11. CASE LocalSetup(p)
    <2>1. client' \in [Procs -> ClientType]
      <3> DEFINE v == client[p].kind = "intel"
      <3>1. client[p] \in ClientType /\ v \in BOOLEAN
        BY DEF ProcessTypes
      <3>2. [client[p] EXCEPT !.configured = TRUE, !.validated = v] \in ClientType
        <4> HIDE DEF v
        <4> QED
          BY <3>1 DEF ClientType
      <3>3. client' = [client EXCEPT ![p] = [client[p] EXCEPT !.configured = TRUE, !.validated = v]]
        BY <1>11 DEF LocalSetup, ProcessTypes, ClientType
      <3> HIDE DEF v
      <3> QED
        BY <3>2, <3>3 DEF ProcessTypes
    <2> QED
      BY <1>2, <1>4, <1>5, <1>11, <2>1 DEF LocalSetup, ProcessTypes
  <1>12. CASE Issue(p)
    <2>1. DriverTypes'
      BY <1>12, Records DEF Issue, Invoke, DriverTypes
    <2> QED
      BY <1>5, <1>12, <2>1 DEF Issue, ProcessTypes
  <1>13. CASE StatusReturns(p)
    BY <1>3, <1>4, <1>5, <1>6, <1>13 DEF StatusReturns, Returned, ProcessTypes
  <1>14. CASE InitQueryReturns(p)
    BY <1>3, <1>4, <1>5, <1>6, <1>14, FailOrTypes DEF InitQueryReturns, Returned, ProcessTypes
  <1>15. CASE InitReturns(p)
    BY <1>3, <1>4, <1>5, <1>15, SetTypes, FailOrTypes DEF InitReturns, Returned, ProcessTypes
  <1>16. CASE SetupQueryReturns(p)
    BY <1>3, <1>4, <1>5, <1>6, <1>16, FailOrTypes DEF SetupQueryReturns, Returned, ProcessTypes
  <1>17. CASE SetupReturns(p)
    BY <1>3, <1>4, <1>5, <1>17, SetTypes, FailOrTypes DEF SetupReturns, Returned, ProcessTypes
  <1>18. CASE LaunchReturns(p)
    BY <1>3, <1>4, <1>5, <1>18, SetTypes, FailOrTypes DEF LaunchReturns, Returned, ProcessTypes
  <1>19. CASE FinalReturns(p)
    <2>1. client' \in [Procs -> ClientType]
      BY <1>19, ClientFields DEF FinalReturns, ProcessTypes
    <2> QED
      BY <1>3, <1>4, <1>5, <1>19, <2>1 DEF FinalReturns, Returned, ProcessTypes
  <1>20. CASE DestroyReturns(p)
    BY <1>3, <1>20, EndsTypes DEF DestroyReturns, Returned
  <1>21. CASE Main(p)
    <2>1. pc' \in [Procs -> Places]
      BY <1>4, <1>21 DEF Main
    <2> QED
      BY <1>2, <1>5, <1>6, <1>21, <2>1 DEF Main, ProcessTypes
  <1> QED
    BY <1>1, <1>7, <1>8, <1>9, <1>10, <1>11, <1>12, <1>13, <1>14, <1>15, <1>16, <1>17,
       <1>18, <1>19, <1>20, <1>21
    DEF Moves, Program

LEMMA ModuleTypes ==
  ASSUME RuntimeTypeOK, Module
  PROVE  RuntimeTypeOK'
  <1>1. ProcessTypes'
    BY TypeParts DEF Module, kept, ProcessTypes
  <1>2. DriverTypes'
    BY TypeParts DEF Module, Load, Discard, Unload, DriverTypes, Phases
  <1> QED
    BY <1>1, <1>2, TypeParts, NextTypeParts DEF Module

-----------------------------------------------------------------------------
(* What a step does to the entries of the process that takes it.           *)
LEMMA EndsEntries ==
  ASSUME ProcessTypes, NEW p \in Procs, NEW how, Ends(p, how)
  PROVE  pc'[p] = "off" /\ client'[p] = NoClient /\ env'[p] = NoEnv
  BY DEF ProcessTypes, Ends, Goto

LEMMA EndsLocal ==
  ASSUME ProcessTypes, NEW p \in Procs, NEW how, Ends(p, how), op'[p] = Idle
  PROVE  Local(p)' /\ Calling(p)' /\ Strict(p)'
  BY EndsEntries
  DEF Local, Calling, Strict, NoClient, NoEnv, Unselected, DriverOnly, Fresh, AfterInit,
      AfterSetup, BeforeLaunch

LEMMA FailOrEntries ==
  ASSUME ProcessTypes, NEW p \in Procs, NEW how, NEW l, FailOr(p, how, l), ~Ends(p, how)
  PROVE  pc'[p] = l /\ client'[p] = client[p] /\ env'[p] = env[p] /\ ~env[p].strict
  BY DEF ProcessTypes, FailOr, Goto, kept

LEMMA GotoEntries ==
  ASSUME ProcessTypes, NEW p \in Procs, NEW l, Goto(p, l)
  PROVE  pc'[p] = l
  BY DEF ProcessTypes, Goto

LEMMA SetEntries ==
  ASSUME ProcessTypes, NEW p \in Procs, NEW f \in {"initialized", "configured", "launched"},
         Set(p, f)
  PROVE  client'[p] = [client[p] EXCEPT ![f] = TRUE]
  BY DEF ProcessTypes, Set

LEMMA ReturnEntries ==
  ASSUME DriverTypes, NEW p \in Procs, Return(p)
  PROVE  op'[p] = Idle /\ op[p] # Idle
  BY DEF DriverTypes, Return, Idle

(* The process is outside the driver wherever it does not issue.           *)
LEMMA Outside ==
  ASSUME NEW p \in Procs, Calling(p),
         client[p].kind # "driver" \/ pc[p] \in {"off", "enclave", "select", "main", "hlt"}
  PROVE  op[p] = Idle
  BY Ioctls DEF Calling

(* The steps of the process itself, before and after the driver's calls.   *)
LEMMA ProcessSteps ==
  ASSUME RuntimeTypeOK, NEW p \in Procs, Local(p), Calling(p), Strict(p),
         Start(p) \/ Kill(p) \/ EnclaveInit(p) \/ select_backend(p) \/ LocalInit(p)
           \/ LocalSetup(p) \/ LocalShutdown(p) \/ Main(p) \/ Halt(p)
  PROVE  Local(p)' /\ Calling(p)' /\ Strict(p)'
  <1> USE TypeParts
  <1> USE DEF Unselected, DriverOnly, Fresh, AfterInit, AfterSetup, BeforeLaunch
  <1>1. op'[p] = op[p]
    BY DEF driver, Start, Kill, EnclaveInit, select_backend, LocalInit, LocalSetup,
           LocalShutdown, Main, Halt
  <1>2. op[p] = Idle
    BY Outside, Ioctls DEF Start, Kill, EnclaveInit, select_backend, LocalInit, LocalSetup,
           LocalShutdown, Main, Halt
  <1>3. Calling(p)'
    BY <1>1, <1>2 DEF Calling
  <1>4. CASE Start(p)
    <2>1. pc'[p] = "enclave" /\ client'[p] = client[p]
      BY <1>4, GotoEntries DEF Start
    <2> QED
      BY <1>3, <1>4, <2>1 DEF Start, Local, Strict
  <1>5. CASE Kill(p) \/ LocalShutdown(p) \/ Halt(p)
    BY <1>1, <1>2, <1>5, EndsLocal DEF Kill, LocalShutdown, Halt
  <1>6. CASE EnclaveInit(p)
    <2>1. CASE Goto(p, "select") /\ UNCHANGED <<client, kept>>
      <3>1. pc'[p] = "select"
        BY <2>1, GotoEntries
      <3> QED
        BY <1>3, <1>6, <2>1, <3>1 DEF EnclaveInit, kept, Local, Strict
    <2> QED
      BY <1>1, <1>2, <1>6, <2>1, EndsLocal DEF EnclaveInit
  <1>7. CASE select_backend(p)
    <2>1. PICK k \in {"driver", "intel", "amd", "poc"} :
            /\ client' = [client EXCEPT ![p].kind = k]
            /\ Goto(p, IF k = "driver" THEN "status" ELSE "init")
      BY <1>7 DEF select_backend
    <2>2. client'[p] = [client[p] EXCEPT !.kind = k] /\ client[p] \in ClientType
      BY <2>1 DEF ProcessTypes
    <2>3. pc'[p] = IF k = "driver" THEN "status" ELSE "init"
      BY <2>1, GotoEntries
    <2> QED
      BY <1>3, <1>7, <2>2, <2>3 DEF select_backend, kept, Local, Strict, ClientType
  <1>8. CASE LocalInit(p)
    <2>1. CASE Set(p, "initialized") /\ Goto(p, "setup") /\ UNCHANGED kept
      <3>1. client'[p] = [client[p] EXCEPT !.initialized = TRUE] /\ pc'[p] = "setup"
              /\ client[p] \in ClientType
        BY <2>1, SetEntries, GotoEntries DEF ProcessTypes
      <3> QED
        BY <1>3, <1>8, <2>1, <3>1 DEF LocalInit, kept, Local, Strict, ClientType
    <2>2. CASE FailOr(p, "fail_init", "main") /\ ~Ends(p, "fail_init")
      <3>1. pc'[p] = "main" /\ client'[p] = client[p] /\ env'[p] = env[p] /\ ~env[p].strict
        BY <2>2, FailOrEntries
      <3> QED
        BY <1>3, <1>8, <3>1 DEF LocalInit, Local, Strict
    <2> QED
      BY <1>1, <1>2, <1>8, <2>1, <2>2, EndsLocal DEF LocalInit
  <1>9. CASE LocalSetup(p)
    <2>1. client[p] \in ClientType /\ pc'[p] = "main" /\ env'[p] = env[p]
      BY <1>9, GotoEntries DEF LocalSetup, kept, ProcessTypes
    <2>2. /\ client'[p].configured /\ client'[p].kind = client[p].kind
          /\ client'[p].initialized = client[p].initialized
      BY <1>9, <2>1 DEF LocalSetup, ProcessTypes, ClientType
    <2>3. pc[p] = "setup" /\ client[p].kind # "driver"
      BY <1>9 DEF LocalSetup
    <2> QED
      BY <1>3, <2>1, <2>2, <2>3 DEF Local, Strict
  <1>10. CASE Main(p)
    <2>1. pc'[p] = IF client[p].validated THEN "hlt" ELSE "shutdown"
      BY <1>10, GotoEntries DEF Main
    <2> QED
      BY <1>3, <1>10, <2>1 DEF Main, kept, Local, Strict
  <1> QED
    BY <1>4, <1>5, <1>6, <1>7, <1>8, <1>9, <1>10

(* The driver changes the call and nothing else of a process.              *)
LEMMA DriverSteps ==
  ASSUME RuntimeTypeOK, NEW p \in Procs, Local(p), Calling(p), Strict(p), Apply(p) \/ Dies(p)
  PROVE  Local(p)' /\ Calling(p)' /\ Strict(p)'
  <1> USE TypeParts
  <1>1. UNCHANGED <<env, pc, client>>
    BY DEF Apply, Dies, kept
  <1>2. op[p] # Idle
    BY DEF Apply, Dies, Reject, Query, InitBackend, CreateVm, RunVm, DestroyVm, LoseAnswer,
           Perish, IsPending, Pending, Idle
  <1>3. PICK r \in {"ok", "error", "dead"} :
          /\ op'[p].result = r
          /\ op'[p].cmd = op[p].cmd
          /\ op[p].cmd = "DESTROY_VM" => r = "ok"
    <2>1. op \in [Procs -> CallType]
      BY DEF DriverTypes
    <2>2. CASE Dies(p)
      BY <2>1, <2>2 DEF Dies, Perish, IsPending, Pending, CallType
    <2>3. CASE Reject(p)
      BY <2>1, <2>3 DEF Reject, Answer, CallType
    <2>4. CASE Query(p) \/ InitBackend(p) \/ CreateVm(p) \/ RunVm(p) \/ DestroyVm(p)
      BY <2>1, <2>4 DEF Query, InitBackend, CreateVm, RunVm, DestroyVm, IsPending, Pending,
                        Answer, CallType
    <2>5. CASE LoseAnswer(p)
      BY <2>1, <2>5 DEF LoseAnswer, Answer, CallType
    <2> QED
      BY <2>2, <2>3, <2>4, <2>5 DEF Apply
  <1>4. Calling(p)'
    BY <1>1, <1>2, <1>3 DEF Calling
  <1> QED
    BY <1>1, <1>4 DEF Local, Strict

(* A call starts and comes back.                                           *)
LEMMA IoctlSteps ==
  ASSUME RuntimeTypeOK, NEW p \in Procs, Local(p), Calling(p), Strict(p),
         Issue(p) \/ StatusReturns(p) \/ InitQueryReturns(p) \/ InitReturns(p)
           \/ SetupQueryReturns(p) \/ SetupReturns(p) \/ LaunchReturns(p)
           \/ FinalReturns(p) \/ DestroyReturns(p)
  PROVE  Local(p)' /\ Calling(p)' /\ Strict(p)'
  <1> USE TypeParts
  <1> USE DEF Unselected, DriverOnly, Fresh, AfterInit, AfterSetup, BeforeLaunch
  <1>1. client[p] \in ClientType
    BY DEF ProcessTypes
  <1>2. CASE Issue(p)
    <2>1. PICK c \in Commands : op'[p] = Pending(c) /\ c = IoctlAt[pc[p]]
      BY <1>2 DEF Issue, Invoke, Pending, DriverTypes
    <2>2. UNCHANGED <<env, pc, client>>
      BY <1>2 DEF Issue, kept
    <2>3. Calling(p)'
      BY <1>2, <2>1, <2>2 DEF Issue, Calling, Pending
    <2> QED
      BY <2>2, <2>3 DEF Local, Strict
  <1>3. ASSUME Return(p)
        PROVE  op'[p] = Idle /\ Calling(p)' /\ client[p].kind = "driver"
    BY <1>3, ReturnEntries DEF Calling
  <1>4. ASSUME Return(p), NEW how, NEW l, FailOr(p, how, l), l = "main" \/ l = "final",
               l = "final" => pc[p] = "launch"
        PROVE  Local(p)' /\ Calling(p)' /\ Strict(p)'
    <2>1. CASE Ends(p, how)
      BY <1>3, <1>4, <2>1, EndsLocal
    <2>2. CASE ~Ends(p, how)
      <3>1. pc'[p] = l /\ client'[p] = client[p] /\ env'[p] = env[p] /\ ~env[p].strict
        BY <1>4, <2>2, FailOrEntries
      <3> QED
        BY <1>3, <1>4, <3>1 DEF Local, Strict
    <2> QED
      BY <2>1, <2>2
  <1>5. ASSUME Return(p), NEW l, Goto(p, l), UNCHANGED <<client, kept>>,
               \/ pc[p] = "status" /\ l = "init_query"
               \/ pc[p] = "init_query" /\ l = "init"
               \/ pc[p] = "setup_query" /\ l = "setup"
        PROVE  Local(p)' /\ Calling(p)' /\ Strict(p)'
    <2>1. pc'[p] = l /\ client'[p] = client[p] /\ env'[p] = env[p]
      BY <1>5, GotoEntries DEF kept
    <2> QED
      BY <1>3, <1>5, <2>1 DEF Local, Strict
  <1>6. CASE StatusReturns(p)
    BY <1>5, <1>6 DEF StatusReturns, Returned, kept
  <1>7. CASE InitQueryReturns(p) \/ SetupQueryReturns(p)
    BY <1>4, <1>5, <1>7 DEF InitQueryReturns, SetupQueryReturns, Returned, kept
  <1>8. ASSUME Return(p), NEW f \in {"initialized", "configured", "launched"}, Set(p, f),
               NEW l, Goto(p, l), UNCHANGED kept
        PROVE  /\ pc'[p] = l /\ env'[p] = env[p]
               /\ client'[p] = [client[p] EXCEPT ![f] = TRUE]
    BY <1>8, GotoEntries, SetEntries DEF kept
  <1>9. CASE InitReturns(p)
    <2>1. CASE Set(p, "initialized") /\ Goto(p, "setup_query") /\ UNCHANGED kept
      BY <1>1, <1>3, <1>8, <1>9, <2>1 DEF InitReturns, Returned, Local, Strict, ClientType
    <2> QED
      BY <1>4, <1>9, <2>1 DEF InitReturns, Returned
  <1>10. CASE SetupReturns(p)
    <2> DEFINE l == IF env[p].enable THEN "launch" ELSE "final"
    <2>1. CASE Set(p, "configured") /\ Goto(p, l) /\ UNCHANGED kept
      BY <1>1, <1>3, <1>8, <1>10, <2>1 DEF SetupReturns, Returned, Local, Strict, ClientType
    <2> QED
      BY <1>4, <1>10, <2>1 DEF SetupReturns, Returned
  <1>11. CASE LaunchReturns(p)
    <2>1. CASE Set(p, "launched") /\ Goto(p, "final") /\ UNCHANGED kept
      BY <1>1, <1>3, <1>8, <1>11, <2>1 DEF LaunchReturns, Returned, Local, Strict, ClientType
    <2> QED
      BY <1>4, <1>11, <2>1 DEF LaunchReturns, Returned
  <1>12. CASE FinalReturns(p)
    <2> DEFINE v == Succeeded(p) /\ op[p].snap.lastExit # NoExit
    <2>1. pc'[p] = "main" /\ env'[p] = env[p] /\ pc[p] = "final" /\ Return(p)
      BY <1>12, GotoEntries DEF FinalReturns, Returned, kept
    <2>2. client'[p] = [client[p] EXCEPT !.validated = v]
      BY <1>12 DEF FinalReturns, ProcessTypes
    <2> HIDE DEF v
    <2> QED
      BY <1>1, <1>3, <2>1, <2>2 DEF Local, Strict, ClientType
  <1>13. CASE DestroyReturns(p)
    BY <1>3, <1>13, EndsLocal DEF DestroyReturns, Returned
  <1> QED
    BY <1>2, <1>6, <1>7, <1>9, <1>10, <1>11, <1>12, <1>13

-----------------------------------------------------------------------------
(* The shared driver.  Only Apply and the administrator change it, and     *)
(* only Apply makes a process alone.                                       *)
LEMMA Quiet ==
  ASSUME RuntimeTypeOK, NEW p \in Procs, Moves(p), ~Apply(p)
  PROVE  phase' = phase /\ lastExit' = lastExit /\ (alone' = alone \/ alone' = alone \ {p})
  <1> USE DEF driver, kept, Ends, FailOr, Return, Returned
  <1>1. CASE Dies(p)
    BY <1>1 DEF Dies, Perish
  <1>2. CASE Start(p) \/ Kill(p) \/ EnclaveInit(p) \/ select_backend(p)
    BY <1>2 DEF Start, Kill, EnclaveInit, select_backend
  <1>3. CASE LocalInit(p) \/ LocalSetup(p) \/ LocalShutdown(p) \/ Main(p) \/ Halt(p)
    BY <1>3 DEF LocalInit, LocalSetup, LocalShutdown, Main, Halt
  <1>4. CASE Issue(p) \/ StatusReturns(p) \/ InitQueryReturns(p) \/ InitReturns(p)
               \/ SetupQueryReturns(p)
    BY <1>4 DEF Issue, Invoke, StatusReturns, InitQueryReturns, InitReturns, SetupQueryReturns
  <1>5. CASE SetupReturns(p) \/ LaunchReturns(p) \/ FinalReturns(p) \/ DestroyReturns(p)
    BY <1>5 DEF SetupReturns, LaunchReturns, FinalReturns, DestroyReturns
  <1> QED
    BY <1>1, <1>2, <1>3, <1>4, <1>5 DEF Moves, Program

(* A step of the process itself keeps what it knows of the driver true.    *)
LEMMA OwnAgrees ==
  ASSUME RuntimeTypeOK, NEW p \in Procs, Local(p), Calling(p), Agrees(p), Moves(p), ~Apply(p)
  PROVE  Agrees(p)'
  <1> USE TypeParts, Quiet
  <1>1. client[p] \in ClientType /\ op[p] \in CallType
    BY DEF ProcessTypes, DriverTypes
  <1>2. ASSUME NEW how, Ends(p, how)
        PROVE  Agrees(p)'
    <2>1. client'[p] = NoClient
      BY <1>2, EndsEntries
    <2>2. p \notin alone'
      BY <1>2 DEF Ends
    <2> QED
      BY <2>1, <2>2 DEF Agrees, NoClient
  <1>3. ASSUME client[p].kind # "driver", client'[p].kind = client[p].kind
        PROVE  Agrees(p)'
    BY <1>3 DEF Agrees
  <1>4. CASE Start(p) \/ Main(p)
    BY <1>4 DEF Start, Main, driver, kept, Agrees, SawExit
  <1>5. CASE Kill(p) \/ EnclaveInit(p) \/ Halt(p)
    <2>1. CASE UNCHANGED <<client, op>>
      BY <2>1 DEF Agrees, SawExit
    <2> QED
      BY <1>2, <1>5, <2>1 DEF Kill, EnclaveInit, Halt, driver
  <1>6. CASE select_backend(p)
    <2>1. PICK k \in {"driver", "intel", "amd", "poc"} :
            /\ k = "driver" => phase # "UNLOADED"
            /\ client' = [client EXCEPT ![p].kind = k]
      BY <1>6 DEF select_backend
    <2>2. client'[p].kind = k /\ client[p].kind = "none"
      BY <1>6, <2>1 DEF ProcessTypes, ClientType, select_backend, Local, Unselected
    <2> QED
      BY <2>1, <2>2 DEF Agrees
  <1>7. CASE LocalInit(p) \/ LocalSetup(p) \/ LocalShutdown(p)
    <2>1. client[p].kind # "driver"
      BY <1>7 DEF LocalInit, LocalSetup, LocalShutdown
    <2>2. CASE Set(p, "initialized")
      BY <1>1, <1>3, <2>1, <2>2, SetEntries DEF ClientType
    <2>3. CASE LocalSetup(p)
      <3>1. client'[p].kind = client[p].kind
        BY <2>3 DEF LocalSetup, ProcessTypes, ClientType
      <3> QED
        BY <1>3, <2>1, <3>1
    <2>4. CASE UNCHANGED client
      BY <1>3, <2>1, <2>4
    <2> QED
      BY <1>2, <1>7, <2>2, <2>3, <2>4 DEF LocalInit, LocalShutdown, FailOr
  <1>8. CASE Issue(p)
    <2>1. PICK c \in Commands : op'[p] = Pending(c)
      BY <1>8 DEF Issue, Invoke, Pending, DriverTypes
    <2>2. client' = client /\ op[p] = Idle
      BY <1>8 DEF Issue, Invoke
    <2> QED
      BY <2>1, <2>2 DEF Agrees, SawExit, Pending, Idle, NoSnap
  <1>9. CASE Dies(p)
    <2>1. /\ client' = client
          /\ op[p].cmd = "RUN_VM" /\ op'[p].cmd = "RUN_VM"
          /\ op'[p].result = "dead" /\ op'[p].snap = op[p].snap
      BY <1>1, <1>9 DEF Dies, Perish, IsPending, Pending, DriverTypes, CallType
    <2> QED
      BY <2>1 DEF Agrees, SawExit
  <1>10. ASSUME Return(p), pc[p] # "shutdown"
         PROVE  op'[p] = Idle /\ op[p].cmd # "DESTROY_VM" /\ client[p].kind = "driver"
    BY <1>10, ReturnEntries, Ioctls DEF Calling
  <1>11. ASSUME Return(p), pc[p] # "shutdown", client'[p].kind = "driver",
                client'[p].initialized = client[p].initialized,
                client'[p].configured = client[p].configured,
                client'[p].launched = client[p].launched,
                client'[p].validated = client[p].validated
         PROVE  Agrees(p)'
    BY <1>10, <1>11 DEF Agrees, SawExit, Idle, NoSnap
  <1>12. ASSUME Return(p), pc[p] # "shutdown", NEW how, NEW l, FailOr(p, how, l)
         PROVE  Agrees(p)'
    BY <1>2, <1>10, <1>11, <1>12 DEF FailOr
  <1>13. CASE StatusReturns(p) \/ InitQueryReturns(p) \/ SetupQueryReturns(p)
    BY <1>10, <1>11, <1>12, <1>13
    DEF StatusReturns, InitQueryReturns, SetupQueryReturns, Returned
  <1>14. CASE InitReturns(p)
    <2>1. CASE Succeeded(p) /\ Set(p, "initialized")
      <3>1. op[p].cmd = "INIT_BACKEND" /\ op[p].result = "ok" /\ op'[p] = Idle
        BY <1>10, <1>14, <2>1, ReturnEntries, Ioctls DEF InitReturns, Returned, Calling, Succeeded
      <3>2. client'[p] = [client[p] EXCEPT !.initialized = TRUE]
        BY <2>1, SetEntries
      <3> QED
        BY <1>1, <3>1, <3>2 DEF Agrees, SawExit, Idle, NoSnap, ClientType
    <2> QED
      BY <1>12, <1>14, <2>1 DEF InitReturns, Returned
  <1>15. CASE SetupReturns(p)
    <2>1. CASE Succeeded(p) /\ Set(p, "configured")
      <3>1. op[p].cmd = "CREATE_VM" /\ op[p].result = "ok" /\ op'[p] = Idle
        BY <1>10, <1>15, <2>1, ReturnEntries, Ioctls DEF SetupReturns, Returned, Calling, Succeeded
      <3>2. client'[p] = [client[p] EXCEPT !.configured = TRUE]
        BY <2>1, SetEntries
      <3> QED
        BY <1>1, <3>1, <3>2 DEF Agrees, SawExit, Idle, NoSnap, ClientType
    <2> QED
      BY <1>12, <1>15, <2>1 DEF SetupReturns, Returned
  <1>16. CASE LaunchReturns(p)
    <2>1. CASE Succeeded(p) /\ Set(p, "launched")
      <3>1. op[p].cmd = "RUN_VM" /\ op[p].result = "ok" /\ op'[p] = Idle
        BY <1>10, <1>16, <2>1, ReturnEntries, Ioctls
        DEF LaunchReturns, Returned, Calling, Succeeded
      <3>2. client'[p] = [client[p] EXCEPT !.launched = TRUE]
        BY <2>1, SetEntries
      <3> QED
        BY <1>1, <3>1, <3>2 DEF Agrees, SawExit, Idle, NoSnap, ClientType
    <2> QED
      BY <1>12, <1>16, <2>1 DEF LaunchReturns, Returned
  <1>17. CASE FinalReturns(p)
    <2> DEFINE v == Succeeded(p) /\ op[p].snap.lastExit # NoExit
    <2>1. client'[p] = [client[p] EXCEPT !.validated = v]
      BY <1>17 DEF FinalReturns, ProcessTypes
    <2>2. Return(p) /\ pc[p] # "shutdown"
      BY <1>17 DEF FinalReturns, Returned
    <2>3. v => op[p].snap.lastExit # NoExit
      OBVIOUS
    <2>4. op'[p] = Idle /\ op[p].cmd # "DESTROY_VM"
      BY <1>10, <2>2
    <2> HIDE DEF v
    <2> QED
      BY <1>1, <2>1, <2>3, <2>4 DEF Agrees, SawExit, Idle, NoSnap, ClientType
  <1>18. CASE DestroyReturns(p)
    BY <1>2, <1>18 DEF DestroyReturns
  <1> QED
    BY <1>4, <1>5, <1>6, <1>7, <1>8, <1>9, <1>13, <1>14, <1>15, <1>16, <1>17, <1>18
    DEF Moves, Program

(* The driver applies a call of p.                                         *)
LEMMA ApplyAgrees ==
  ASSUME RuntimeTypeOK, NEW p \in Procs, Local(p), Calling(p), Apply(p),
         NEW q \in Procs, Agrees(q), Agrees(p)
  PROVE  Agrees(q)'
  <1> USE TypeParts
  <1>1. op \in [Procs -> CallType] /\ client' = client
    BY DEF DriverTypes, Apply
  <1>2. CASE Reject(p) \/ Query(p) \/ RunVm(p) \/ LoseAnswer(p)
    <2>1. /\ phase' = phase
          /\ lastExit' = lastExit \/ (phase = "VM_CREATED" /\ lastExit' # NoExit)
          /\ op'[p].cmd = op[p].cmd
          /\ op[p].cmd # "DESTROY_VM"
          /\ op[p].cmd \in {"INIT_BACKEND", "CREATE_VM"} => op'[p].result = "error"
          /\ p # q => op'[q] = op[q]
      BY <1>1, <1>2, ExitAssumption
      DEF Reject, Query, RunVm, LoseAnswer, Answer, IsPending, Pending, CallType
    <2>2. /\ op'[p].cmd = "RUN_VM" /\ op'[p].result = "ok" => lastExit' # NoExit
          /\ op'[p].snap.lastExit # NoExit => lastExit' # NoExit
      <3>1. CASE Reject(p) \/ LoseAnswer(p)
        BY <1>1, <3>1 DEF Reject, LoseAnswer, Answer, CallType, NoSnap
      <3>2. CASE Query(p)
        BY <1>1, <3>2 DEF Query, Answer, CallType, Snap, IsPending, Pending
      <3>3. CASE RunVm(p)
        BY <1>1, <3>3, ExitAssumption DEF RunVm, Answer, CallType, NoSnap
      <3> QED
        BY <1>2, <3>1, <3>2, <3>3
    <2>3. alone' = alone
      BY <1>1, <1>2, <2>1 DEF Apply, Reject, Query, RunVm, LoseAnswer, IsPending, Pending
    <2> QED
      BY <1>1, <2>1, <2>2, <2>3 DEF Agrees, SawExit
  <1>3. CASE InitBackend(p) \/ CreateVm(p) \/ DestroyVm(p)
    <2>1. /\ alone' = {p}
          /\ op'[p].cmd = op[p].cmd /\ op'[p].result = "ok" /\ op'[p].snap = NoSnap
          /\ p # q => op'[q] = op[q]
      BY <1>1, <1>3 DEF Apply, InitBackend, CreateVm, DestroyVm, Answer, IsPending, Pending,
                        CallType
    <2>2. client[p].kind = "driver" /\ phase # "UNLOADED"
      <3>1. op[p] # Idle
        BY <1>3 DEF InitBackend, CreateVm, DestroyVm, IsPending, Pending, Idle
      <3> QED
        BY <3>1 DEF Calling, Agrees
    <2>3. phase' # "UNLOADED"
      BY <1>3, <2>2 DEF InitBackend, CreateVm, DestroyVm
    <2>4. CASE p # q
      BY <1>1, <2>1, <2>3, <2>4 DEF Agrees
    <2>5. CASE InitBackend(p) /\ p = q
      <3>1. phase' \in {"BACKEND_INITIALIZED", "VM_CREATED"} /\ op'[p].cmd = "INIT_BACKEND"
        BY <1>1, <2>1, <2>2, <2>5 DEF InitBackend, IsPending, Pending, DriverTypes, Phases
      <3>2. ~client[p].configured /\ ~client[p].launched /\ ~client[p].validated
        <4>1. op[p].cmd = "INIT_BACKEND" /\ op[p] # Idle
          BY <2>1, <2>5, <3>1 DEF InitBackend, IsPending, Pending, Idle
        <4>2. pc[p] = "init"
          BY <4>1, Ioctls DEF Calling
        <4> QED
          BY <4>2 DEF Local, Fresh, BeforeLaunch
      <3> QED
        BY <1>1, <2>1, <2>2, <2>5, <3>1, <3>2 DEF Agrees, SawExit, NoSnap
    <2>6. CASE CreateVm(p) /\ p = q
      <3>1. phase' = "VM_CREATED" /\ op'[p].cmd = "CREATE_VM"
        BY <2>1, <2>6 DEF CreateVm, IsPending, Pending
      <3>2. ~client[p].launched /\ ~client[p].validated
        <4>1. op[p].cmd = "CREATE_VM" /\ op[p] # Idle
          BY <2>1, <2>6, <3>1 DEF CreateVm, IsPending, Pending, Idle
        <4>2. pc[p] = "setup"
          BY <4>1, Ioctls DEF Calling
        <4> QED
          BY <4>2 DEF Local, BeforeLaunch
      <3> QED
        BY <1>1, <2>1, <2>2, <2>6, <3>1, <3>2 DEF Agrees, SawExit, NoSnap
    <2>7. CASE DestroyVm(p) /\ p = q
      <3>1. phase' = "CAPS_READY" /\ lastExit' = NoExit /\ op'[p].cmd = "DESTROY_VM"
        BY <2>1, <2>7 DEF DestroyVm, IsPending, Pending
      <3> QED
        BY <1>1, <2>1, <2>2, <2>7, <3>1 DEF Agrees
    <2> QED
      BY <1>3, <2>4, <2>5, <2>6, <2>7
  <1> QED
    BY <1>2, <1>3 DEF Apply

LEMMA MovesInv ==
  ASSUME RuntimeInv, NEW p \in Procs, Moves(p)
  PROVE  RuntimeInv'
  <1> USE DEF RuntimeInv
  <1>1. RuntimeTypeOK'
    BY StepTypes
  <1>2. Local(p)' /\ Calling(p)' /\ Strict(p)'
    BY ProcessSteps, IoctlSteps, DriverSteps DEF Moves, Program
  <1>3. ASSUME NEW q \in Procs, q # p
        PROVE  Local(q)' /\ Calling(q)' /\ Strict(q)'
    <2>1. op'[q] = op[q] /\ env'[q] = env[q] /\ pc'[q] = pc[q] /\ client'[q] = client[q]
      BY <1>3, OwnEntries
    <2> QED
      BY <2>1 DEF Local, Calling, Strict
  <1>4. ASSUME NEW q \in Procs
        PROVE  Agrees(q)'
    <2>1. CASE Apply(p)
      BY <2>1, ApplyAgrees
    <2>2. CASE ~Apply(p) /\ q = p
      BY <2>2, OwnAgrees
    <2>3. CASE ~Apply(p) /\ q # p
      BY <2>3, OwnEntries, Quiet DEF Agrees, SawExit
    <2> QED
      BY <2>1, <2>2, <2>3
  <1> QED
    BY <1>1, <1>2, <1>3, <1>4

(* The module comes and goes only while nobody has the device open.        *)
LEMMA ModuleInv ==
  ASSUME RuntimeInv, Module
  PROVE  RuntimeInv'
  <1> USE DEF RuntimeInv
  <1>1. RuntimeTypeOK' /\ UNCHANGED <<op, env, pc, client, alone>>
    BY ModuleTypes DEF Module, Load, Discard, Unload, kept
  <1>2. ASSUME NEW p \in Procs
        PROVE  Local(p)' /\ Calling(p)' /\ Strict(p)'
    BY <1>1, <1>2 DEF Local, Calling, Strict
  <1>3. ASSUME NEW p \in Procs
        PROVE  Agrees(p)'
    <2>1. client[p].kind # "driver"
      BY DEF Module, Load, Opened, Serving, Agrees
    <2> QED
      BY <1>1, <2>1 DEF Agrees
  <1> QED
    BY <1>1, <1>2, <1>3

LEMMA NextInv == RuntimeInv /\ [RuntimeNext]_vars => RuntimeInv'
  <1> SUFFICES ASSUME RuntimeInv, [RuntimeNext]_vars PROVE RuntimeInv'
    OBVIOUS
  <1>1. CASE Module
    BY <1>1, ModuleInv
  <1>2. CASE \E p \in Procs : Moves(p)
    BY <1>2, MovesInv
  <1>3. CASE UNCHANGED vars
    BY <1>3 DEF vars, RuntimeInv, RuntimeTypeOK, Local, Calling, Strict, Agrees, SawExit
  <1> QED
    BY <1>1, <1>2, <1>3 DEF RuntimeNext, Moves

(* The invariant of every run of every process.                            *)
THEOREM RuntimeInvariance == RuntimeSpec => []RuntimeInv
  BY InitRuntimeInv, NextInv, PTL DEF RuntimeSpec

-----------------------------------------------------------------------------
(* Every variable keeps its type.                                          *)
THEOREM RuntimeTypes == RuntimeSpec => []RuntimeTypeOK
  <1>1. RuntimeInv => RuntimeTypeOK
    BY DEF RuntimeInv
  <1> QED
    BY <1>1, RuntimeInvariance, PTL

(* In strict mode hypervisor_init either goes all the way or ends the      *)
(* process.                                                                *)
THEOREM StrictIsStrict == RuntimeSpec => []StrictNeverDegrades
  <1>1. RuntimeInv => StrictNeverDegrades
    BY DEF RuntimeInv, StrictNeverDegrades, Strict, Initialized
  <1> QED
    BY <1>1, RuntimeInvariance, PTL

(* The flags of a client nobody interfered with tell the truth.            *)
THEOREM ClientsAgree == RuntimeSpec => []ClientAgrees
  <1>1. RuntimeInv => ClientAgrees
    BY DEF RuntimeInv, ClientAgrees, Agrees, SawExit, Alone
  <1> QED
    BY <1>1, RuntimeInvariance, PTL

(* Only a process started with KERNOVA_ENABLE_HARDWARE_BACKEND=1 ever      *)
(* enters a guest.                                                         *)
THEOREM GuestsAreOptIn == RuntimeSpec => VmrunOptIn
  <1>1. ASSUME RuntimeInv, NEW p \in Procs, op[p].cmd = "RUN_VM"
        PROVE  env[p].enable
    <2>1. op[p] # Idle
      BY <1>1 DEF Idle
    <2>2. pc[p] = "launch"
      BY <1>1, <2>1, Ioctls DEF RuntimeInv, Calling
    <2> QED
      BY <1>1, <2>2 DEF RuntimeInv, Local
  <1>2. RuntimeInv =>
          [\A p \in Procs :
             op[p].cmd = "RUN_VM" /\ op'[p].result \in {"ok", "dead"} => env[p].enable]_vars
    BY <1>1
  <1> QED
    BY <1>2, RuntimeInvariance, PTL DEF VmrunOptIn

-----------------------------------------------------------------------------
(* How a run ends.                                                         *)
LEMMA Endings ==
  ASSUME RuntimeTypeOK, NEW q \in Procs, Moves(q), NEW p \in Procs, exit'[p] # exit[p]
  PROVE  /\ p = q
         /\ exit'[p] = "ok" => LocalShutdown(p) \/ DestroyReturns(p)
  <1> USE DEF RuntimeTypeOK, kept
  <1>1. ASSUME NEW how, Ends(q, how)
        PROVE  p = q /\ exit'[p] = how
    BY <1>1 DEF Ends
  <1>2. ASSUME NEW how, NEW l, FailOr(q, how, l)
        PROVE  p = q /\ exit'[p] = how
    BY <1>1, <1>2 DEF FailOr
  <1>3. CASE Start(q) \/ EnclaveInit(q) \/ Kill(q) \/ Halt(q)
    BY <1>1, <1>3 DEF Start, EnclaveInit, Kill, Halt
  <1>4. CASE LocalShutdown(q) \/ DestroyReturns(q)
    BY <1>1, <1>4 DEF LocalShutdown, DestroyReturns
  <1>5. CASE LocalInit(q) \/ InitQueryReturns(q) \/ InitReturns(q)
    BY <1>2, <1>5 DEF LocalInit, InitQueryReturns, InitReturns
  <1>6. CASE SetupQueryReturns(q) \/ SetupReturns(q) \/ LaunchReturns(q)
    BY <1>2, <1>6 DEF SetupQueryReturns, SetupReturns, LaunchReturns
  <1>7. CASE select_backend(q) \/ LocalSetup(q) \/ Issue(q) \/ StatusReturns(q)
               \/ FinalReturns(q) \/ Main(q) \/ Apply(q) \/ Dies(q)
    BY <1>7 DEF select_backend, LocalSetup, Issue, StatusReturns, FinalReturns, Main, Apply, Dies
  <1> QED
    BY <1>3, <1>4, <1>5, <1>6, <1>7 DEF Moves, Program

(* An orderly end leaves the driver as it was after the module was loaded. *)
THEOREM CleanExits == RuntimeSpec => CleanExitDestroys
  <1>1. ASSUME RuntimeInv, [RuntimeNext]_vars, NEW p \in Procs,
               Alone(p), exit'[p] = "ok", exit[p] = "running"
        PROVE  phase' = "CAPS_READY" /\ lastExit' = NoExit
    <2>1. PICK q \in Procs : Moves(q)
      BY <1>1 DEF vars, kept, Module, RuntimeNext, Moves
    <2>2. LocalShutdown(p) \/ DestroyReturns(p)
      BY <1>1, <2>1, Endings DEF RuntimeInv
    <2>3. DestroyReturns(p)
      BY <1>1, <2>2 DEF Alone, LocalShutdown
    <2>4. op[p].cmd = "DESTROY_VM" /\ op[p].result = "ok"
      <3>1. pc[p] = "shutdown" /\ Return(p) /\ op[p].result \in {"ok", "error"}
        BY <2>3 DEF DestroyReturns, Returned, Return
      <3>2. op[p] # Idle
        BY <3>1 DEF Idle
      <3> QED
        BY <1>1, <3>1, <3>2, Ioctls DEF RuntimeInv, Calling
    <2>5. phase' = phase /\ lastExit' = lastExit
      BY <2>3 DEF DestroyReturns, Returned, Return
    <2> QED
      BY <1>1, <2>4, <2>5 DEF RuntimeInv, Agrees, Alone
  <1>2. RuntimeInv /\ [RuntimeNext]_vars =>
          [\A p \in Procs : Alone(p) /\ exit'[p] = "ok" /\ exit[p] = "running"
             => phase' = "CAPS_READY" /\ lastExit' = NoExit]_vars
    BY <1>1
  <1> QED
    BY <1>2, RuntimeInvariance, PTL DEF CleanExitDestroys, RuntimeSpec

-----------------------------------------------------------------------------
(* The runtime uses the driver by the driver's promise.                    *)
LEMMA RuntimeStep ==
  ASSUME RuntimeNext
  PROVE  [AbsNext]_absVars
  <1>1. CASE Module
    BY <1>1 DEF Module, AbsNext
  <1>2. ASSUME NEW p \in Procs, Start(p) \/ Kill(p) \/ EnclaveInit(p) \/ select_backend(p)
                 \/ LocalInit(p) \/ LocalSetup(p) \/ LocalShutdown(p) \/ Main(p) \/ Halt(p)
        PROVE  UNCHANGED absVars
    BY <1>2 DEF Start, Kill, EnclaveInit, select_backend, LocalInit, LocalSetup,
                LocalShutdown, Main, Halt, driver, absVars
  <1>3. ASSUME NEW p \in Procs, Issue(p)
        PROVE  AbsNext
    BY <1>3 DEF Issue, AbsNext
  <1>4. ASSUME NEW p \in Procs, StatusReturns(p) \/ InitQueryReturns(p) \/ InitReturns(p)
                 \/ SetupQueryReturns(p) \/ SetupReturns(p) \/ LaunchReturns(p)
                 \/ FinalReturns(p) \/ DestroyReturns(p)
        PROVE  AbsNext
    <2>1. Return(p)
      BY <1>4 DEF StatusReturns, InitQueryReturns, InitReturns, SetupQueryReturns,
                  SetupReturns, LaunchReturns, FinalReturns, DestroyReturns, Returned
    <2> QED
      BY <2>1 DEF AbsNext
  <1>5. ASSUME NEW p \in Procs, Apply(p)
        PROVE  AbsNext
    BY <1>5 DEF Apply, AbsNext
  <1>6. ASSUME NEW p \in Procs, Dies(p)
        PROVE  AbsNext
    BY <1>6 DEF Dies, AbsNext
  <1> QED
    BY <1>1, <1>2, <1>3, <1>4, <1>5, <1>6 DEF RuntimeNext, Program

(* What the processes see of the driver is a behaviour of DriverLifecycle, *)
(* the specification that KernovaDriver is proved to implement: nothing    *)
(* the runtime relies on goes beyond it, and no step of the runtime        *)
(* touches the driver's state outside a call.                              *)
THEOREM RuntimeUsesLifecycle == RuntimeSpec => AbsSpec
  <1>1. RuntimeInit => AbsInit
    BY DEF RuntimeInit
  <1>2. [RuntimeNext]_vars => [AbsNext]_absVars
    <2>1. UNCHANGED vars => UNCHANGED absVars
      BY DEF vars, absVars
    <2> QED
      BY <2>1, RuntimeStep
  <1> QED
    BY <1>1, <1>2, PTL DEF RuntimeSpec, AbsSpec

(* So a run reads a VM exit, from which it reports validated hardware,     *)
(* only together with the existence of the VM that took it.                *)
THEOREM RuntimeReports == RuntimeSpec => []ReportsMakeSense
  BY RuntimeUsesLifecycle, LifecycleReports, PTL

-----------------------------------------------------------------------------
(* How far a run is from its end: the place it has reached and, inside     *)
(* that, the stage of its call.                                            *)
PlaceRank == [off |-> 0, hlt |-> 1, shutdown |-> 1, main |-> 2, final |-> 3, launch |-> 4,
              setup |-> 5, setup_query |-> 6, init |-> 7, init_query |-> 8, status |-> 9,
              select |-> 10, enclave |-> 11]
CallRank == [none |-> 4, pending |-> 3, ok |-> 2, error |-> 1, dead |-> 0]
RunLeft(p) == 5 * PlaceRank[pc[p]] + CallRank[op[p].result]

(* No step of anybody sets a run back, and its own steps and those of the  *)
(* driver on its behalf bring it nearer to its end.                        *)
RunsShrink ==
  [][\A p \in Procs : pc[p] # "off" =>
       /\ RunLeft(p)' <= RunLeft(p)
       /\ Program(p) \/ Apply(p) => RunLeft(p)' < RunLeft(p)]_vars

LEMMA PlaceRanks ==
  /\ PlaceRank["off"] = 0 /\ PlaceRank["hlt"] = 1 /\ PlaceRank["shutdown"] = 1
  /\ PlaceRank["main"] = 2 /\ PlaceRank["final"] = 3 /\ PlaceRank["launch"] = 4
  /\ PlaceRank["setup"] = 5 /\ PlaceRank["setup_query"] = 6 /\ PlaceRank["init"] = 7
  /\ PlaceRank["init_query"] = 8 /\ PlaceRank["status"] = 9 /\ PlaceRank["select"] = 10
  /\ PlaceRank["enclave"] = 11
  BY DEF PlaceRank

LEMMA CallRanks ==
  /\ CallRank["none"] = 4 /\ CallRank["pending"] = 3 /\ CallRank["ok"] = 2
  /\ CallRank["error"] = 1 /\ CallRank["dead"] = 0
  BY DEF CallRank

LEMMA RunLeftRange ==
  ASSUME RuntimeTypeOK, NEW p \in Procs
  PROVE  /\ PlaceRank[pc[p]] \in 0..11
         /\ CallRank[op[p].result] \in 0..4
         /\ RunLeft(p) \in 0..59
  <1>1. PlaceRank[pc[p]] \in 0..11
    <2>1. pc[p] \in Places
      BY DEF RuntimeTypeOK
    <2> QED
      BY <2>1, PlaceNames, PlaceRanks
  <1>2. CallRank[op[p].result] \in 0..4
    <2>1. op[p].result \in {"none", "pending", "ok", "error", "dead"}
      BY DEF RuntimeTypeOK
    <2> QED
      BY <2>1, CallRanks
  <1> QED
    BY <1>1, <1>2 DEF RunLeft

(* Getting to a place further on outweighs whatever the call does.         *)
LEMMA OnwardShrinks ==
  ASSUME RuntimeTypeOK, RuntimeTypeOK', NEW p \in Procs,
         PlaceRank[pc'[p]] < PlaceRank[pc[p]]
  PROVE  RunLeft(p)' < RunLeft(p)
  <1>1. /\ PlaceRank[pc[p]] \in 0..11 /\ CallRank[op[p].result] \in 0..4
        /\ PlaceRank[pc'[p]] \in 0..11 /\ CallRank[op'[p].result] \in 0..4
    <2>1. pc[p] \in Places /\ pc'[p] \in Places
      BY DEF RuntimeTypeOK
    <2>2. op[p].result \in {"none", "pending", "ok", "error", "dead"}
      BY DEF RuntimeTypeOK
    <2>3. op'[p].result \in {"none", "pending", "ok", "error", "dead"}
      BY DEF RuntimeTypeOK
    <2> QED
      BY <2>1, <2>2, <2>3, PlaceNames, PlaceRanks, CallRanks
  <1> QED
    BY <1>1 DEF RunLeft

LEMMA EndsShrinks ==
  ASSUME RuntimeTypeOK, RuntimeTypeOK', NEW p \in Procs, NEW how, Ends(p, how), pc[p] # "off"
  PROVE  RunLeft(p)' < RunLeft(p)
  <1>1. pc'[p] = "off"
    BY TypeParts, EndsEntries
  <1>2. pc[p] \in Places
    BY DEF RuntimeTypeOK
  <1>3. PlaceRank[pc'[p]] < PlaceRank[pc[p]]
    BY <1>1, <1>2, PlaceNames, PlaceRanks
  <1> QED
    BY <1>3, OnwardShrinks

LEMMA FailOrShrinks ==
  ASSUME RuntimeTypeOK, RuntimeTypeOK', NEW p \in Procs, NEW how, NEW l, FailOr(p, how, l),
         pc[p] # "off", PlaceRank[l] < PlaceRank[pc[p]]
  PROVE  RunLeft(p)' < RunLeft(p)
  <1>1. CASE Ends(p, how)
    BY <1>1, EndsShrinks
  <1>2. CASE ~Ends(p, how)
    BY <1>2, TypeParts, FailOrEntries, OnwardShrinks
  <1> QED
    BY <1>1, <1>2

LEMMA GotoShrinks ==
  ASSUME RuntimeTypeOK, RuntimeTypeOK', NEW p \in Procs, NEW l, Goto(p, l),
         PlaceRank[l] < PlaceRank[pc[p]]
  PROVE  RunLeft(p)' < RunLeft(p)
  BY TypeParts, GotoEntries, OnwardShrinks

(* What the driver does to the call of p, and p to start one.              *)
LEMMA CallShrinks ==
  ASSUME RuntimeTypeOK, NEW p \in Procs, Issue(p) \/ Apply(p) \/ Dies(p)
  PROVE  RunLeft(p)' < RunLeft(p)
  <1>1. op \in [Procs -> CallType] /\ pc' = pc /\ PlaceRank[pc[p]] \in 0..11
    BY TypeParts, RunLeftRange DEF DriverTypes, Issue, Apply, Dies
  <1>2. CASE Issue(p)
    <2>1. op[p].result = "none" /\ op'[p].result = "pending"
      BY <1>1, <1>2 DEF Issue, Invoke, Idle, Pending
    <2> QED
      BY <1>1, <2>1, CallRanks DEF RunLeft
  <1>3. CASE Apply(p)
    <2>1. \/ op[p].result = "pending" /\ op'[p].result \in {"ok", "error"}
          \/ op[p].result = "ok" /\ op'[p].result = "error"
      <3>1. CASE Reject(p) \/ LoseAnswer(p)
        BY <1>1, <3>1 DEF Reject, LoseAnswer, Answer, CallType
      <3>2. CASE Query(p) \/ InitBackend(p) \/ CreateVm(p) \/ RunVm(p) \/ DestroyVm(p)
        BY <1>1, <3>2 DEF Query, InitBackend, CreateVm, RunVm, DestroyVm, IsPending, Pending,
                          Answer, CallType
      <3> QED
        BY <1>3, <3>1, <3>2 DEF Apply
    <2> QED
      BY <1>1, <2>1, CallRanks DEF RunLeft
  <1>4. CASE Dies(p)
    <2>1. op[p].result = "pending" /\ op'[p].result = "dead"
      BY <1>1, <1>4 DEF Dies, Perish, IsPending, Pending, CallType
    <2> QED
      BY <1>1, <2>1, CallRanks DEF RunLeft
  <1> QED
    BY <1>2, <1>3, <1>4

LEMMA OwnShrinks ==
  ASSUME RuntimeTypeOK, NEW p \in Procs, Moves(p), pc[p] # "off"
  PROVE  RunLeft(p)' < RunLeft(p)
  <1> USE PlaceRanks
  <1>1. RuntimeTypeOK'
    BY StepTypes
  <1>2. CASE Issue(p) \/ Apply(p) \/ Dies(p)
    BY <1>2, CallShrinks
  <1>3. CASE Start(p)
    BY <1>3 DEF Start
  <1>4. CASE Kill(p) \/ Halt(p) \/ LocalShutdown(p) \/ DestroyReturns(p)
    BY <1>1, <1>4, EndsShrinks DEF Kill, Halt, LocalShutdown, DestroyReturns
  <1>5. CASE EnclaveInit(p) \/ Main(p)
    BY <1>1, <1>5, EndsShrinks, GotoShrinks DEF EnclaveInit, Main
  <1>6. CASE select_backend(p)
    BY <1>1, <1>6, GotoShrinks DEF select_backend
  <1>7. CASE LocalInit(p) \/ LocalSetup(p)
    BY <1>1, <1>7, GotoShrinks, FailOrShrinks DEF LocalInit, LocalSetup
  <1>8. CASE StatusReturns(p) \/ InitQueryReturns(p) \/ SetupQueryReturns(p)
    BY <1>1, <1>8, GotoShrinks, FailOrShrinks
    DEF StatusReturns, InitQueryReturns, SetupQueryReturns, Returned
  <1>9. CASE InitReturns(p) \/ SetupReturns(p)
    BY <1>1, <1>9, GotoShrinks, FailOrShrinks DEF InitReturns, SetupReturns, Returned
  <1>10. CASE LaunchReturns(p) \/ FinalReturns(p)
    BY <1>1, <1>10, GotoShrinks, FailOrShrinks DEF LaunchReturns, FinalReturns, Returned
  <1> QED
    BY <1>2, <1>3, <1>4, <1>5, <1>6, <1>7, <1>8, <1>9, <1>10 DEF Moves, Program

(* The variant behind EveryRunEnds: between its start and its end a run    *)
(* only ever gets nearer to its end, so it takes at most 59 steps, however *)
(* many other processes use the driver and however often their calls make  *)
(* its own fail.  No failure is retried.                                   *)
THEOREM RunsDescend ==
  RuntimeSpec => [](\A p \in Procs : RunLeft(p) \in 0..59) /\ RunsShrink
  <1>1. RuntimeTypeOK => \A p \in Procs : RunLeft(p) \in 0..59
    BY RunLeftRange
  <1>2. RuntimeTypeOK /\ [RuntimeNext]_vars =>
          [\A p \in Procs : pc[p] # "off" =>
             /\ RunLeft(p)' <= RunLeft(p)
             /\ Program(p) \/ Apply(p) => RunLeft(p)' < RunLeft(p)]_vars
    <2> SUFFICES ASSUME RuntimeTypeOK, RuntimeNext, NEW p \in Procs, pc[p] # "off"
                 PROVE  /\ RunLeft(p)' <= RunLeft(p)
                        /\ Program(p) \/ Apply(p) => RunLeft(p)' < RunLeft(p)
      OBVIOUS
    <2>1. Program(p) \/ Apply(p) => RunLeft(p)' < RunLeft(p)
      BY OwnShrinks DEF Moves
    <2>2. RunLeft(p)' <= RunLeft(p)
      <3>1. RunLeft(p) \in Nat
        BY RunLeftRange
      <3>2. CASE Moves(p)
        <4>1. RuntimeTypeOK'
          BY <3>2, StepTypes
        <4>2. RunLeft(p)' \in Nat
          <5>1. pc'[p] \in Places /\ op'[p].result \in {"none", "pending", "ok", "error", "dead"}
            BY <4>1 DEF RuntimeTypeOK
          <5> QED
            BY <5>1, PlaceNames, PlaceRanks, CallRanks DEF RunLeft
        <4> QED
          BY <3>1, <3>2, <4>2, OwnShrinks
      <3>3. CASE \E q \in Procs : q # p /\ Moves(q)
        <4>1. op'[p] = op[p] /\ pc'[p] = pc[p]
          BY <3>3, OwnEntries
        <4> QED
          BY <3>1, <4>1 DEF RunLeft
      <3>4. CASE Module
        <4>1. op' = op /\ pc' = pc
          BY <3>4 DEF Module, Load, Discard, Unload
        <4> QED
          BY <3>1, <4>1 DEF RunLeft
      <3> QED
        BY <3>2, <3>3, <3>4 DEF RuntimeNext, Moves
    <2> QED
      BY <2>1, <2>2
  <1> QED
    BY <1>1, <1>2, RuntimeTypes, PTL DEF RuntimeSpec, RunsShrink
=============================================================================

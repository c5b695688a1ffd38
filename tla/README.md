# Kernova-TEE: verification project

TLA+ models of the Kernova-TEE code, the TLC runs that check them on small
instances, and theorems with proofs checked by TLAPS. `PROJECT.json` ties every
definition to the source lines it stands for and lists the runs, the mutants
that show each property can fail, the hazards and the theorems.

Paths below are relative to `src/`; `drv/` is `service-kernel/linux/` and `cpp/`
is `service-api/service-cpp/src/`.

Contents: [inventory](#1-inventory-of-the-system),
[modules and how they correspond to the code](#2-modules-and-code),
[runs](#3-what-the-runs-check), [bounds](#4-bounds), [fairness](#5-fairness),
[proofs](#6-what-is-proved), [findings](#7-findings),
[what is not modelled](#8-what-is-not-modelled),
[state of the plan](#9-state-of-the-plan).

## 1. Inventory of the system

Kernova-TEE is a C++ process (`kernova-core`) that marshals messages into an
"enclave" buffer, traces events, and tries to set up hardware virtualization
through the best backend available: a Linux kernel driver, an in-process Intel
VMX or AMD SVM backend, or none ("PoC mode").

| Component | Source | State it keeps | Operations | Hard behaviour | What makes it correct |
|---|---|---|---|---|---|
| Linux kernel driver | `drv/kernova_main.c`, `drv/amd_svm`, `drv/intel_vmx` | one global `kernova_state`: mutex, capabilities, SVM context (three pages, saved MSRs, flags, last exit); `EFER.SVME` and `VM_HSAVE_PA` of every CPU | five ioctls, module load and unload, the writable parameter `allow_vmrun` | several processes at once; preemption and migration inside a handler; allocation and copy failures half way; no state per open file, no `.release` | handlers exclude each other; no page leaked or freed twice; flags say which pages exist; VMRUN only on a whole VM; host MSRs given back |
| C++ runtime | `cpp/main.cpp` | monitor, enclave and hypervisor statics, the environment | `hypervisor_init`, `hypervisor_main`, `hypervisor_shutdown` | failure exits in the middle of initialisation, death in `hlt`, kill; a driver shared with other runs | strict mode never degrades, non-strict mode never fails on hardware, nothing privileged without opt-in, every run ends |
| Backends | `cpp/virtualization/hypervisor_backend.cpp`, `cpp/virtualization/amd_svm/amd_svm.cpp`, `cpp/vmx_stubs.cpp` | flags and file descriptor of one backend object | `available`, `status`, `init`, `setup_guest`, `launch`, `shutdown` | client flags that go stale against the driver | the flags tell the truth about the driver |
| CPU features | `cpp/virtualization/cpu_features.cpp` | none (reads CPUID) | `detect_cpu_features` | none | the right backend for each kind of CPU |
| SIMD packer | `cpp/marshall/simd_packer.asm` | registers and stack of the call | pack (AVX2, AVX-512), unpack, copy, zero, hash | sizes that are no multiple of a block; fall back between loops; return values | exactly the requested bytes move, the call returns, with the right result |
| Trace engine | `cpp/monitor/trace_engine.asm` | buffer of 1024 events that does not wrap, write index, counters, baseline of three regions, four watchpoints | `trace_init`, `trace_log_event`, `trace_check_integrity`, `trace_set_watchpoint`, `trace_get_statistics` | full buffer, full slots, initialisation while in use, integrity failures logged into a full buffer | a bounded log that keeps what it accepted; counters that agree with it; modifications detected |
| Enclave, monitor, VM calls | `cpp/main.cpp:80-242`, `459-479` | 1 MiB enclave buffer of which a message uses up to 64 KiB, the flags `enclave_active` and `trace_enabled` | `enclave::init`, `send_data`, `receive_data`, `cleanup`, `monitor::check_integrity`, `vmcall_handler` | calls in any order, before, after and between initialisations; residue of earlier messages; results of the assembly that cannot be tested | a mailbox with an exact account of what it holds; where the packer is given what it refuses and what leaves the program unwiped, and nowhere else |
| Intel VMX assembly | `cpp/virtualization/intel_vmx` | CR4, VMXON and VMCS regions, guest registers | `vmx_init`, `vmcs_setup`, `vmx_launch`, exit dispatch | return-value conventions between routines | not linked into any target |
| Web console | `client-web/app.py`, `scripts/test.sh` | the build directory | build, clean build, test, run, status | each request on a thread of its own, nothing orders them; check then use of files; `rmtree` with errors ignored | whatever goes wrong goes wrong only beside a clean build or a linker; otherwise success means a complete binary |
| Scripts, infra, register definitions, tests | `scripts`, `infra`, `service-api/service-cpp/include/registers.hpp`, `service-api/service-cpp/tests` | none | build, packaging | none | not modelled |

**How they interact.** The runtime calls the packer and the trace engine
directly. It picks one backend; the Kernel Driver backend talks to the driver
with ioctls on `/dev/kernova`. All processes share the one SVM context of the
driver, and nothing in the driver knows which process created the VM: this is
where the interesting interleavings are. The driver in turn touches registers
that belong to one CPU on behalf of a task that may be on any.

The full list of hazards, each at its line with the properties that cover it, is
in `PROJECT.json` under `hazards`.

## 2. Modules and code

```
DriverLifecycle        what the driver promises (abstract)
   ^ DriverLifecycle_proofs        what implementations and users inherit
   |
   +-- implemented by KernovaDriver        the stepped handlers
   |      ^ KernovaDriver_proofs <- KernovaDriver_refinement
   +-- implemented by KernovaRuntime       the processes, over the promise (EXTENDS it)
          ^ KernovaRuntime_proofs

PackerCalls            the calls of the packer and how each may end
   ^ PackerContract        a call is one step (abstract)
   |      ^ implemented by SimdPacker      registers, loops, stack
   |                          ^ SimdPacker_proofs
   ^ used by KernovaServices               enclave, monitor, VM calls
                 ^ KernovaServices_proofs
                 implements Mailbox        the enclave as its callers see it (abstract)

EventLog               a bounded log (abstract)
   ^ implemented by TraceEngine
          ^ TraceEngine_proofs

WebConsole  <-  WebConsole_proofs
```

`MC*` modules hold only the values TLC gives to constants.

### KernovaDriver

One variable per piece of global state: `lock` is `kernova_state.lock`, `svm` is
`struct kernova_svm_context` (a page pointer and its `_pa` twin are one field),
`caps` is `kernova_state.caps`, `efer` and `hsavePa` are the two MSRs of each
CPU, `freePages` what `__get_free_page` may return, `pc`/`call` where a task is
and the ioctl it is in.

A handler is cut at each MSR access, at each allocation and at the lock, because
there a task may be moved (`\E c \in Affinity[t]`) or fail. State only the lock
holder touches is read and written in one step. The actions follow the C
functions: `Acquire` is `mutex_lock` with the first `refresh_caps_locked`;
`Query`, `UnknownCommand`, `CopyInFails`, `WrongBackend` are the arms of the
switch; `InitChecks` ... `InitWriteHsave` are `kernova_amd_svm_init`;
`CreateChecks`, `CreateVmcb`, `CreateGuest`, `CreateGuestFails` are
`kernova_amd_svm_create_vm`; `RunChecks`, `Vmrun`, `VmrunFaults`, `RunCopyOut`
are `kernova_amd_svm_run` with the copy back; `DestroyHsave`, `DestroyEfer`,
`DestroyFree` are `kernova_amd_svm_destroy`, which `module_exit` runs too
(`Rmmod`, `ModuleExit`). VMRUN on a CPU where `EFER.SVME` is off raises `#UD`:
the task is killed and the mutex stays locked (label `oops`).

### DriverLifecycle

Four phases (unloaded, capabilities ready, backend initialised, VM created), the
last exit, and per process one call that is *invoked*, *applied* in one step and
*returns*. Failures change nothing, except that a `RUN_VM` whose answer cannot be
copied out has run the guest (`LoseAnswer`), and that a caller may perish inside
VMRUN. `KernovaDriver!Abs` is the refinement mapping: a call is applied by the
step that sets its return value. `ReportsMakeSense` is what a user may conclude
from the promise alone; `DriverLifecycle_proofs` proves it once, and driver and
runtime inherit it.

### KernovaRuntime

Extends `DriverLifecycle` and puts the processes on top of it: `env` are the two
environment variables of a run, `pc` its place in `hypervisor_init` /
`hypervisor_main`, `client` the backend object and `g_hv_state`, `exit` how its
last run ended. Each ioctl is `Issue`, then the driver's step `Apply`, then an
action that handles the answer (`InitReturns`, `SetupReturns`, ...), so the calls
of two processes interleave freely. `FailOr` is the code's repeated "fatal in
strict mode, otherwise go on in PoC mode". A slot can be started again with fresh
statics and a fresh environment; `Kill` ends a run anywhere between two ioctls;
`Halt` is the `hlt` of `main.cpp:443`, which is privileged and kills a ring 3
process. The in-process backends have their own `init`: `IntelInit` over the linked
stubs (`VmxStub`), `prepare_runtime_context` with `has_minimum_runtime_support` for
AMD.

`alone` is an auxiliary variable: the running process whose successful
`INIT_BACKEND`, `CREATE_VM` or `DESTROY_VM` was the last one, if it still runs.
No action's guard reads it; it lets a property say "unless somebody else has
changed the driver since".

### PackerCalls, PackerContract and SimdPacker

`PackerCalls` has what every reader of the packer needs: the calls that may be
made, the tests each routine makes on entry (`Runs`), what it answers where they
fail (`Rejection`) and how a call may end (`Outcomes`). `Outcomes` is what the code
does, not what its headers promise: with AVX-512 a complete pack of whole blocks
answers 0 (finding 4) and any other size is lost (finding 3), and a refused unpack
answers 0. The headers' promise is the property `ReturnsBytes`. `PackerContract` makes a
call one step that ends in one of them. `SimdPacker` is the code: a call has a
function, a size, NULL or valid pointers and the AVX-512 flag. The variables are
the registers the code keeps (`base` is how far the two pointers have been
advanced, `r14` the size left, `rbx` the counter, `rax`), the part of the stack
that matters (saved `rbp` and return address) and `dest`, which for every
destination byte says which source byte was moved there. Each loop iteration is a
step. `simd_unpack_data`, `simd_secure_memcpy` and `simd_zero_memory` have the same
loop shape and share its actions; they differ in what they reject and move.

### KernovaServices

The services of one process, called in any order by `main` or by a program that
embeds them: `MonitorAndAllocate`, `ZeroEnclave`, `BackendReady`, `BackendFails` are
what `hypervisor_init` does to them; `Send`, `Pack`, `Swap` (one pass of the loop
that reverses the data in place), `SendReturns` are `send_data`; `Receive`, `Unpack`
are `receive_data`; `Shutdown`, `Wipe`, `Free` are `hypervisor_shutdown` with
`enclave::cleanup`. The `...Refused` actions are the early returns. `vm` marks a call
that came through `vmcall_handler`, whose results are unsigned words.

`hypervisor_init` does not look at `enclave_active`, so it may be called again while
the enclave is in use. `MonitorAndAllocate` then stores the result of `aligned_alloc`
over the old pointer: the old buffer is abandoned as it is, and where the allocation
fails the pointer is NULL behind a flag that stays set. The auxiliary variable `lost`
marks that state. Calls are served in it: the packer refuses the NULL pointer with a
value no caller notices, a receive answers 0 with the caller's buffer untouched, and
the loop of `send_data` dies of the NULL pointer (`SwapFaults`) if the message has two
bytes or more. A failure after the enclave (`BackendFails`, results -3 to -5) leaves it
as it is: that `main` then returns is `ProcessEnds`, which may come between any two
calls, and a caller other than `main` can go on.

`Pack`, `Unpack` and `ZeroEnclave` take the packer by its contract, `Packer!Outcomes`
of the call that `main.cpp` makes: exactly `size` bytes are moved, and with AVX-512 it
only comes back from whole blocks (finding 3), so otherwise the process dies.
`Mailbox` is the enclave as its callers see it: open, put, take and close, each one
step; a new initialisation is a close and an open. A restarted process finds fresh
memory. `sent` is an auxiliary variable: the messages the enclave has accepted since
it was allocated.

### WebConsole

The build directory is three facts: it exists, it holds cmake's files, and what
`build/Kernova` is (missing, whole, or being written by the linker of a request).
A thread's step is one access to the file system, as Python or the linker makes
it, or one child process: `rmtree` lists, removes entry by entry and removes the
directory if it is empty by then; `mkdir(exist_ok=True)` is a `mkdir` and, where
that finds something, an `is_dir`; `cmake --build` finds the binary up to date,
fails, or links, which unlinks the old file, creates a new one and completes it.
`test.sh` is configure, build and `ctest` on the same directory. An exception that
reaches Flask is the outcome `raised`. `disturbed` is an auxiliary variable: the
requests beside which another one was removing files or linking.

### TraceEngine and EventLog

Each routine is one action: the routines are called one at a time. The buffer
is a function from slots, not a sequence, so that an off-by-one would show. The
event type is stored in one byte but compared in 64 bits. A hash is a digest
(`zeros`, `original`, `modified`): what matters is whether the output buffer was
written at all. `EventLog` is the header comment of `trace_log_event` made
precise: an append-only bounded log.

## 3. What the runs check

| Run | Question | Properties | Result |
|---|---|---|---|
| `driver_shared` | two processes and `rmmod` on two CPUs, migration at every step, allocation and copy failures | `DriverInv`, `TypeOK`, `MutualExclusion`, `PagesAccounted`, `NothingHalfBuilt`, `VmrunOnWholeVm`, `SavedOnce`, `ImplementsLifecycle` | holds, 590 659 states |
| `driver_pinned` | the same on one CPU, where another hypervisor already uses SVM | `PinnedInv`, `HostRestored`, `HsaveNeverDangles`, `VmrunReady`, `EveryCallReturns` | holds, about 60 000 states |
| `driver_hsave` | the same with migration | `HsaveNeverDangles` | violated (finding 1) |
| `runtime_shared` | two processes with any environment on four kinds of host, restarted after any death, module load and unload | `RuntimeTypeOK`, `StrictNeverDegrades`, `ClientAgrees`, `CleanExitDestroys`, `VmrunOptIn`, `EveryRunEnds` | holds, 455 032 states |
| `runtime_optin` | is hardware reported as validated only after opting in? | `ValidatedOptIn` | violated (finding 2) |
| `simd_exact` | all sizes from -1 to 130, both CPU kinds, NULL pointers | `TransferInv`, `TransferExact`, `NoOverrun`, `Avx2KeepsPromise`, `ImplementsContract`, `CallEnds` | holds, 16 660 states |
| `simd_avx512_stack` | does the AVX-512 path return to its caller? | `ReturnsToCaller` | violated (finding 3) |
| `simd_avx512_result` | does a pack of whole 64-byte blocks return their size? | `ReturnsBytes` | violated (finding 4) |
| `trace_log` | any sequence of calls around a full buffer and full slots | `TypeOK`, `StatisticsAgree`, `WatchpointsPacked`, `ImplementsEventLog`, `WatchpointsKept` | holds, 38 323 states |
| `trace_integrity` | is a modified region reported? | `ModificationReported` | violated (finding 5) |
| `services_mailbox` | initialisations (repeated ones too), sends, receives, VM calls, shutdowns, failures and restarts in any order | `ServicesTypeOK`, `MailboxKept`, `PackerAccepts`, `WipedBeforeFree`, `ImplementsMailbox` | holds, 179 640 states |
| `web_threads` | three threads with any mix of the five requests | `WebTypeOK`, `RaisesOnlyDisturbed`, `SuccessDelivers`, `StatusConsistent` | holds, 110 683 states |

What the more important ones say:

- `ImplementsLifecycle`: although a handler is up to eight steps and other tasks
  run in between, every ioctl looks atomic, takes effect at most once, and a
  failed one has no effect - also when the guest page cannot be allocated after
  the VMCB page was.
- `PagesAccounted` with `NothingHalfBuilt`: on every path a frame is the driver's
  exactly while one field names it, and between calls the flags say exactly which
  frames exist.
- `SavedOnce`: a second `INIT_BACKEND` does not save the MSR values the first one
  wrote, so DESTROY can still restore the originals.
- `HostRestored`, `HsaveNeverDangles`, `VmrunReady` are checked under `Pinned`: the
  code relies on the task staying on one CPU, at least for its MSR accesses
  (`OneCpuSuffices` in section 6), and nothing arranges it. Finding 1 is the
  counterexample without that assumption.
- `StrictNeverDegrades` is about a client whose VM another process may destroy between
  any two of its ioctls: a strict run gets to `hypervisor_main` only past every step of
  the backend it has selected. On a host without SVM and VMX that is the PoC backend,
  whose steps always succeed, so there strict mode is kept by a run without hardware.
- `ClientAgrees` and `CleanExitDestroys` say what a client may believe of a driver
  that it shares: without the premise `Alone(p)` both are false by design, since
  the driver keeps one VM for everybody. The state an earlier, killed run has left
  is no excuse: it is taken over or destroyed. The exit a client reports is on record
  all the while; that it may be another run's is finding 2. `CleanExitDestroys` is about
  runs that end in `hypervisor_shutdown`, not about those that die in `hlt`.
- `MailboxKept` says of every byte of the enclave which message it comes from: the
  last one that was long enough, reversed. A `receive` longer than the last `send`
  gets that residue and nothing else; a fresh enclave after a shutdown, a restart or a
  new initialisation has none, and one without memory gives nothing.
- `PackerAccepts` is what the C++ code relies on, the packer's error value being
  invisible to its tests: also a VM call that comes before initialisation, after a
  failed one or after shutdown must not reach the packer. The one state in which it
  does is named in the property: `lost`. Without that disjunct it is false.
- `WipedBeforeFree`: a buffer with anything in it leaves a running program only
  through an initialisation of an active enclave, which abandons it.
- `ImplementsMailbox`: a send packs and then swaps byte pairs in place, one pair a
  step, refused and failed calls and wipes happen in between, and all of it is the
  four steps of a mailbox; nothing survives a close.
- `ImplementsContract`: whatever mix of loops a call takes, its caller sees the size or
  a rejection - or, with AVX-512, a zero or a loss. This is what the services may rely
  on, and does not make it right: findings 3 and 4 are the same calls measured by the
  headers and the tests. `Avx2KeepsPromise` is the part of the headers' promise that
  the code keeps: every call that does not take the AVX-512 loop, though it may ask
  for it, returns its size to its caller.
- `RaisesOnlyDisturbed`, `SuccessDelivers`, `StatusConsistent` bound what the
  unsynchronised requests may do to each other: each has a premise
  `r \notin disturbed`, and is false without it (a clean build under a status
  request makes `stat` raise; an up-to-date check takes a half-linked file for a
  program; a run starts one).
- `TransferExact` with `NoOverrun` hold for every combination of 64-, 32-, 16- and
  1-byte moves, on both paths, even where the AVX-512 path then fails to return.

`CHECK_DEADLOCK FALSE` is set in the runtime runs, because once a caller has died
inside VMRUN with the mutex held the other processes really do stop (Linux: an
oops in the handler), and in the SIMD runs, because a crashed call has no
successor. The other runs check deadlock; in the driver the setting of the module
parameter is always possible while the module is loaded, so there deadlock freedom
says little and `EveryCallReturns` is the property that counts. In the web run
it says that some request can always go on.

## 4. Bounds

- **Driver**: two processes plus the administrator (three contenders for the
  mutex), two CPUs (one to initialise, one to be moved to), three page frames -
  exactly what a complete VM needs. `-ENOMEM` is possible at every allocation
  whatever is free. Guest sizes 0, 4096 and 4097 straddle
  `KERNOVA_GUEST_PAGE_SIZE`. Two exit codes, so that one can overwrite another.
  Symmetry over processes, pages and exit codes is used only in runs
  without liveness; the initial MSR values do not mention pages. There is
  no counter to cap. The theorems of section 6 remove these bounds for the
  safety invariants.
- **Runtime**: two processes with unboundedly many runs each, all four kinds of
  host, one exit code (only "some exit" is told apart). The violation run
  needs one process and one kind of host.
- **Services**: an enclave of 5 bytes, a data buffer of 4, so that there is a byte
  no message reaches; all messages of up to 4 of two byte values and one that is a
  byte too long; receives of 0 to 5 bytes; AVX-512 blocks of 2 bytes, so that
  messages are whole blocks or not; `WORD` 16 with echo operands 1 and 15, whose
  sum wraps. `MaxSends` = 2 caps the messages accepted by one enclave; residue of
  one behind the other is the interesting case. The theorems have none of these bounds.
- **Web**: three requests at a time (a victim, and two that interfere with each
  other as well), unboundedly many one after the other, all five kinds. Threads
  are symmetric; the run has no liveness.
- **SIMD**: sizes -1 to 130 reach zero, one and two 64-byte blocks followed by
  every combination of 32-byte block, 16-byte tail and single bytes; 132
  destination bytes leave room to see an overrun. The two violation runs need one call
  (`simd_avx512_result`: of 64 bytes). The proofs cover every size.
- **Trace**: `TRACE_MAX_EVENTS` is 3 instead of 1024, the capacity enters only
  through one comparison; the watchpoint slots are the real four. Types 2
  (critical), 258 (low byte critical) and 5; addresses 0 (which a slot cannot be
  told free from) and 4096; sizes 3 (invalid) and 4. `MaxChecks` = 2 caps the only
  counter that a full buffer does not.

## 5. Fairness

- Driver (`FairSpec`): weak fairness of `Handler(t)` and `ModuleExit` - a task in
  kernel mode keeps running; strong fairness of `Acquire(t)` - a Linux mutex is
  handed to a waiter that starves, it cannot be overtaken for ever. Nobody has
  to issue an ioctl, load or unload the module.
- Runtime: weak fairness of `Program(p)` - a runnable process is scheduled - and
  of `Apply(p)` while a call is pending. The latter is what `EveryCallReturns`
  gives when nobody dies in the driver; where somebody does, `Apply` is disabled
  by `Serving` and `EveryRunEnds` says so. Nobody has to start or kill a process.
- SIMD: weak fairness of `Step` - the processor executes the next instruction.
- Trace, services, web: none is stated. A service call is straight-line code, and
  that a child process of the web console ends is up to cmake and the runtime.

## 6. What is proved

All theorems are checked by TLAPS for every value of the constants: any number of
processes, CPUs, pages, exit codes and guest sizes, any size, capacity, message
and number of requests. They use only the named `ASSUME`s of the modules
(`KernovaDriver`: administrator and processes are different, affinities are sets
of CPUs, boot values are no frames of the driver; `KernovaRuntime`: hosts are of
the four kinds, VMRUN's exit codes are not 0; `KernovaServices`: sizes are natural numbers and the data buffer
fits the enclave; `TraceEngine`: numbers are natural; `WebConsole`: requests are
not called "none" or "whole"; `SimdPacker`: sizes are integers no larger than the
capacity).

**KernovaDriver_proofs** (`Spec => []DriverInv` and consequences).
`MutualExclusion` and `PagesAccounted` are not inductive alone: while a handler is
between two allocations the flags and pages disagree, legitimately. `DriverInv`
adds `ContextShape`, which says what is known of the SVM context at each place of
the lock holder (`Where`), and `CallShape`, which ties places to commands and
keeps `module_exit` in the administrator's name. The proof is split the same way:
`TypeStep` (types), `LockStep` (lock and places), `ContextStep` (pages and shape:
one lemma for each of init, create, run, destroy; every other step is *quiet*,
i.e. leaves the context alone). Theorems: `Invariance`, `TypeCorrect`,
`OneHandlerAtATime`, `NoPageLost`, `NoHalfBuiltVm`, `VmrunNeedsVm`.

The host's registers need `MsrShape(c)` beside it: which of the two registers of the
CPU `c` hold the boot value and which the driver's, step by step through init and
destroy. `OneCpuSuffices` is the strongest form: tasks may migrate between any two
steps, and if only the six MSR accesses execute on `c` (the action
`AccessesOn(c)`, a premise on the behaviour, not on the constants), then the host gets
its registers back, none refers to a freed page, and `c` is ready when a task is about
to execute VMRUN. A repair of finding 1 has to establish that premise and no more; that
the VMRUN itself then executes on `c` is a matter of its own. `PinnedInvariance` is
unconditional (the MSR part of `PinnedInv` is an implication whose premise is that all
tasks are bound to `c`); `PinnedHostRestored`, `PinnedHsaveLive` and `PinnedVmrunReady`
state the three host properties with the assumption `Pinned` written out.

**KernovaDriver_refinement**. `DriverImplementsLifecycle`: the detailed driver
implements `DriverLifecycle`. `DriverInv` alone does not say what a return value
means while a handler is under way, so `RefinementInv` adds `CallReturn` (no result
before the step that applies the call, one after it, and an open file keeps the
module loaded), `FreshCaps` (when a query is answered the cached capabilities
are those of the context; only the parameter can have changed) and `ModuleShape`
(an unloaded module has left nothing). Then each action is mapped: the steps that
set a return value to the abstract step of that command, the others to a stutter.
`NothingSavedTwice` follows from the same invariant.

Three more results rest on it. `HandlersDescend` bounds a handler: `CallLeft` never
rises, whatever other tasks do, and every step of the handler lowers it, so from the
dispatch on a call is over in at most seven steps. `WedgedForGood` is the other side,
the case `EveryCallReturns` excludes by its premise: once a VMRUN has faulted the
dead task keeps the mutex in every later state, SVM context, pages and registers
stay as they are, all other callers wait in front of the lock and the module is
never unloaded. `DriverReports` is inherited, see below.

**DriverLifecycle_proofs**. `LifecycleReports`, about the abstract life cycle: an
exit is on record only while the VM that took it exists, and what a query has copied
out never pairs the exit of one VM with the phase after it. The driver inherits it
through `DriverImplementsLifecycle` (`DriverReports`: no interleaving of stepped
handlers, of which a query is three, yields a mixed report), the runtime through
`RuntimeUsesLifecycle` (`RuntimeReports`: what `status` reads before it says
"validated" belongs to a VM that exists - if not to one of this run, finding 2).

**KernovaRuntime_proofs**. `RuntimeInv` has four parts for each process: `Local`
(place against backend and flags), `Calling` (a pending call is the one its place
issues), `Strict` (what a strict run has behind it) and `Agrees` (what a process
that is alone knows of the driver, including an answer that has come but is not
yet handled, and a snapshot it has not yet looked at - the part without which
`ClientAgrees` is not inductive). Theorems: `RuntimeTypes`, `StrictIsStrict`,
`ClientsAgree`, `CleanExits`, `GuestsAreOptIn`. `RuntimeUsesLifecycle` closes the chain between the
two programs: what the processes see of the driver is a behaviour of
`DriverLifecycle`, the specification `KernovaDriver` is proved to implement.
`RunsDescend` bounds a run: `RunLeft`, place and stage of the call, is at most 59,
no other process raises it and each own step lowers it - no failure is retried.

**SimdPacker_proofs**. `TransferInv` is the loop invariant of all four routines at
once: `base + rbx` bytes have been moved, `base + r14` is the size asked for, and
the stack holds one frame or two. Theorems `TransferInvariance`, `Exact`,
`InBounds` (no byte past the size is written, at any time). `ReturnInv` adds what is
known of stack and result at each place on the way out: what the code returns, the
zero of the AVX-512 loop included. `ReturnInvariance` gives `PackerImplementsContract`
(every behaviour is one of `PackerContract`: the loops map to stutters, the last step
to `End`) and `Avx2Keeps` (a call that does not take the AVX-512 loop returns the
number of bytes and is not lost).
`CallsDescend`: every step lowers a number that is the size plus 6 on entry.

**KernovaServices_proofs**. `AccessInv` ties the flags to the place of the call
(`Allocation`: between calls the enclave is active exactly where there is memory or
`lost`; `CallInv`) and gives `ServicesTypes`, `PackerAlwaysAccepts` and
`AlwaysWiped`. For `MailboxIsKept` the reversal needs its loop invariant
(`Reversing`): after `swapped` passes the outer bytes are exchanged, the inner
ones still as packed, and the bytes behind the message untouched. `EnclaveIsMailbox`
is the refinement of `Mailbox` by the same two invariants: a send counts from the
step that has packed it, an initialisation of an active enclave is a close.
`ResultsAlwaysPass` composes the services with the packer's contract: the results of
`Outcomes`, rejections included, pass every test `main.cpp` makes of them, so its
error exits -2 (`init`) and -3 (`send_data`, `receive_data`) never happen.

**TraceEngine_proofs**. `TraceTypes`, `StatisticsAlwaysAgree`,
`WatchpointsArePacked`, `WatchpointsAreKept`, and `EngineImplementsLog`, the
refinement of `EventLog`. The refinement needs `NoHashIsComputed`: a check
that failed would record an event no caller of the log was told about; since the
hash buffer is never written no check ever fails. That theorem is what lies behind
finding 5.

**WebConsole_proofs**. `WebInv`: a binary that is being linked has its linker
(`Linker`), a binary keeps its directory (`Housed`), whoever runs beside a request
that removes or links is disturbed (`Observed`), and what an undisturbed request
has found still holds (`Found`). Theorems: `WebTypes`, `ExceptionsExplained`,
`SuccessIsDelivered`, `StatusIsConsistent`. `RequestsDescend`: a request is at most
13 steps from its answer and no other request sets it back; what it takes beyond that
is the time of its child processes.

**Only model-checked**: the liveness properties `EveryCallReturns`,
`EveryRunEnds` and `CallEnds` (the prover handles no fairness or `ENABLED`). The
safety half of each is proved, the variant that makes fairness suffice:
`HandlersDescend`, `RunsDescend`, `CallsDescend`. That some step of the call or run
is always enabled until it ends is what TLC adds. Every other property of the passing
runs is a theorem. No data is handled by induction: the proofs about sizes and
messages use loop invariants.

## 7. Findings

Each has a run whose counterexample shows it.

1. **Tear-down on another CPU** (`driver_hsave`, `drv/amd_svm/amd_svm.c:304`).
   Init and destroy access the MSRs of whatever CPU they run on. After
   `DESTROY_VM` on another CPU, the first keeps `EFER.SVME` set and a freed
   frame's address in `VM_HSAVE_PA`.
2. **Somebody else's exit counts as validation** (`runtime_optin`,
   `cpp/main.cpp:398`). A run in safe mode reports "Validated" because a previous
   run died in `hlt` and left its VM and exit in the driver.
3. **AVX-512 fall back returns to a saved `rbp`** (`simd_avx512_stack`,
   `cpp/marshall/simd_packer.asm:207`). Every size that is no multiple of 64.
4. **AVX-512 answers 0 for what it has packed** (`simd_avx512_result`,
   `cpp/marshall/simd_packer.asm:210`). `r14` has been reduced to the remainder. The
   header (line 31) says "Returns: EAX = bytes transferred", and
   `tests/test_simd.cpp:127-129` requires 4096 for 4096 bytes with the flag set: on a
   CPU with AVX-512 that test fails.
5. **Integrity check never fails** (`trace_integrity`,
   `cpp/monitor/trace_engine.asm:402`). The baseline has address 0 and a zero
   hash, which the hash routine refuses, so two zeroed buffers are compared.

Seen while reading, not given runs of their own:

- **Strict mode alone launches nothing.** `main.cpp:388` and
  `hypervisor_backend.cpp:61` have functions of one name, `hardware_backend_enabled`,
  that read different variables. `README.md:266` offers "`KERNOVA_ENABLE_HARDWARE_BACKEND=1`
  or `KERNOVA_STRICT_VMX=1` to attempt it explicitly"; a run with only the second never
  enters a guest: that is `VmrunOptIn`, which is proved (`GuestsAreOptIn`).
- **A second `hypervisor_init`** on an active enclave abandons its buffer unwiped and,
  where the allocation fails, leaves NULL behind `enclave_active` (`main.cpp:89`).
  `main` itself calls it once. Both are steps of `KernovaServices`, and the exceptions
  that `PackerAccepts`, `WipedBeforeFree` and `MailboxKept` make.
- **The `invalid_param` exit** of `simd_unpack_data` falls through to the zero-size
  exit and returns 0 against "-1 on error" (`simd_packer.asm:220`); that of
  `simd_pack_data` writes -1 to the 32-bit `eax`, which is 4294967295 for the C++
  callers that test `< 0` (`simd_packer.asm:77`, `main.cpp:156`). `Rejection` has both
  values. So a caller never notices a refusal (`ResultsAlwaysPass`), and it is refused
  only in the state above (`PackerAlwaysAccepts`).
- On an Intel host the linked stubs always succeed and the backend reports
  validated hardware (`hypervisor_backend.cpp:221`).
- In the unlinked VMX assembly: `vmread` operands are reversed in `vmcs_read64`
  (`intercept.asm:451-453`), two constants alias the encodings of guest RSP and
  RIP (`vmx_defs.inc:62-63`), `vmx_init` takes the result 0 of `vmcs_setup` for
  failure (`vmx_init.asm:63`), and `do_vmxon` requires a bit `init_vmx_region` has
  cleared (`vmx_init.asm:167`, `200`).

## 8. What is not modelled

- **Intel VMX assembly**: no build target links it (`CMakeLists.txt:108-110`,
  replaced by `vmx_stubs.cpp`, whose results are modelled).
- **`simd_hash_blocks`**: 64-bit multiplications and rotations over data; the
  trace engine needs only when it writes its output. `avx_macros.inc` is used by
  no routine.
- **Hardware beyond the two MSRs**: the VMCB's contents except the guest RIP's
  page, the global interrupt flag, what the guest does. VMRUN yields some exit
  code.
- **Capability data** of the driver beyond the flags clients act on.
- **The integrity answer inside KernovaServices**: `trace_check_integrity` may
  answer anything there, so what is shown holds for a repaired trace engine too;
  `monitor::log_event` has no caller. The self-tests of `main.cpp:247-336` print;
  the calls they make are among those of the model.
- **Web console**: `psutil`, `which`, `/proc/cpuinfo`, the existence of
  `/dev/kernova` and the page change no state. The compiler's object files are
  part of "cmake's files"; only the program `Kernova` is told apart.
- **In-process `launch()`** of the Intel and AMD backends, and `attempt_vmrun`:
  `hypervisor_init` launches only through the kernel driver. The bytes that
  `prepare_minimal_vmcb` writes are consumed by nobody.
- **Concurrency in the trace engine**: apart from `lock` prefixes on its counters
  nothing in the repository calls it from two threads, so calls are atomic.
- **Register definitions, the other scripts, infra, tests**: no state of their own; tests
  and comments were read for what they say about the routines.

## 9. State of the plan

Done, in order of importance: `DriverLifecycle`, `KernovaDriver` and its proofs
(the only component that can damage the host); `KernovaRuntime` over
`DriverLifecycle`; `SimdPacker`; `EventLog` and `TraceEngine`; `KernovaServices`;
`WebConsole`; the refinement proofs of the driver and the trace engine; the packer's
contract and the mailbox, with their refinements, so that the services stand on what
is proved of the packer; the life cycle as the common specification of driver and
runtime, with what both inherit from it; the variants of every call, run and request.

What would be worth adding when the code changes:

- if the host's MSRs are one day restored on the right CPU, `HsaveNeverDangles`
  and `HostRestored` should lose their premise `Pinned`;
- once the baseline of the trace engine has real addresses, `TraceEngine` needs a
  hash that is written, `ModificationReported` becomes a property of a passing
  run, and `EventLog` needs an action for the events a failed check records;
- if the VMX assembly is linked, a module for `vmx_init`, `vmcs_setup` and the
  exit dispatch, starting from their return-value conventions.

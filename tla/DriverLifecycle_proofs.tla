----------------------- MODULE DriverLifecycle_proofs -----------------------
(* What every implementation and every user of the life cycle inherits.    *)
EXTENDS DriverLifecycle, TLAPS

(* The records a call goes through.                                        *)
CallRecords == [cmd : Commands \cup {"none"},
                result : {"none", "pending", "ok", "error", "dead"}, snap : Snapshots]

LifecycleTypeOK ==
  /\ phase \in Phases
  /\ lastExit \in ExitCodes \cup {NoExit}
  /\ op \in [Procs -> CallRecords]

LifecycleInv == LifecycleTypeOK /\ ReportsMakeSense

LEMMA Constants ==
  /\ NoSnap \in Snapshots /\ NoSnap.lastExit = NoExit
  /\ Idle \in CallRecords /\ Idle.snap = NoSnap
  /\ \A c \in Commands : Pending(c) \in CallRecords /\ Pending(c).snap = NoSnap
  BY DEF NoSnap, Snapshots, Phases, Idle, Pending, CallRecords

(* An answer whose snapshot makes sense.                                   *)
LEMMA AnswerKeeps ==
  ASSUME LifecycleInv, NEW p \in Procs, NEW r \in {"ok", "error"}, NEW s \in Snapshots,
         s.lastExit # NoExit => s.phase = "VM_CREATED", Answer(p, r, s)
  PROVE  /\ op' \in [Procs -> CallRecords]
         /\ \A q \in Procs : op'[q].snap.lastExit # NoExit => op'[q].snap.phase = "VM_CREATED"
  <1>1. op \in [Procs -> CallRecords]
    BY DEF LifecycleInv, LifecycleTypeOK
  <1>2. [op[p] EXCEPT !.result = r, !.snap = s] \in CallRecords
    BY <1>1 DEF CallRecords
  <1>3. op' = [op EXCEPT ![p] = [op[p] EXCEPT !.result = r, !.snap = s]]
    BY <1>1 DEF Answer, CallRecords
  <1>4. op' \in [Procs -> CallRecords]
    BY <1>1, <1>2, <1>3
  <1>5. ASSUME NEW q \in Procs
        PROVE  op'[q].snap.lastExit # NoExit => op'[q].snap.phase = "VM_CREATED"
    <2>1. CASE q = p
      <3>1. op'[p].snap = s
        BY <1>1, <1>3 DEF CallRecords
      <3> QED
        BY <2>1, <3>1
    <2>2. CASE q # p
      BY <1>1, <1>3, <2>2 DEF LifecycleInv, ReportsMakeSense
    <2> QED
      BY <2>1, <2>2
  <1> QED
    BY <1>4, <1>5

LEMMA LifecycleStep == LifecycleInv /\ [AbsNext]_absVars => LifecycleInv'
  <1> SUFFICES ASSUME LifecycleInv, [AbsNext]_absVars PROVE LifecycleInv'
    OBVIOUS
  <1>1. /\ phase \in Phases /\ lastExit \in ExitCodes \cup {NoExit}
        /\ op \in [Procs -> CallRecords]
        /\ lastExit # NoExit => phase = "VM_CREATED"
        /\ \A q \in Procs : op[q].snap.lastExit # NoExit => op[q].snap.phase = "VM_CREATED"
    BY DEF LifecycleInv, LifecycleTypeOK, ReportsMakeSense
  <1> USE DEF LifecycleInv, LifecycleTypeOK, ReportsMakeSense, Phases
  <1>2. CASE UNCHANGED absVars
    BY <1>1, <1>2 DEF absVars
  <1>3. CASE Load \/ Discard \/ Unload
    BY <1>1, <1>3 DEF Load, Discard, Unload
  <1>4. ASSUME NEW p \in Procs, Invoke(p) \/ Return(p)
        PROVE  LifecycleInv'
    <2>1. PICK v \in CallRecords : op' = [op EXCEPT ![p] = v] /\ v.snap = NoSnap
      BY <1>4, Constants DEF Invoke, Return
    <2>2. UNCHANGED <<phase, lastExit>>
      BY <1>4 DEF Invoke, Return
    <2> QED
      BY <1>1, <2>1, <2>2, Constants
  <1>5. ASSUME NEW p \in Procs, Perish(p)
        PROVE  LifecycleInv'
    <2>1. [op[p] EXCEPT !.result = "dead"] \in CallRecords
            /\ [op[p] EXCEPT !.result = "dead"].snap = op[p].snap
      BY <1>1 DEF CallRecords
    <2>2. op' = [op EXCEPT ![p] = [op[p] EXCEPT !.result = "dead"]]
      BY <1>1, <1>5 DEF Perish
    <2> QED
      BY <1>1, <1>5, <2>1, <2>2 DEF Perish
  <1>6. Snap \in Snapshots /\ (Snap.lastExit # NoExit => Snap.phase = "VM_CREATED")
    BY <1>1 DEF Snap, Snapshots
  <1>7. ASSUME NEW p \in Procs, Reject(p) \/ Query(p) \/ LoseAnswer(p)
        PROVE  LifecycleInv'
    <2>1. UNCHANGED <<phase, lastExit>>
      BY <1>7 DEF Reject, Query, LoseAnswer
    <2>2. Answer(p, "error", NoSnap) \/ Answer(p, "ok", Snap)
      BY <1>7 DEF Reject, Query, LoseAnswer
    <2>3. /\ op' \in [Procs -> CallRecords]
          /\ \A q \in Procs : op'[q].snap.lastExit # NoExit => op'[q].snap.phase = "VM_CREATED"
      BY <1>6, <2>2, Constants, AnswerKeeps
    <2> QED
      BY <1>1, <2>1, <2>3
  <1>8. ASSUME NEW p \in Procs, InitBackend(p) \/ CreateVm(p) \/ RunVm(p) \/ DestroyVm(p)
        PROVE  LifecycleInv'
    <2>1. /\ phase' \in Phases /\ lastExit' \in ExitCodes \cup {NoExit}
          /\ lastExit' # NoExit => phase' = "VM_CREATED"
      BY <1>1, <1>8 DEF InitBackend, CreateVm, RunVm, DestroyVm
    <2>2. Answer(p, "ok", NoSnap)
      BY <1>8 DEF InitBackend, CreateVm, RunVm, DestroyVm
    <2>3. /\ op' \in [Procs -> CallRecords]
          /\ \A q \in Procs : op'[q].snap.lastExit # NoExit => op'[q].snap.phase = "VM_CREATED"
      BY <2>2, Constants, AnswerKeeps
    <2> QED
      BY <2>1, <2>3
  <1> QED
    BY <1>2, <1>3, <1>4, <1>5, <1>7, <1>8 DEF AbsNext

(* Stated once for the life cycle, true of whatever implements it.         *)
THEOREM LifecycleReports == AbsSpec => []ReportsMakeSense
  <1>1. AbsInit => LifecycleInv
    BY Constants
    DEF AbsInit, LifecycleInv, LifecycleTypeOK, ReportsMakeSense, Phases
  <1>2. LifecycleInv => ReportsMakeSense
    BY DEF LifecycleInv
  <1> QED
    BY <1>1, <1>2, LifecycleStep, PTL DEF AbsSpec
=============================================================================

-------------------------- MODULE TraceEngine_proofs --------------------------
(* Proofs about TraceEngine, for every capacity of the event buffer.       *)
EXTENDS TraceEngine, FiniteSetTheorems, TLAPS

(* What two searches find: the compromised region reported first, and the  *)
(* first free watchpoint.                                                  *)
LEMMA FirstCompromisedExists ==
  ASSUME NEW r \in Regions, ~Intact(r)
  PROVE  FirstCompromised \in Regions
  <1>1. \E s \in Regions : /\ ~Intact(s)
                           /\ \A q \in Regions : ~Intact(q) => FailureCode[s] <= FailureCode[q]
    <2>1. FailureCode["IDT "] = 1 /\ FailureCode["GDT "] = 2 /\ FailureCode["SYSC"] = 3
      BY DEF FailureCode, Regions
    <2>2. 1 <= 1 /\ 1 <= 2 /\ 1 <= 3 /\ 2 <= 2 /\ 2 <= 3 /\ 3 <= 3
      OBVIOUS
    <2>3. CASE ~Intact("IDT ")
      BY <2>1, <2>2, <2>3, Zenon DEF Regions
    <2>4. CASE Intact("IDT ") /\ ~Intact("GDT ")
      BY <2>1, <2>2, <2>4, Zenon DEF Regions
    <2>5. CASE Intact("IDT ") /\ Intact("GDT ")
      BY <2>1, <2>2, <2>5, Zenon DEF Regions
    <2> QED
      BY <2>3, <2>4, <2>5
  <1> QED
    BY <1>1 DEF FirstCompromised

LEMMA FirstFreeExists ==
  ASSUME NEW u \in WatchSlots, IsFree(u)
  PROVE  /\ FirstFree \in WatchSlots
         /\ IsFree(FirstFree)
         /\ \A v \in WatchSlots : IsFree(v) => FirstFree <= v
  <1>1. \E w \in WatchSlots : IsFree(w) /\ \A v \in WatchSlots : IsFree(v) => w <= v
    <2>1. WatchSlots = {1, 2, 3, 4}
      BY DEF WatchSlots
    <2> QED
      BY <2>1
  <1> QED
    BY <1>1 DEF FirstFree

LEMMA IntegrityFailEvent == TRACE_EVENT_INTEGRITY_FAIL \in Nat
  BY DEF TRACE_EVENT_INTEGRITY_FAIL

-----------------------------------------------------------------------------
LEMMA InitTypeOK == Init => TypeOK
  BY TraceAssumption DEF Init, TypeOK, NoStats, NoEntry, FreeWatchpoint, Digests, Slots

LogData == Data \cup {FailureCode[r] : r \in Regions}

(* Logging with any counters whose checks are in range.                    *)
LEMMA LogTyped ==
  ASSUME TypeOK, NEW t \in Types \cup {TRACE_EVENT_INTEGRITY_FAIL}, NEW d \in LogData,
         NEW s, s \in [event_count : Nat, critical_events : Nat,
                  integrity_checks : 0 .. MaxChecks, integrity_failures : Nat],
         Log(s, t, d)
  PROVE  /\ events' \in [Slots -> Event \cup {NoEvent}]
         /\ write_index' \in 0 .. TRACE_MAX_EVENTS
         /\ stats' \in [event_count : Nat, critical_events : Nat,
                        integrity_checks : 0 .. MaxChecks, integrity_failures : Nat]
  <1>1. [type |-> t % 256, data |-> d] \in Event
    BY DEF Event, LogData
  <1>2. CASE write_index < TRACE_MAX_EVENTS
    <2>1. events' = [events EXCEPT ![write_index] = [type |-> t % 256, data |-> d]]
      BY <1>2 DEF Log
    <2>2. events' \in [Slots -> Event \cup {NoEvent}]
      BY <1>1, <2>1 DEF TypeOK
    <2>3. write_index' \in 0 .. TRACE_MAX_EVENTS
      BY <1>2, TraceAssumption DEF Log, TypeOK
    <2>4. stats' \in [event_count : Nat, critical_events : Nat,
                      integrity_checks : 0 .. MaxChecks, integrity_failures : Nat]
      <3>1. PICK n \in Nat : n = IF t = TRACE_SEVERITY_CRITICAL
                                THEN s.critical_events + 1 ELSE s.critical_events
        OBVIOUS
      <3>2. stats' = [s EXCEPT !.event_count = @ + 1, !.critical_events = n]
        BY <1>2, <3>1 DEF Log
      <3>3. s.event_count + 1 \in Nat
        OBVIOUS
      <3> QED
        BY <3>1, <3>2, <3>3
    <2> QED
      BY <2>2, <2>3, <2>4
  <1>3. CASE ~(write_index < TRACE_MAX_EVENTS)
    BY <1>3 DEF Log, TypeOK, buffer
  <1> QED
    BY <1>2, <1>3

LEMMA StepTypeOK == TypeOK /\ [Next]_vars => TypeOK'
  <1> SUFFICES ASSUME TypeOK, [Next]_vars PROVE TypeOK'
    OBVIOUS
  <1> USE TraceAssumption DEF TypeOK, buffer, integrity
  <1>1. CASE trace_init
    BY <1>1 DEF trace_init, Returns, NoStats, Slots, Digests
  <1>2. ASSUME NEW type \in Types, NEW data \in Data, trace_log_event(type, data)
        PROVE  TypeOK'
    <2>1. Log(stats, type, data) /\ data \in LogData
      BY <1>2 DEF trace_log_event, LogData
    <2>2. /\ events' \in [Slots -> Event \cup {NoEvent}]
          /\ write_index' \in 0 .. TRACE_MAX_EVENTS
          /\ stats' \in [event_count : Nat, critical_events : Nat,
                         integrity_checks : 0 .. MaxChecks, integrity_failures : Nat]
      BY <2>1, LogTyped
    <2> QED
      BY <1>2, <2>2 DEF trace_log_event, Returns
  <1>3. CASE trace_check_integrity
    <2> DEFINE counted == [stats EXCEPT !.integrity_checks = @ + 1]
    <2>1. counted \in [event_count : Nat, critical_events : Nat,
                       integrity_checks : 0 .. MaxChecks, integrity_failures : Nat]
      BY <1>3 DEF trace_check_integrity
    <2>2. CASE \A r \in Regions : Intact(r)
      BY <1>3, <2>1, <2>2 DEF trace_check_integrity, Returns
    <2>3. CASE \E r \in Regions : ~Intact(r)
      <3> DEFINE failed == [counted EXCEPT !.integrity_failures = @ + 1]
      <3>1. failed \in [event_count : Nat, critical_events : Nat,
                        integrity_checks : 0 .. MaxChecks, integrity_failures : Nat]
        <4> HIDE DEF counted
        <4> QED
          BY <2>1
      <3>2. FailureCode[FirstCompromised] \in LogData
        BY <2>3, FirstCompromisedExists DEF LogData
      <3>3. Log(failed, TRACE_EVENT_INTEGRITY_FAIL, FailureCode[FirstCompromised])
        BY <1>3, <2>3 DEF trace_check_integrity
      <3> HIDE DEF failed
      <3>4. /\ events' \in [Slots -> Event \cup {NoEvent}]
            /\ write_index' \in 0 .. TRACE_MAX_EVENTS
            /\ stats' \in [event_count : Nat, critical_events : Nat,
                           integrity_checks : 0 .. MaxChecks, integrity_failures : Nat]
        BY <3>1, <3>2, <3>3, LogTyped
      <3> QED
        BY <1>3, <2>3, <3>4 DEF trace_check_integrity, Returns
    <2> QED
      BY <2>2, <2>3
  <1>4. ASSUME NEW address \in Addresses, NEW size \in WatchSizes,
               trace_set_watchpoint(address, size)
        PROVE  TypeOK'
    BY <1>4, FirstFreeExists DEF trace_set_watchpoint, Returns
  <1>5. ASSUME NEW r \in Regions, Modify(r) PROVE TypeOK'
    BY <1>5 DEF Modify, Returns, Digests
  <1>6. CASE UNCHANGED vars
    BY <1>6 DEF vars
  <1> QED
    BY <1>1, <1>2, <1>3, <1>4, <1>5, <1>6 DEF Next

(* Every variable of the engine keeps its type.                            *)
THEOREM TraceTypes == Spec => []TypeOK
  BY InitTypeOK, StepTypeOK, PTL DEF Spec

-----------------------------------------------------------------------------
(* The watchpoints in use come first and have a size that DR7 can express. *)
LEMMA StepPacked == TypeOK /\ WatchpointsPacked /\ [Next]_vars => WatchpointsPacked'
  <1> SUFFICES ASSUME TypeOK, WatchpointsPacked, [Next]_vars PROVE WatchpointsPacked'
    OBVIOUS
  <1>1. ASSUME NEW address \in Addresses, NEW size \in WatchSizes,
               trace_set_watchpoint(address, size)
        PROVE  WatchpointsPacked'
    <2>1. CASE UNCHANGED watchpoints
      BY <2>1 DEF WatchpointsPacked, IsFree
    <2>2. CASE size \in Sizes /\ \E w \in WatchSlots : IsFree(w)
      <3>1. /\ FirstFree \in WatchSlots
            /\ \A v \in WatchSlots : IsFree(v) => FirstFree <= v
        BY <2>2, FirstFreeExists
      <3>2. watchpoints' = [watchpoints EXCEPT ![FirstFree] = [address |-> address, size |-> size]]
        BY <1>1, <2>2 DEF trace_set_watchpoint
      <3>3. PICK f \in WatchSlots : f = FirstFree
        BY <3>1
      <3>4. /\ \A w \in WatchSlots : w # f => watchpoints'[w] = watchpoints[w]
            /\ watchpoints'[f] = [address |-> address, size |-> size]
        BY <3>2, <3>3 DEF TypeOK
      <3>5. \A v \in WatchSlots : IsFree(v) => f <= v
        BY <3>1, <3>3
      <3> SUFFICES ASSUME NEW w \in WatchSlots, ~IsFree(w)'
                   PROVE  /\ watchpoints'[w].size \in Sizes
                          /\ \A v \in 1 .. w : ~IsFree(v)'
        BY DEF WatchpointsPacked
      <3>6. CASE w = f
        <4>1. \A v \in 1 .. w : v # f => v \in WatchSlots /\ ~(f <= v)
          BY <3>6 DEF WatchSlots
        <4> QED
          BY <2>2, <3>4, <3>5, <3>6, <4>1 DEF IsFree
      <3>7. CASE w # f
        <4>1. ~IsFree(w) /\ \A v \in 1 .. w : v \in WatchSlots
          BY <3>4, <3>7 DEF IsFree, WatchSlots
        <4>2. \A v \in 1 .. w : ~IsFree(v)
          BY <4>1 DEF WatchpointsPacked
        <4>3. f \notin 1 .. w
          <5>1. \E u \in WatchSlots : IsFree(u)
            BY <2>2
          <5>2. IsFree(f)
            BY <3>3, <5>1, FirstFreeExists
          <5> QED
            BY <4>2, <5>2
        <4> QED
          BY <3>4, <3>7, <4>1, <4>2, <4>3 DEF WatchpointsPacked, IsFree
      <3> QED
        BY <3>6, <3>7
    <2> QED
      BY <1>1, <2>1, <2>2 DEF trace_set_watchpoint
  <1>2. CASE UNCHANGED watchpoints
    BY <1>2 DEF WatchpointsPacked, IsFree
  <1> QED
    BY <1>1, <1>2 DEF Next, trace_init, trace_log_event, trace_check_integrity, Modify, vars

THEOREM WatchpointsArePacked == Spec => []WatchpointsPacked
  <1>1. Init => WatchpointsPacked
    BY DEF Init, WatchpointsPacked, IsFree, FreeWatchpoint
  <1> QED
    BY <1>1, StepPacked, TraceTypes, PTL DEF Spec

(* No call drops or overwrites a watchpoint.                               *)
THEOREM WatchpointsAreKept == Spec => WatchpointsKept
  <1>1. TypeOK /\ [Next]_vars
          => \A w \in WatchSlots : ~IsFree(w) => watchpoints'[w] = watchpoints[w]
    <2> SUFFICES ASSUME TypeOK, [Next]_vars, NEW w \in WatchSlots, ~IsFree(w)
                 PROVE  watchpoints'[w] = watchpoints[w]
      OBVIOUS
    <2>1. ASSUME NEW address \in Addresses, NEW size \in WatchSizes,
                 trace_set_watchpoint(address, size)
          PROVE  watchpoints'[w] = watchpoints[w]
      <3>1. CASE UNCHANGED watchpoints
        BY <3>1
      <3>2. CASE \E u \in WatchSlots : IsFree(u)
        <4>1. FirstFree # w
          BY <3>2, FirstFreeExists
        <4> QED
          BY <2>1, <4>1 DEF trace_set_watchpoint, TypeOK
      <3> QED
        BY <2>1, <3>1, <3>2 DEF trace_set_watchpoint
    <2>2. CASE UNCHANGED watchpoints
      BY <2>2
    <2> QED
      BY <2>1, <2>2 DEF Next, trace_init, trace_log_event, trace_check_integrity, Modify, vars
  <1> QED
    BY <1>1, TraceTypes, PTL DEF Spec, WatchpointsKept

-----------------------------------------------------------------------------
(* The critical events are counted no more often than they are stored.     *)
Critical == Stored(TRACE_SEVERITY_CRITICAL)

LEMMA CriticalFinite ==
  ASSUME TypeOK
  PROVE  IsFiniteSet(Critical) /\ Cardinality(Critical) \in Nat
  <1>1. write_index \in Nat
    BY TraceAssumption DEF TypeOK
  <1>2. IsFiniteSet(0 .. write_index - 1)
    BY <1>1, FS_Interval
  <1>3. Critical \subseteq 0 .. write_index - 1
    BY DEF Critical, Stored
  <1> QED
    BY <1>2, <1>3, FS_Subset, FS_CardinalityType

(* Storing at the write index adds to what is stored.                      *)
LEMMA StoredGrows ==
  ASSUME TypeOK, TypeOK', NEW e, write_index < TRACE_MAX_EVENTS,
         events' = [events EXCEPT ![write_index] = e], write_index' = write_index + 1
  PROVE  Critical' = IF e.type = TRACE_SEVERITY_CRITICAL
                     THEN Critical \cup {write_index} ELSE Critical
  <1>1. write_index \in Nat /\ events \in [Slots -> Event \cup {NoEvent}] /\ write_index \in Slots
    BY TraceAssumption DEF TypeOK, Slots
  <1>2. \A i \in 0 .. write_index - 1 : events'[i] = events[i]
    BY <1>1, TraceAssumption DEF Slots
  <1>3. events'[write_index] = e
    BY <1>1
  <1>4. /\ 0 .. write_index' - 1 = (0 .. write_index - 1) \cup {write_index}
        /\ write_index \notin 0 .. write_index - 1
    BY <1>1
  <1> QED
    BY <1>2, <1>3, <1>4 DEF Critical, Stored

LEMMA LogAgrees ==
  ASSUME TypeOK, TypeOK', StatisticsAgree, NEW t, NEW d, NEW s,
         s.event_count = stats.event_count, s.critical_events = stats.critical_events,
         s \in [event_count : Nat, critical_events : Nat,
                integrity_checks : 0 .. MaxChecks, integrity_failures : Nat],
         s.integrity_failures <= s.integrity_checks, Log(s, t, d)
  PROVE  StatisticsAgree'
  <1>1. stats.critical_events \in Nat /\ stats.event_count = write_index
        /\ stats.critical_events <= Cardinality(Critical)
    BY DEF TypeOK, StatisticsAgree, Critical
  <1>2. CASE write_index < TRACE_MAX_EVENTS
    <2> DEFINE e == [type |-> t % 256, data |-> d]
    <2>1. /\ stats'.event_count = s.event_count + 1 /\ write_index' = write_index + 1
          /\ stats'.critical_events = IF t = TRACE_SEVERITY_CRITICAL
                                      THEN s.critical_events + 1 ELSE s.critical_events
          /\ stats'.integrity_failures = s.integrity_failures
          /\ stats'.integrity_checks = s.integrity_checks
      BY <1>2 DEF Log
    <2>2. e.type = t % 256 /\ (t = TRACE_SEVERITY_CRITICAL => e.type = TRACE_SEVERITY_CRITICAL)
      BY DEF TRACE_SEVERITY_CRITICAL
    <2>3. events' = [events EXCEPT ![write_index] = e]
      BY <1>2 DEF Log
    <2> HIDE DEF e
    <2>4. Critical' = IF e.type = TRACE_SEVERITY_CRITICAL
                      THEN Critical \cup {write_index} ELSE Critical
      BY <1>2, <2>1, <2>3, StoredGrows
    <2>5. write_index \notin Critical
      BY TraceAssumption DEF Critical, Stored, TypeOK
    <2>6. /\ Cardinality(Critical) \in Nat
          /\ Cardinality(Critical \cup {write_index}) = Cardinality(Critical) + 1
      BY <2>5, CriticalFinite, FS_AddElement
    <2>7. stats'.critical_events <= Cardinality(Critical')
      BY <1>1, <2>1, <2>2, <2>4, <2>6
    <2>8. stats'.event_count = write_index'
      BY <1>1, <2>1
    <2> QED
      BY <2>1, <2>7, <2>8 DEF StatisticsAgree, Critical
  <1>3. CASE ~(write_index < TRACE_MAX_EVENTS)
    BY <1>1, <1>3 DEF Log, StatisticsAgree, Critical, buffer, Stored
  <1> QED
    BY <1>2, <1>3

LEMMA StepStatistics == TypeOK /\ StatisticsAgree /\ [Next]_vars => StatisticsAgree'
  <1> SUFFICES ASSUME TypeOK, StatisticsAgree, [Next]_vars PROVE StatisticsAgree'
    OBVIOUS
  <1>0. TypeOK'
    BY StepTypeOK
  <1>1. CASE trace_init
    <2>1. stats' = NoStats /\ write_index' = 0
      BY <1>1 DEF trace_init
    <2>2. Stored(TRACE_SEVERITY_CRITICAL)' = {}
      BY <2>1 DEF Stored
    <2>3. Cardinality(Stored(TRACE_SEVERITY_CRITICAL)') = 0
      BY <2>2, FS_EmptySet
    <2> QED
      BY <2>1, <2>3 DEF StatisticsAgree, NoStats
  <1>2. ASSUME NEW type \in Types, NEW data \in Data, trace_log_event(type, data)
        PROVE  StatisticsAgree'
    <2>1. stats.integrity_failures <= stats.integrity_checks
      BY DEF StatisticsAgree
    <2>2. Log(stats, type, data)
      BY <1>2 DEF trace_log_event
    <2> QED
      BY <1>0, <2>1, <2>2, LogAgrees DEF TypeOK
  <1>3. CASE trace_check_integrity
    <2> DEFINE counted == [stats EXCEPT !.integrity_checks = @ + 1]
               failed == [counted EXCEPT !.integrity_failures = @ + 1]
    <2>1. /\ stats \in [event_count : Nat, critical_events : Nat,
                        integrity_checks : 0 .. MaxChecks, integrity_failures : Nat]
          /\ stats.integrity_failures <= stats.integrity_checks
          /\ stats.integrity_checks < MaxChecks
      BY <1>3 DEF TypeOK, StatisticsAgree, trace_check_integrity
    <2>2. CASE \A r \in Regions : Intact(r)
      <3>1. stats' = counted /\ UNCHANGED buffer
        BY <1>3, <2>2 DEF trace_check_integrity
      <3> QED
        BY <2>1, <3>1 DEF StatisticsAgree, buffer, Stored
    <2>3. CASE \E r \in Regions : ~Intact(r)
      <3>1. Log(failed, TRACE_EVENT_INTEGRITY_FAIL, FailureCode[FirstCompromised])
        BY <1>3, <2>3 DEF trace_check_integrity
      <3>2. /\ failed.event_count = stats.event_count
            /\ failed.critical_events = stats.critical_events
            /\ failed.integrity_failures <= failed.integrity_checks
            /\ failed \in [event_count : Nat, critical_events : Nat,
                           integrity_checks : 0 .. MaxChecks, integrity_failures : Nat]
        <4>1. /\ counted.event_count = stats.event_count
              /\ counted.critical_events = stats.critical_events
              /\ counted.integrity_failures < counted.integrity_checks
              /\ counted \in [event_count : Nat, critical_events : Nat,
                             integrity_checks : 0 .. MaxChecks, integrity_failures : Nat]
          BY <2>1, TraceAssumption
        <4> HIDE DEF counted
        <4> QED
          BY <4>1, TraceAssumption
      <3> HIDE DEF failed
      <3> QED
        BY <1>0, <3>1, <3>2, LogAgrees
    <2> QED
      BY <2>2, <2>3
  <1>4. CASE UNCHANGED <<buffer, stats>>
    BY <1>4 DEF StatisticsAgree, buffer, Stored
  <1> QED
    BY <1>1, <1>2, <1>3, <1>4 DEF Next, trace_set_watchpoint, Modify, vars, buffer

(* The counters agree with the buffer whatever is logged and checked.      *)
THEOREM StatisticsAlwaysAgree == Spec => []StatisticsAgree
  <1>1. Init => StatisticsAgree
    <2> SUFFICES ASSUME Init PROVE StatisticsAgree
      OBVIOUS
    <2>1. Cardinality(Critical) \in Nat
      BY InitTypeOK, CriticalFinite
    <2> QED
      BY <2>1 DEF Init, NoStats, StatisticsAgree, Critical
  <1> QED
    BY <1>1, StepStatistics, TraceTypes, PTL DEF Spec

-----------------------------------------------------------------------------
(* The refinement of EventLog.  A failing check would put an event into    *)
(* the log that nobody asked for; but no hash is ever computed, so every   *)
(* region counts as intact.                                                *)
HashUntouched == hash_buffer = "zeros"

LEMMA AlwaysIntact ==
  ASSUME TypeOK, HashUntouched, NEW r \in Regions
  PROVE  Intact(r)
  BY DEF TypeOK, HashUntouched, Intact, CurrentHash

THEOREM NoHashIsComputed == Spec => []HashUntouched
  <1>1. Init => HashUntouched
    BY DEF Init, HashUntouched
  <1>2. HashUntouched /\ [Next]_vars => HashUntouched'
    BY DEF HashUntouched, Next, vars, integrity, trace_init, trace_log_event,
       trace_check_integrity, trace_set_watchpoint, Modify
  <1> QED
    BY <1>1, <1>2, PTL DEF Spec

LogSeq == [i \in 1 .. write_index |-> events[i - 1]]

LEMMA LogSeqIsSeq ==
  ASSUME TypeOK
  PROVE  LogSeq \in Seq(Event \cup {NoEvent}) /\ Len(LogSeq) = write_index
  <1>1. write_index \in Nat /\ \A i \in 1 .. write_index : i - 1 \in Slots
    BY TraceAssumption DEF TypeOK, Slots
  <1> QED
    BY <1>1 DEF LogSeq, TypeOK

(* Storing at the write index appends.                                     *)
LEMMA StoreAppends ==
  ASSUME TypeOK, TypeOK', write_index < TRACE_MAX_EVENTS, NEW e,
         events' = [events EXCEPT ![write_index] = e], write_index' = write_index + 1
  PROVE  LogSeq' = Append(LogSeq, e)
  <1>1. /\ write_index \in Nat /\ write_index \in Slots
        /\ events \in [Slots -> Event \cup {NoEvent}]
        /\ \A i \in 1 .. write_index : i - 1 \in Slots /\ i - 1 # write_index
    BY TraceAssumption DEF TypeOK, Slots
  <1>2. LogSeq' = [i \in 1 .. write_index + 1 |-> events'[i - 1]]
    BY DEF LogSeq
  <1>3. \A i \in 1 .. write_index : events'[i - 1] = events[i - 1]
    BY <1>1
  <1>4. events'[write_index] = e /\ write_index + 1 - 1 = write_index
    BY <1>1
  <1>5. Append(LogSeq, e) = [i \in 1 .. write_index + 1 |->
                               IF i = write_index + 1 THEN e ELSE LogSeq[i]]
    BY <1>1, LogSeqIsSeq
  <1>6. \A i \in 1 .. write_index + 1 :
          events'[i - 1] = IF i = write_index + 1 THEN e ELSE LogSeq[i]
    <2> TAKE i \in 1 .. write_index + 1
    <2>1. CASE i = write_index + 1
      BY <1>1, <1>4, <2>1
    <2>2. CASE i # write_index + 1
      BY <1>1, <1>3, <2>2 DEF LogSeq
    <2> QED
      BY <2>1, <2>2
  <1> QED
    BY <1>2, <1>5, <1>6

LogAnswer == IF call.fn # "log" THEN "none"
             ELSE IF call.eax = 0 THEN "recorded" ELSE "refused"

LEMMA LogAnswers ==
  /\ call.fn # "log" => LogAnswer = "none"
  /\ call.fn = "log" /\ call.eax = 0 => LogAnswer = "recorded"
  /\ call.fn = "log" /\ call.eax = -1 => LogAnswer = "refused"
  BY DEF LogAnswer

LEMMA LogAnswersNext ==
  /\ call'.fn # "log" => LogAnswer' = "none"
  /\ call'.fn = "log" /\ call'.eax = 0 => LogAnswer' = "recorded"
  /\ call'.fn = "log" /\ call'.eax = -1 => LogAnswer' = "refused"
  BY DEF LogAnswer

(* The engine is a bounded log: every step is a step of EventLog.          *)
THEOREM EngineImplementsLog == Spec => ImplementsEventLog
  <1>1. Init => LogOf!LogInit
    <2> SUFFICES ASSUME Init PROVE LogOf!LogInit
      OBVIOUS
    <2>1. write_index = 0 /\ call.fn = "none"
      BY DEF Init
    <2>2. LogSeq = <<>> /\ LogAnswer = "none"
      BY <2>1, LogAnswers DEF LogSeq
    <2> QED
      BY <2>2 DEF LogSeq, LogAnswer, LogOf!LogInit
  <1>2. TypeOK /\ TypeOK' /\ HashUntouched /\ [Next]_vars
          => [LogOf!LogNext]_(LogOf!logVars)
    <2> SUFFICES ASSUME TypeOK, TypeOK', HashUntouched, [Next]_vars
                 PROVE  [LogOf!LogNext]_(LogOf!logVars)
      OBVIOUS
    <2>1. ASSUME LogSeq' = <<>>, LogAnswer' = "none" PROVE LogOf!LogNext
      BY <2>1 DEF LogSeq, LogAnswer, LogOf!LogNext, LogOf!Clear
    <2>2. ASSUME NEW e \in Event, write_index < TRACE_MAX_EVENTS,
                 LogSeq' = Append(LogSeq, e), LogAnswer' = "recorded"
          PROVE  LogOf!LogNext
      BY <2>2, LogSeqIsSeq DEF LogSeq, LogAnswer, LogOf!LogNext, LogOf!Record
    <2>3. ASSUME write_index = TRACE_MAX_EVENTS, LogSeq' = LogSeq, LogAnswer' = "refused"
          PROVE  LogOf!LogNext
      BY <2>3, LogSeqIsSeq DEF LogSeq, LogAnswer, LogOf!LogNext, LogOf!Refuse
    <2>4. ASSUME LogSeq' = LogSeq, LogAnswer' = "none" PROVE LogOf!LogNext
      BY <2>4 DEF LogSeq, LogAnswer, LogOf!LogNext, LogOf!Other
    <2>5. CASE trace_init
      <3>1. write_index' = 0 /\ call'.fn = "init"
        BY <2>5 DEF trace_init, Returns
      <3>2. LogSeq' = <<>>
        BY <3>1 DEF LogSeq
      <3> QED
        BY <2>1, <3>1, <3>2, LogAnswersNext
    <2>6. ASSUME NEW type \in Types, NEW data \in Data, trace_log_event(type, data)
          PROVE  LogOf!LogNext
      <3> DEFINE e == [type |-> type % 256, data |-> data]
      <3>1. e \in Event
        BY DEF Event
      <3>2. CASE write_index < TRACE_MAX_EVENTS
        <4>1. /\ events' = [events EXCEPT ![write_index] = e]
              /\ write_index' = write_index + 1
              /\ call' = [fn |-> "log", eax |-> 0]
          BY <2>6, <3>2 DEF trace_log_event, Log, Returns
        <4> HIDE DEF e
        <4>2. LogSeq' = Append(LogSeq, e)
          BY <3>2, <4>1, StoreAppends
        <4> QED
          BY <2>2, <3>1, <3>2, <4>1, <4>2, LogAnswersNext
      <3>3. CASE ~(write_index < TRACE_MAX_EVENTS)
        <4>1. UNCHANGED buffer /\ call' = [fn |-> "log", eax |-> -1]
          BY <2>6, <3>3 DEF trace_log_event, Log, Returns
        <4>2. write_index = TRACE_MAX_EVENTS
          BY <3>3, TraceAssumption DEF TypeOK
        <4> QED
          BY <2>3, <4>1, <4>2, LogAnswersNext DEF LogSeq, buffer
      <3> QED
        BY <3>2, <3>3
    <2>7. CASE trace_check_integrity
      <3>1. UNCHANGED buffer /\ call'.fn = "check"
        BY <2>7, AlwaysIntact DEF trace_check_integrity, Returns
      <3> QED
        BY <2>4, <3>1, LogAnswersNext DEF LogSeq, buffer
    <2>8. ASSUME NEW address \in Addresses, NEW size \in WatchSizes,
                 trace_set_watchpoint(address, size)
          PROVE  LogOf!LogNext
      <3>1. UNCHANGED buffer /\ call'.fn = "watch"
        BY <2>8 DEF trace_set_watchpoint, Returns
      <3> QED
        BY <2>4, <3>1, LogAnswersNext DEF LogSeq, buffer
    <2>9. ASSUME NEW r \in Regions, Modify(r) PROVE LogOf!LogNext
      <3>1. UNCHANGED buffer /\ call'.fn = "none"
        BY <2>9 DEF Modify, Returns
      <3> QED
        BY <2>4, <3>1, LogAnswersNext DEF LogSeq, buffer
    <2>10. CASE UNCHANGED vars
      BY <2>10 DEF vars, LogOf!logVars
    <2> QED
      BY <2>5, <2>6, <2>7, <2>8, <2>9, <2>10 DEF Next
  <1> QED
    BY <1>1, <1>2, TraceTypes, NoHashIsComputed, PTL DEF Spec, ImplementsEventLog, LogOf!LogSpec
=============================================================================

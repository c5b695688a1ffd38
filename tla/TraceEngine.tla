----------------------------- MODULE TraceEngine -----------------------------
(***************************************************************************)
(* The trace engine, src/monitor/trace_engine.asm: the event buffer and    *)
(* its counters, the integrity baseline of three regions of the guest, and *)
(* the four watchpoint slots.  Its routines are called one at a time, by   *)
(* main.cpp and by the VM-exit handler; each is one step.  Before          *)
(* trace_init everything is the zeroed .bss.                               *)
(***************************************************************************)
EXTENDS Integers, FiniteSets, Sequences

CONSTANTS
  TRACE_MAX_EVENTS,
  Types,       \* event types callers pass: 64-bit numbers
  Data,        \* event data
  Addresses,   \* addresses to watch
  WatchSizes,  \* sizes to watch
  MaxChecks    \* bound on integrity_checks

ASSUME TraceAssumption ==
  /\ TRACE_MAX_EVENTS \in Nat \ {0}
  /\ MaxChecks \in Nat
  /\ Types \subseteq Nat
  /\ Data \subseteq Nat
  /\ Addresses \subseteq Nat
  /\ WatchSizes \subseteq Nat

TRACE_SEVERITY_CRITICAL == 2
TRACE_EVENT_INTEGRITY_FAIL == 5

Regions == {"IDT ", "GDT ", "SYSC"}
FailureCode == [r \in Regions |-> CASE r = "IDT " -> 1 [] r = "GDT " -> 2 [] r = "SYSC" -> 3]

Slots == 0 .. TRACE_MAX_EVENTS - 1
(* TraceEvent.type is one byte.                                            *)
Event == [type : {t % 256 : t \in Types \cup {TRACE_EVENT_INTEGRITY_FAIL}},
          data : Data \cup {FailureCode[r] : r \in Regions}]
NoEvent == [type |-> 0, data |-> 0]

WatchSlots == 1 .. 4
Sizes == {1, 2, 4, 8}
FreeWatchpoint == [address |-> 0, size |-> 0]

VARIABLES
  events,       \* trace_buffer.events
  write_index,
  stats,        \* trace_stats
  baseline,     \* integrity_baseline, by tag
  hash_buffer,  \* current_hash_buffer
  watchpoints,
  memory,       \* the contents of the regions, compared with those at trace_init
  call          \* the last call and its EAX

buffer == <<events, write_index>>
integrity == <<baseline, hash_buffer>>
vars == <<events, write_index, stats, baseline, hash_buffer, watchpoints, memory, call>>

NoStats == [event_count |-> 0, critical_events |-> 0,
            integrity_checks |-> 0, integrity_failures |-> 0]

(* Digests: all zeros, the digest of the original contents, of others.     *)
Digests == {"zeros", "original", "modified"}

(* No entry has the tag yet, or the address and the hash recorded for it.  *)
NoEntry == [set |-> FALSE, address |-> 0, hash |-> "zeros"]

Init ==
  /\ events = [i \in Slots |-> NoEvent]
  /\ write_index = 0
  /\ stats = NoStats
  /\ baseline = [r \in Regions |-> NoEntry]
  /\ hash_buffer = "zeros"
  /\ watchpoints = [w \in WatchSlots |-> FreeWatchpoint]
  /\ memory = [r \in Regions |-> "original"]
  /\ call = [fn |-> "none", eax |-> 0]

Returns(f, value) == call' = [fn |-> f, eax |-> value]

-----------------------------------------------------------------------------
(* The watchpoints are neither cleared nor set.                            *)
(* Mutant: the write index is not reset.                                   *)
InitKeepsIndex ==
  /\ events' = [i \in Slots |-> NoEvent]
  /\ UNCHANGED write_index
  /\ stats' = NoStats
  /\ baseline' = [r \in Regions |-> [set |-> TRUE, address |-> 0, hash |-> "zeros"]]
  /\ memory' = [r \in Regions |-> "original"]
  /\ Returns("init", 0)
  /\ UNCHANGED <<hash_buffer, watchpoints>>

trace_init ==
  /\ events' = [i \in Slots |-> NoEvent]
  /\ write_index' = 0
  /\ stats' = NoStats
  /\ baseline' = [r \in Regions |-> [set |-> TRUE, address |-> 0, hash |-> "zeros"]]
  /\ memory' = [r \in Regions |-> "original"]
  /\ Returns("init", 0)
  /\ UNCHANGED <<hash_buffer, watchpoints>>

(* trace_log_event where the counters are s.  The type is stored as a      *)
(* byte, but compared with CRITICAL in full.                               *)
(* Mutant: an event is critical from CRITICAL on.                          *)
LogAtLeast(s, type, data) ==
  IF write_index < TRACE_MAX_EVENTS
  THEN /\ events' = [events EXCEPT ![write_index] = [type |-> type % 256, data |-> data]]
       /\ write_index' = write_index + 1
       /\ stats' = [s EXCEPT !.event_count = @ + 1,
                             !.critical_events = IF type >= TRACE_SEVERITY_CRITICAL
                                                 THEN @ + 1 ELSE @]
  ELSE stats' = s /\ UNCHANGED buffer

Log(s, type, data) ==
  IF write_index < TRACE_MAX_EVENTS
  THEN /\ events' = [events EXCEPT ![write_index] = [type |-> type % 256, data |-> data]]
       /\ write_index' = write_index + 1
       /\ stats' = [s EXCEPT !.event_count = @ + 1,
                             !.critical_events = IF type = TRACE_SEVERITY_CRITICAL
                                                 THEN @ + 1 ELSE @]
  ELSE stats' = s /\ UNCHANGED buffer

(* Mutant: the test for a full buffer is off by one.                       *)
LogUnbounded(type, data) ==
  /\ write_index <= TRACE_MAX_EVENTS
  /\ events' = [i \in Slots \cup {write_index} |->
                 IF i = write_index THEN [type |-> type % 256, data |-> data] ELSE events[i]]
  /\ write_index' = write_index + 1
  /\ stats' = [stats EXCEPT !.event_count = @ + 1]
  /\ Returns("log", 0)
  /\ UNCHANGED <<integrity, watchpoints, memory>>

trace_log_event(type, data) ==
  /\ Log(stats, type, data)
  /\ Returns("log", IF write_index < TRACE_MAX_EVENTS THEN 0 ELSE -1)
  /\ UNCHANGED <<integrity, watchpoints, memory>>

-----------------------------------------------------------------------------
(* simd_hash_blocks refuses a NULL address and leaves its output alone.    *)
CurrentHash(r) == IF baseline[r].address = 0 THEN hash_buffer ELSE memory[r]

(* check_region_integrity: a region without an entry counts as intact.     *)
Intact(r) == baseline[r].set => CurrentHash(r) = baseline[r].hash

(* The first region that is not, in the order of the checks.               *)
FirstCompromised ==
  CHOOSE r \in Regions : /\ ~Intact(r)
                         /\ \A q \in Regions : ~Intact(q) => FailureCode[r] <= FailureCode[q]

(* The result of logging the failure is ignored.                           *)
trace_check_integrity ==
  /\ stats.integrity_checks < MaxChecks
  /\ LET counted == [stats EXCEPT !.integrity_checks = @ + 1]
     IN  IF \A r \in Regions : Intact(r)
         THEN /\ stats' = counted
              /\ Returns("check", 0)
              /\ UNCHANGED buffer
         ELSE /\ Log([counted EXCEPT !.integrity_failures = @ + 1],
                     TRACE_EVENT_INTEGRITY_FAIL, FailureCode[FirstCompromised])
              /\ Returns("check", -1)
  /\ UNCHANGED <<integrity, watchpoints, memory>>

-----------------------------------------------------------------------------
IsFree(w) == watchpoints[w].address = 0
FirstFree == CHOOSE w \in WatchSlots : IsFree(w) /\ \A v \in WatchSlots : IsFree(v) => w <= v

(* Mutant: the size is not validated.                                      *)
WatchAnySize(address, size) ==
  /\ IF \E w \in WatchSlots : IsFree(w)
     THEN /\ watchpoints' = [watchpoints EXCEPT ![FirstFree] = [address |-> address, size |-> size]]
          /\ Returns("watch", 0)
     ELSE Returns("watch", -1) /\ UNCHANGED watchpoints
  /\ UNCHANGED <<buffer, stats, integrity, memory>>

(* Mutant: the search stops at the first slot.                             *)
WatchFirstSlot(address, size) ==
  /\ IF size \in Sizes
     THEN /\ watchpoints' = [watchpoints EXCEPT ![1] = [address |-> address, size |-> size]]
          /\ Returns("watch", 0)
     ELSE Returns("watch", -1) /\ UNCHANGED watchpoints
  /\ UNCHANGED <<buffer, stats, integrity, memory>>

(* A slot with address 0 is a free one, also after such a watchpoint has   *)
(* been set.                                                               *)
trace_set_watchpoint(address, size) ==
  /\ IF size \in Sizes /\ \E w \in WatchSlots : IsFree(w)
     THEN /\ watchpoints' = [watchpoints EXCEPT ![FirstFree] = [address |-> address, size |-> size]]
          /\ Returns("watch", 0)
     ELSE Returns("watch", -1) /\ UNCHANGED watchpoints
  /\ UNCHANGED <<buffer, stats, integrity, memory>>

(* The guest changes a region after initialisation.                        *)
Modify(r) ==
  /\ baseline[r].set
  /\ memory' = [memory EXCEPT ![r] = "modified"]
  /\ Returns("none", 0)
  /\ UNCHANGED <<buffer, stats, integrity, watchpoints>>

Next ==
  \/ trace_init
  \/ \E type \in Types, data \in Data : trace_log_event(type, data)
  \/ trace_check_integrity
  \/ \E address \in Addresses, size \in WatchSizes : trace_set_watchpoint(address, size)
  \/ \E r \in Regions : Modify(r)

Spec == Init /\ [][Next]_vars

-----------------------------------------------------------------------------
(* Properties                                                              *)

(* Every variable has its type.                                            *)
TypeOK ==
  /\ events \in [Slots -> Event \cup {NoEvent}]
  /\ write_index \in 0 .. TRACE_MAX_EVENTS
  /\ stats \in [event_count : Nat, critical_events : Nat,
                integrity_checks : 0 .. MaxChecks, integrity_failures : Nat]
  /\ baseline \in [Regions -> [set : BOOLEAN, address : {0}, hash : {"zeros"}]]
  /\ hash_buffer \in Digests
  /\ watchpoints \in [WatchSlots -> [address : Addresses \cup {0}, size : WatchSizes \cup {0}]]
  /\ memory \in [Regions -> Digests]
  /\ call \in [fn : {"none", "init", "log", "check", "watch"}, eax : {0, -1}]

(* The buffer is the log that trace_log_event's header promises: what it   *)
(* answered 0 for stays, in order and unchanged, until trace_init, and -1  *)
(* means that the buffer is full.                                          *)
LogOf == INSTANCE EventLog WITH
  LogCapacity <- TRACE_MAX_EVENTS,
  Entries <- Event,
  log <- [i \in 1 .. write_index |-> events[i - 1]],
  answer <- IF call.fn # "log" THEN "none"
            ELSE IF call.eax = 0 THEN "recorded" ELSE "refused"
ImplementsEventLog == LogOf!LogSpec

(* The counters agree with the buffer, through full buffers, checks and    *)
(* repeated initialisation.                                                *)
Stored(type) == {i \in 0 .. write_index - 1 : events[i].type = type}
StatisticsAgree ==
  /\ stats.event_count = write_index
  /\ stats.critical_events <= Cardinality(Stored(TRACE_SEVERITY_CRITICAL))
  /\ stats.integrity_failures <= stats.integrity_checks

(* No call, trace_init included, drops or overwrites a watchpoint.         *)
WatchpointsKept ==
  [][\A w \in WatchSlots : ~IsFree(w) => watchpoints'[w] = watchpoints[w]]_vars

(* The watchpoints in use come first and each has a size DR7 can express.  *)
WatchpointsPacked ==
  \A w \in WatchSlots : ~IsFree(w) =>
    /\ watchpoints[w].size \in Sizes
    /\ \A v \in 1 .. w : ~IsFree(v)

(* "Returns: EAX = 0 if integrity OK, -1 if compromised".                  *)
ModificationReported ==
  call.fn = "check" /\ call.eax = 0 =>
    \A r \in Regions : baseline[r].set => memory[r] = "original"
=============================================================================

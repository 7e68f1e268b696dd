------------------------- MODULE TimestampGenerator -------------------------
(***************************************************************************)
(* TimestampGenerator::next (hecuba_core), called by several threads: the  *)
(* clock is read before the mutex is taken, and the returned value is read *)
(* from the member 'last' after the mutex was released.                    *)
(***************************************************************************)
EXTENDS Integers, FiniteSets

CONSTANTS
  Threads,       \* the threads that call next()
  MaxClock,      \* bound: the clock's last value
  MaxCalls       \* bound: calls of next() in all

ASSUME TimestampAssumption == MaxClock \in Nat /\ MaxCalls \in Nat

VARIABLES
  clock,         \* std::chrono::steady_clock, which never goes back
  last,          \* TimestampGenerator::last
  pc,            \* per thread: progress in next()
  now,           \* per thread: the local variable 'now'
  before,        \* history, per thread: what was returned before its call began
  returned,      \* history: the stamp of every call that returned
  calls          \* number of calls begun (bounds the model)

vars == <<clock, last, pc, now, before, returned, calls>>

TypeOK ==
  /\ clock \in 0..MaxClock
  /\ last \in 0..(MaxClock + MaxCalls)
  /\ pc \in [Threads -> {"idle", "lock", "return"}]
  /\ now \in [Threads -> 0..MaxClock]
  /\ before \in [Threads -> SUBSET [call : Nat, stamp : Nat]]
  /\ returned \in SUBSET [call : Nat, stamp : Nat]
  /\ calls \in 0..MaxCalls

Init ==
  /\ clock = 0
  /\ last = 0
  /\ pc = [t \in Threads |-> "idle"]
  /\ now = [t \in Threads |-> 0]
  /\ before = [t \in Threads |-> {}]
  /\ returned = {}
  /\ calls = 0

-----------------------------------------------------------------------------
(* Plausible bugs: faulty versions of definitions below.                    *)

\* Equal clock readings are not told apart: now < last.
update_not_strict(t) ==
  /\ pc[t] = "lock"
  /\ last' = IF now[t] < last THEN last + 1 ELSE now[t]
  /\ pc' = [pc EXCEPT ![t] = "return"]
  /\ UNCHANGED <<clock, now, before, returned, calls>>

-----------------------------------------------------------------------------
\* The steady clock advances (external).
tick ==
  /\ clock < MaxClock
  /\ clock' = clock + 1
  /\ UNCHANGED <<last, pc, now, before, returned, calls>>

\* clock_type::now(), before m.lock().
read_clock(t) ==
  /\ pc[t] = "idle"
  /\ calls < MaxCalls
  /\ calls' = calls + 1
  /\ now' = [now EXCEPT ![t] = clock]
  /\ before' = [before EXCEPT ![t] = returned]
  /\ pc' = [pc EXCEPT ![t] = "lock"]
  /\ UNCHANGED <<clock, last, returned>>

\* The critical section: if (now <= last) now = last + 1; last = now.
update(t) ==
  /\ pc[t] = "lock"
  /\ last' = IF now[t] <= last THEN last + 1 ELSE now[t]
  /\ pc' = [pc EXCEPT ![t] = "return"]
  /\ UNCHANGED <<clock, now, before, returned, calls>>

\* return last: read again, after m.unlock().
return_last(t) ==
  /\ pc[t] = "return"
  /\ returned' = returned \cup
       {[call |-> Cardinality(returned) + 1, stamp |-> last]}
  /\ pc' = [pc EXCEPT ![t] = "idle"]
  /\ UNCHANGED <<clock, last, now, before, calls>>

\* All calls that the bound allows were made.
finished ==
  /\ calls = MaxCalls
  /\ \A t \in Threads : pc[t] = "idle"
  /\ UNCHANGED vars

Next ==
  \/ tick
  \/ \E t \in Threads : read_clock(t) \/ update(t) \/ return_last(t)
  \/ finished

Spec == Init /\ [][Next]_vars

-----------------------------------------------------------------------------
(* Properties. *)

\* A call that begins after another one has returned gets a higher stamp, on
\* whatever threads they run: a write ordered after another write or delete by
\* the program also wins in Cassandra.
LaterCallsLater ==
  [][\A t \in Threads :
       pc[t] = "return" /\ pc'[t] = "idle" => \A r \in before[t] : last > r.stamp]_vars

\* "Generates a monotonic strictly increasing timestamp": no two calls get the
\* same stamp.
StampsDistinct ==
  \A r, s \in returned : r.stamp = s.stamp => r = s
=============================================================================

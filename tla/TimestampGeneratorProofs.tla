---------------------- MODULE TimestampGeneratorProofs ----------------------
(* Stamps grow with the order of the calls, for any threads and any clock. *)
EXTENDS TimestampGenerator, TLAPS

\* What the proof needs of the types; the bounds of TypeOK play no part.
StampTypes ==
  /\ clock \in Nat /\ last \in Nat
  /\ pc \in [Threads -> {"idle", "lock", "return"}]
  /\ now \in [Threads -> Nat]
  /\ before \in [Threads -> SUBSET returned]

\* No call has returned more than the last stamp.
AtMostLast == \A r \in returned : r.stamp \in Nat /\ r.stamp <= last

\* A thread that left the critical section has raised the last stamp above all that was
\* returned before its call began; others may raise it further before it is read.
Raised == \A t \in Threads : pc[t] = "return" => \A r \in before[t] : r.stamp < last

Inv == StampTypes /\ AtMostLast /\ Raised

\* The invariant holds before the first call.
LEMMA InitInv == Init => Inv
BY DEF Init, Inv, StampTypes, AtMostLast, Raised

\* Reading the clock: the call remembers what was returned, and is not yet raised.
LEMMA ReadClockInv ==
  ASSUME Inv, NEW t \in Threads, read_clock(t)
  PROVE  Inv'
<1>1. StampTypes'
  BY DEF Inv, StampTypes, read_clock
<1>2. AtMostLast'
  BY DEF Inv, AtMostLast, read_clock
<1>3. Raised'
  <2> SUFFICES ASSUME NEW u \in Threads, pc'[u] = "return"
               PROVE  \A r \in before'[u] : r.stamp < last'
    BY DEF Raised
  <2>1. u # t /\ pc[u] = "return" /\ before'[u] = before[u]
    BY DEF Inv, StampTypes, read_clock
  <2> QED
    BY <2>1 DEF Inv, Raised, read_clock
<1> QED
  BY <1>1, <1>2, <1>3 DEF Inv

\* The critical section: the last stamp grows, whatever the clock said.
LEMMA UpdateInv ==
  ASSUME Inv, NEW t \in Threads, update(t)
  PROVE  Inv'
<1>1. last \in Nat /\ last' \in Nat /\ last < last'
  <2>1. last \in Nat /\ now[t] \in Nat
    BY DEF Inv, StampTypes
  <2> QED
    BY <2>1 DEF update
<1>2. StampTypes'
  BY <1>1 DEF Inv, StampTypes, update
<1>3. AtMostLast'
  BY <1>1 DEF Inv, AtMostLast, update
<1>4. Raised'
  <2> SUFFICES ASSUME NEW u \in Threads, NEW r \in before[u]
               PROVE  r.stamp < last'
    BY DEF Raised, update
  <2>1. r \in returned
    BY DEF Inv, StampTypes
  <2>2. r.stamp \in Nat /\ r.stamp <= last
    BY <2>1 DEF Inv, AtMostLast
  <2> QED
    BY <1>1, <2>2
<1> QED
  BY <1>2, <1>3, <1>4 DEF Inv

\* A call returns the last stamp, perhaps that of another call.
LEMMA ReturnInv ==
  ASSUME Inv, NEW t \in Threads, return_last(t)
  PROVE  Inv'
<1> DEFINE new == [call |-> Cardinality(returned) + 1, stamp |-> last]
<1>1. returned' = returned \cup {new} /\ last' = last /\ before' = before
  BY DEF return_last
<1>2. new.stamp = last
  OBVIOUS
<1>3. StampTypes'
  <2>1. before' \in [Threads -> SUBSET returned']
    BY <1>1 DEF Inv, StampTypes
  <2> QED
    BY <2>1 DEF Inv, StampTypes, return_last
<1> HIDE DEF new
<1>4. AtMostLast'
  BY <1>1, <1>2 DEF Inv, StampTypes, AtMostLast
<1>5. Raised'
  <2> SUFFICES ASSUME NEW u \in Threads, pc'[u] = "return"
               PROVE  \A r \in before[u] : r.stamp < last
    BY <1>1 DEF Raised
  <2>1. pc[u] = "return"
    BY DEF Inv, StampTypes, return_last
  <2> QED
    BY <2>1 DEF Inv, Raised
<1> QED
  BY <1>3, <1>4, <1>5 DEF Inv

\* Every step preserves the invariant.
LEMMA NextInv == Inv /\ [Next]_vars => Inv'
<1> SUFFICES ASSUME Inv, [Next]_vars PROVE Inv'
  OBVIOUS
<1>1. CASE tick
  <2>1. StampTypes'
    BY <1>1 DEF Inv, StampTypes, tick
  <2> QED
    BY <1>1, <2>1 DEF Inv, AtMostLast, Raised, tick
<1>2. ASSUME NEW t \in Threads, read_clock(t) PROVE Inv'
  BY <1>2, ReadClockInv
<1>3. ASSUME NEW t \in Threads, update(t) PROVE Inv'
  BY <1>3, UpdateInv
<1>4. ASSUME NEW t \in Threads, return_last(t) PROVE Inv'
  BY <1>4, ReturnInv
<1>5. CASE UNCHANGED vars
  BY <1>5 DEF Inv, StampTypes, AtMostLast, Raised, vars
<1> QED
  BY <1>1, <1>2, <1>3, <1>4, <1>5 DEF Next, finished

\* TimestampGenerator::next, on any number of threads and whatever the clock does: a call
\* that begins after another one has returned gets a higher stamp.
THEOREM LaterTheorem == Spec => LaterCallsLater
<1>1. Inv => \A t \in Threads :
        pc[t] = "return" /\ pc'[t] = "idle" => \A r \in before[t] : last > r.stamp
  <2> SUFFICES ASSUME Inv, NEW t \in Threads, pc[t] = "return", NEW r \in before[t]
               PROVE  last > r.stamp
    OBVIOUS
  <2>1. r \in returned /\ r.stamp < last
    BY DEF Inv, StampTypes, Raised
  <2>2. r.stamp \in Nat /\ last \in Nat
    BY <2>1 DEF Inv, StampTypes, AtMostLast
  <2> QED
    BY <2>1, <2>2
<1>2. Spec => []Inv
  BY InitInv, NextInv, PTL DEF Spec
<1> QED
  BY <1>1, <1>2, PTL DEF LaterCallsLater
=============================================================================

--------------------------- MODULE PrefetchProofs ---------------------------
(***************************************************************************)
(* Theorems about Prefetch, for any token ranges, any capacity of the      *)
(* queue and any MAX_TRIES, wherever the destructor finds the worker.      *)
(***************************************************************************)
EXTENDS Prefetch, TLAPS

USE PrefetchAssumption

-----------------------------------------------------------------------------
(* The inductive invariant. *)

\* The worker is on its way out of consume_tokens.
Stopping == worker \in {"complete", "abort", "done"}

\* The destructor is running.
Destroying == consumer \in {"abort", "join", "drain", "gone"}

\* Where the worker stands in the result: between two ranges, within one, or out of it,
\* for a reason that the consumer can see.
Position ==
  /\ worker \in {"range", "result"} => next - 1 = RowsUpTo(range - 1)
  /\ worker \in {"result", "row", "push", "blocked"} => range <= Len(RangeEnds)
  /\ worker \in {"row", "push", "blocked"} => next - 1 + rows = RowsUpTo(range)
  /\ worker \in {"push", "blocked"} => rows > 0
  /\ worker = "result" => tries <= MaxTries
  /\ Stopping => truncated \/ capacity = 0 \/ next - 1 = Total

\* What each thread knows of the other: why a blocked push or pop was woken, and that the
\* end was reported only after the worker had stopped and the queue was empty.
Handshake ==
  /\ capacity = 0 <=> Destroying
  /\ completed <=> worker \in {"abort", "done"}
  /\ pushAborted => capacity = 0 \/ worker = "done"
  /\ popAborted /\ consumer = "pop" => worker = "done"
  /\ consumer = "end" => completed /\ data = <<>>
  /\ consumer = "join" => completed
  /\ consumer \in {"drain", "gone"} => worker = "done"

\* Where the rows are: returned, queued, or deleted by the handler of push's exception.
Placed ==
  /\ \A i \in 1..Len(delivered) : delivered[i] = i
  /\ consumer # "gone" =>
       /\ \A i \in 1..Len(data) : data[i] = Len(delivered) + i
       /\ \/ freed = {} /\ Len(delivered) + Len(data) = next - 1
          \/ /\ freed = {next - 1} /\ Len(delivered) + Len(data) = next - 2
             /\ Stopping /\ capacity = 0
  /\ consumer = "gone" =>
       /\ data = <<>>
       /\ freed = (Len(delivered) + 1)..(next - 1)
       /\ Len(delivered) <= next - 1

PInv == TypeOK /\ Position /\ Handshake /\ Placed

\* Row counts grow from range to range.
LEMMA RowsUpToType ==
  /\ \A n \in 0..Len(RangeEnds) : RowsUpTo(n) \in Nat
  /\ \A n \in 1..Len(RangeEnds) : RowsUpTo(n - 1) <= RowsUpTo(n)
  /\ Len(RangeEnds) \in Nat /\ Total \in Nat
<1>1. /\ RangeEnds \in Seq(Nat) /\ Len(RangeEnds) \in Nat
      /\ \A n \in 1..Len(RangeEnds) : RangeEnds[n] \in Nat
  OBVIOUS
<1>2. \A n \in 0..Len(RangeEnds) : RowsUpTo(n) \in Nat
  BY <1>1 DEF RowsUpTo
<1>3. ASSUME NEW n \in 1..Len(RangeEnds) PROVE RowsUpTo(n - 1) <= RowsUpTo(n)
  <2>1. CASE n = 1
    BY <1>1, <2>1 DEF RowsUpTo
  <2>2. CASE n # 1
    <3>1. n \in 2..Len(RangeEnds) /\ n - 1 # 0 /\ n # 0
      BY <2>2
    <3> QED
      BY <3>1 DEF RowsUpTo
  <2> QED
    BY <2>1, <2>2
<1> QED
  BY <1>1, <1>2, <1>3 DEF Total

\* An interval and the number that follows it.
LEMMA IntervalExtends ==
  ASSUME NEW a \in Nat, NEW b \in Nat, a <= b
  PROVE  ((a + 1)..b) \cup {b + 1} = (a + 1)..(b + 1)
OBVIOUS

\* Nothing has been read at first.
LEMMA InitPInv == Init => PInv
<1> SUFFICES ASSUME Init PROVE PInv
  OBVIOUS
<1>1. TypeOK
  <2>1. data \in Seq(Nat) /\ delivered \in Seq(Nat)
    BY DEF Init
  <2>2. range \in 1..(Len(RangeEnds) + 1) /\ tries \in 0..(MaxTries + 1)
    BY RowsUpToType DEF Init
  <2> QED
    BY <2>1, <2>2 DEF Init, TypeOK
<1>2. Position
  BY DEF Init, Position, Stopping, RowsUpTo
<1>3. Handshake
  BY DEF Init, Handshake, Destroying
<1>4. Placed
  <2>1. Len(data) = 0 /\ Len(delivered) = 0 /\ freed = {} /\ next = 1 /\ consumer = "idle"
    BY DEF Init
  <2> QED
    BY <2>1 DEF Placed
<1> QED
  BY <1>1, <1>2, <1>3, <1>4 DEF PInv

\* The steps of the worker.
LEMMA WorkerPInv ==
  ASSUME PInv, workerStep
  PROVE  PInv'
<1> USE DEF PInv
<1>1. CASE next_range
  <2>1. TypeOK' /\ Handshake' /\ Placed'
    BY <1>1 DEF next_range, TypeOK, Handshake, Placed, Stopping, Destroying, consumerVars
  <2>2. Position'
    BY <1>1, RowsUpToType DEF next_range, TypeOK, Position, Stopping, Total
  <2> QED
    BY <2>1, <2>2
<1>2. CASE result_stopped
  <2>1. TypeOK' /\ Handshake' /\ Placed'
    BY <1>2 DEF result_stopped, TypeOK, Handshake, Placed, Stopping, Destroying, consumerVars
  <2>2. Position'
    BY <1>2 DEF result_stopped, TypeOK, Position, Stopping
  <2> QED
    BY <2>1, <2>2
<1>3. CASE result_error
  <2>1. tries' \in 0..(MaxTries + 1) /\ (tries' > MaxTries \/ tries' <= MaxTries) /\ tries' = tries + 1
    BY <1>3 DEF result_error, TypeOK, Position
  <2>2. TypeOK' /\ Handshake'
    BY <1>3, <2>1 DEF result_error, TypeOK, Handshake, Destroying, consumerVars
  <2>3. Placed'
    BY <1>3 DEF result_error, Placed, Stopping, consumerVars
  <2>4. Position'
    BY <1>3, <2>1 DEF result_error, Position, Stopping
  <2> QED
    BY <2>2, <2>3, <2>4
<1>4. CASE result_ok
  <2>1. range \in 1..Len(RangeEnds) /\ next - 1 = RowsUpTo(range - 1)
    BY <1>4 DEF result_ok, TypeOK, Position
  <2>2. /\ RowsUpTo(range) \in Nat /\ RowsUpTo(range - 1) \in Nat
        /\ RowsUpTo(range - 1) <= RowsUpTo(range)
    <3>1. range - 1 \in 0..Len(RangeEnds) /\ range \in 0..Len(RangeEnds)
      BY <2>1, RowsUpToType
    <3> QED
      BY <2>1, <3>1, RowsUpToType
  <2>3. rows' = RowsUpTo(range) - RowsUpTo(range - 1) /\ rows' \in Nat
    BY <1>4, <2>2 DEF result_ok
  <2>4. TypeOK' /\ Handshake' /\ Placed'
    BY <1>4, <2>3 DEF result_ok, TypeOK, Handshake, Placed, Stopping, Destroying, consumerVars
  <2>5. Position'
    <3>1. next - 1 + rows' = RowsUpTo(range)
      BY <2>1, <2>2, <2>3 DEF TypeOK
    <3> QED
      BY <1>4, <2>1, <3>1 DEF result_ok, Position, Stopping
  <2> QED
    BY <2>4, <2>5
<1>10. CASE next_row
  <2>1. /\ range \in 1..Len(RangeEnds) /\ Len(RangeEnds) \in Nat
        /\ next - 1 + rows = RowsUpTo(range) /\ next \in Nat /\ rows \in Nat
    BY <1>10, RowsUpToType DEF next_row, TypeOK, Position
  <2>2. CASE rows = 0
    <3>1. range' = range + 1 /\ worker' = "range" /\ range' \in 1..(Len(RangeEnds) + 1)
      BY <1>10, <2>1, <2>2 DEF next_row
    <3>2. TypeOK' /\ Handshake' /\ Placed'
      BY <1>10, <3>1 DEF next_row, TypeOK, Handshake, Placed, Stopping, Destroying, consumerVars
    <3>3. range' - 1 = range /\ next - 1 = RowsUpTo(range)
      BY <2>1, <2>2, <3>1
    <3> QED
      BY <1>10, <3>1, <3>2, <3>3 DEF next_row, Position, Stopping
  <2>3. CASE rows > 0
    <3>1. range' = range /\ worker' = IF capacity = 0 THEN "complete" ELSE "push"
      BY <1>10, <2>3 DEF next_row
    <3>2. TypeOK' /\ Handshake' /\ Placed'
      BY <1>10, <3>1 DEF next_row, TypeOK, Handshake, Placed, Stopping, Destroying, consumerVars
    <3> QED
      BY <1>10, <2>1, <2>3, <3>1, <3>2 DEF next_row, Position, Stopping
  <2> QED
    BY <2>1, <2>2, <2>3
<1>5. CASE enter_push
  BY <1>5 DEF enter_push, TypeOK, Position, Handshake, Placed, Stopping, Destroying, consumerVars
<1>6. CASE push
  <2>1. TypeOK' /\ Handshake'
    BY <1>6 DEF push, TypeOK, Position, Handshake, Destroying, consumerVars
  <2>2. Position'
    BY <1>6, RowsUpToType DEF push, TypeOK, Position, Stopping
  <2>3. Placed'
    <3>1. /\ data' = Append(data, next) /\ next' = next + 1 /\ data \in Seq(Nat) /\ next \in Nat
          /\ UNCHANGED <<consumer, delivered, freed>> /\ ~Stopping /\ consumer # "gone"
          /\ delivered \in Seq(Nat)
      BY <1>6 DEF push, TypeOK, Handshake, Stopping, consumerVars
    <3>2. Len(delivered) + Len(data) = next - 1 /\ freed = {}
      BY <3>1 DEF Placed
    <3>3. \A i \in 1..Len(data') : data'[i] = Len(delivered) + i
      <4>1. /\ Len(data') = Len(data) + 1 /\ Len(data) \in Nat /\ Len(delivered) \in Nat
            /\ \A i \in 1..Len(data) : data'[i] = data[i]
            /\ data'[Len(data) + 1] = next
        BY <3>1
      <4>2. \A i \in 1..Len(data) : data[i] = Len(delivered) + i
        BY <3>1 DEF Placed
      <4> QED
        <5> SUFFICES ASSUME NEW i \in 1..Len(data') PROVE data'[i] = Len(delivered) + i
          OBVIOUS
        <5>1. i \in 1..Len(data) \/ i = Len(data) + 1
          BY <4>1
        <5>2. next = Len(delivered) + (Len(data) + 1)
          BY <3>1, <3>2, <4>1
        <5> QED
          BY <4>1, <4>2, <5>1, <5>2
    <3>4. Len(delivered') + Len(data') = next' - 1
      BY <3>1, <3>2
    <3> QED
      BY <3>1, <3>2, <3>3, <3>4 DEF Placed
  <2> QED
    BY <2>1, <2>2, <2>3
<1>7. CASE push_throws
  <2>1. TypeOK' /\ Handshake'
    BY <1>7 DEF push_throws, TypeOK, Position, Handshake, Destroying, consumerVars
  <2>2. Position'
    BY <1>7 DEF push_throws, TypeOK, Position, Handshake, Stopping
  <2>3. Placed'
    <3>1. capacity = 0 /\ consumer # "gone" /\ ~Stopping /\ next \in Nat
      BY <1>7 DEF push_throws, Handshake, Stopping, TypeOK
    <3>2. /\ freed' = freed \cup {next} /\ next' = next + 1 /\ worker' = "complete"
          /\ UNCHANGED <<data, consumer, delivered, capacity>>
      BY <1>7 DEF push_throws, consumerVars
    <3>3. freed = {} /\ Len(delivered) + Len(data) = next - 1
      BY <3>1 DEF Placed
    <3>4. freed' = {next' - 1} /\ next' - 2 = next - 1
      BY <3>1, <3>2, <3>3
    <3> QED
      BY <3>1, <3>2, <3>3, <3>4 DEF Placed, Stopping
  <2> QED
    BY <2>1, <2>2, <2>3
<1>8. CASE complete
  BY <1>8 DEF complete, TypeOK, Position, Handshake, Placed, Stopping, Destroying, consumerVars
<1>9. CASE complete_abort
  BY <1>9 DEF complete_abort, abort, TypeOK, Position, Handshake, Placed, Stopping, Destroying, consumerVars
<1> QED
  BY <1>1, <1>2, <1>3, <1>4, <1>5, <1>6, <1>7, <1>8, <1>9, <1>10 DEF workerStep

\* The steps of the consumer.
LEMMA ConsumerPInv ==
  ASSUME PInv, get_cnext \/ popStep \/ destroy \/ destroyStep
  PROVE  PInv'
<1> USE DEF PInv
<1>0. ASSUME UNCHANGED workerVars, UNCHANGED truncated, capacity' = capacity \/ capacity' = 0
      PROVE  Position'
  BY <1>0 DEF Position, Stopping, workerVars
<1>1. CASE get_cnext
  BY <1>0, <1>1 DEF get_cnext, TypeOK, Handshake, Placed, Stopping, Destroying, workerVars
<1>2. CASE enter_pop
  BY <1>0, <1>2 DEF enter_pop, TypeOK, Handshake, Placed, Stopping, Destroying, workerVars
<1>3. CASE pop
  <2>1. TypeOK' /\ Handshake' /\ Position'
    BY <1>0, <1>3 DEF pop, TypeOK, Handshake, Destroying, workerVars
  <2>2. /\ data \in Seq(Nat) /\ data # <<>> /\ delivered \in Seq(Nat)
        /\ delivered' = Append(delivered, Head(data)) /\ data' = Tail(data)
        /\ UNCHANGED <<next, freed, worker, capacity>> /\ consumer # "gone" /\ consumer' # "gone"
    BY <1>3 DEF pop, TypeOK, workerVars
  <2>3. /\ Len(data) \in Nat \ {0} /\ Len(data') = Len(data) - 1
        /\ Len(delivered) \in Nat /\ Len(delivered') = Len(delivered) + 1
        /\ Head(data) = data[1] /\ \A i \in 1..Len(data') : data'[i] = data[i + 1]
    BY <2>2
  <2>4. /\ \A i \in 1..Len(delivered) : delivered'[i] = delivered[i]
        /\ delivered'[Len(delivered) + 1] = data[1]
    BY <2>2, <2>3
  <2>5. \A i \in 1..Len(delivered') : delivered'[i] = i
    BY <2>2, <2>3, <2>4 DEF Placed
  <2>6. \A i \in 1..Len(data') : data'[i] = Len(delivered') + i
    BY <2>2, <2>3 DEF Placed
  <2>7. Len(delivered') + Len(data') = Len(delivered) + Len(data)
    BY <2>3
  <2>8. Placed'
    BY <2>2, <2>5, <2>6, <2>7 DEF Placed, Stopping
  <2> QED
    BY <2>1, <2>8
<1>4. CASE pop_throws
  BY <1>0, <1>4 DEF pop_throws, TypeOK, Handshake, Placed, Stopping, Destroying, workerVars
<1>5. CASE destroy
  BY <1>0, <1>5 DEF destroy, TypeOK, Handshake, Placed, Stopping, Destroying, workerVars
<1>6. CASE destroy_abort
  BY <1>0, <1>6 DEF destroy_abort, abort, TypeOK, Handshake, Placed, Stopping, Destroying, workerVars
<1>7. CASE join
  BY <1>0, <1>7 DEF join, TypeOK, Handshake, Placed, Stopping, Destroying, workerVars
<1>8. CASE drain
  <2>1. /\ freed' = freed \cup {data[i] : i \in DOMAIN data} /\ data' = <<>>
        /\ consumer = "drain" /\ consumer' = "gone"
        /\ UNCHANGED <<delivered, next>>
        /\ data \in Seq(Nat) /\ next \in Nat /\ delivered \in Seq(Nat)
    BY <1>8 DEF drain, TypeOK, workerVars
  <2>2. {data[i] : i \in DOMAIN data} = (Len(delivered) + 1)..(Len(delivered) + Len(data))
    <3>1. DOMAIN data = 1..Len(data) /\ Len(data) \in Nat /\ Len(delivered) \in Nat
      BY <2>1
    <3>2. \A i \in 1..Len(data) : data[i] = Len(delivered) + i
      BY <2>1 DEF Placed
    <3>3. \A x \in (Len(delivered) + 1)..(Len(delivered) + Len(data)) :
            x - Len(delivered) \in 1..Len(data) /\ data[x - Len(delivered)] = x
      BY <3>1, <3>2
    <3>4. {data[i] : i \in DOMAIN data} \subseteq (Len(delivered) + 1)..(Len(delivered) + Len(data))
      BY <3>1, <3>2
    <3>5. \A x \in (Len(delivered) + 1)..(Len(delivered) + Len(data)) : x \in {data[i] : i \in DOMAIN data}
      BY <3>1, <3>3
    <3> QED
      BY <3>4, <3>5
  <2>3. /\ freed' = (Len(delivered) + 1)..(next - 1)
        /\ Len(delivered) <= next - 1
    <3>1. Len(data) \in Nat /\ Len(delivered) \in Nat
      BY <2>1
    <3>2. CASE freed = {} /\ Len(delivered) + Len(data) = next - 1
      <4>1. freed' = (Len(delivered) + 1)..(next - 1)
        BY <2>1, <2>2, <3>2
      <4>2. Len(delivered) <= next - 1
        BY <3>1, <3>2
      <4> QED
        BY <4>1, <4>2
    <3>3. CASE freed = {next - 1} /\ Len(delivered) + Len(data) = next - 2
      <4>1. Len(delivered) <= next - 2 /\ next - 2 \in Nat /\ (next - 2) + 1 = next - 1
        BY <2>1, <3>1, <3>3
      <4>2. freed' = ((Len(delivered) + 1)..(next - 2)) \cup {(next - 2) + 1}
        BY <2>1, <2>2, <3>3, <4>1
      <4>3. ((Len(delivered) + 1)..(next - 2)) \cup {(next - 2) + 1}
              = (Len(delivered) + 1)..((next - 2) + 1)
        BY <3>1, <4>1, IntervalExtends
      <4>4. Len(delivered) <= next - 1
        BY <3>1, <4>1
      <4> QED
        BY <4>1, <4>2, <4>3, <4>4
    <3> QED
      BY <2>1, <3>2, <3>3 DEF Placed
  <2>4. Placed'
    BY <2>1, <2>3 DEF Placed
  <2>5. TypeOK' /\ Handshake' /\ Position'
    BY <1>0, <1>8, <2>3 DEF drain, TypeOK, Handshake, Destroying, workerVars
  <2> QED
    BY <2>4, <2>5
<1> QED
  BY <1>1, <1>2, <1>3, <1>4, <1>5, <1>6, <1>7, <1>8 DEF popStep, destroyStep

\* Every state of Prefetch satisfies the inductive invariant.
THEOREM PrefetchInvariance == Spec => []PInv
<1>1. PInv /\ [Next]_vars => PInv'
  <2> SUFFICES ASSUME PInv, [Next]_vars PROVE PInv'
    OBVIOUS
  <2>1. CASE UNCHANGED vars
    BY <2>1 DEF PInv, TypeOK, Position, Handshake, Placed, Stopping, Destroying, vars,
         workerVars, consumerVars
  <2> QED
    BY <2>1, WorkerPInv, ConsumerPInv DEF Next, terminated
<1> QED
  BY InitPInv, <1>1, PTL DEF Spec

-----------------------------------------------------------------------------
(* What follows for the caller. *)

\* The rows that get_cnext has returned, then those in the queue, are the first rows of
\* the result in order: none is lost, repeated or overtaken before the destructor.
THEOREM OrderTheorem == Spec => []InOrder
<1>1. PInv => InOrder
  <2> SUFFICES ASSUME PInv, consumer # "gone"
               PROVE  /\ \A i \in DOMAIN (delivered \o data) : (delivered \o data)[i] = i
                      /\ Len(delivered \o data) + (IF freed = {} THEN 0 ELSE 1) = next - 1
    BY DEF InOrder
  <2>1. delivered \in Seq(Nat) /\ data \in Seq(Nat) /\ next \in Nat
    BY DEF PInv, TypeOK
  <2>2. /\ Len(delivered) \in Nat /\ Len(data) \in Nat
        /\ Len(delivered \o data) = Len(delivered) + Len(data)
        /\ DOMAIN (delivered \o data) = 1..(Len(delivered) + Len(data))
    BY <2>1
  <2>3. ASSUME NEW i \in 1..(Len(delivered) + Len(data)) PROVE (delivered \o data)[i] = i
    <3>1. CASE i <= Len(delivered)
      <4>1. (delivered \o data)[i] = delivered[i] /\ i \in 1..Len(delivered)
        BY <2>1, <2>2, <3>1
      <4> QED
        BY <4>1 DEF PInv, Placed
    <3>2. CASE ~(i <= Len(delivered))
      <4>1. (delivered \o data)[i] = data[i - Len(delivered)]
        BY <2>1, <2>2, <3>2
      <4>2. i - Len(delivered) \in 1..Len(data) /\ Len(delivered) + (i - Len(delivered)) = i
        BY <2>2, <3>2
      <4> QED
        BY <4>1, <4>2 DEF PInv, Placed
    <3> QED
      BY <3>1, <3>2
  <2>4. Len(delivered) + Len(data) + (IF freed = {} THEN 0 ELSE 1) = next - 1
    <3>1. CASE freed = {} /\ Len(delivered) + Len(data) = next - 1
      BY <2>2, <3>1
    <3>2. CASE freed = {next - 1} /\ Len(delivered) + Len(data) = next - 2
      BY <2>1, <2>2, <3>2
    <3> QED
      BY <3>1, <3>2 DEF PInv, Placed
  <2> QED
    BY <2>2, <2>3, <2>4
<1> QED
  BY <1>1, PrefetchInvariance, PTL

\* get_cnext returns NULL only when every row of every range has been returned, unless a
\* query failed MAX_TRIES times.
THEOREM EndTheorem == Spec => []NoEarlyEnd
<1>1. PInv => NoEarlyEnd
  <2> SUFFICES ASSUME PInv, consumer = "end", ~truncated PROVE Len(delivered) = Total
    BY DEF NoEarlyEnd
  <2>1. completed /\ data = <<>> /\ capacity # 0 /\ Stopping
    BY DEF PInv, Handshake, Destroying, Stopping
  <2>2. next - 1 = Total
    BY <2>1 DEF PInv, Position
  <2>3. Len(delivered) + Len(data) = next - 1
    BY <2>1 DEF PInv, Placed
  <2>4. Len(data) = 0 /\ Len(delivered) \in Nat
    BY <2>1 DEF PInv, TypeOK
  <2> QED
    BY <2>2, <2>3, <2>4
<1> QED
  BY <1>1, PrefetchInvariance, PTL

\* After the destructor the worker is over, and each row that it built was either handed
\* to the consumer or deleted, never both.
THEOREM LeakTheorem == Spec => []NoRowLeaked
<1>1. PInv => NoRowLeaked
  <2> SUFFICES ASSUME PInv, consumer = "gone"
               PROVE  LET got == {delivered[i] : i \in DOMAIN delivered}
                      IN  /\ worker = "done" /\ data = <<>>
                          /\ freed \cap got = {}
                          /\ freed \cup got = 1..(next - 1)
    BY DEF NoRowLeaked
  <2>1. delivered \in Seq(Nat) /\ Len(delivered) \in Nat /\ next \in Nat
    BY DEF PInv, TypeOK
  <2>2. {delivered[i] : i \in DOMAIN delivered} = 1..Len(delivered)
    <3>1. DOMAIN delivered = 1..Len(delivered) /\ \A i \in 1..Len(delivered) : delivered[i] = i
      BY <2>1 DEF PInv, Placed
    <3> QED
      BY <3>1
  <2>3. /\ worker = "done" /\ data = <<>> /\ freed = (Len(delivered) + 1)..(next - 1)
        /\ Len(delivered) <= next - 1
    BY DEF PInv, Handshake, Placed
  <2>4. ((Len(delivered) + 1)..(next - 1)) \cap (1..Len(delivered)) = {}
    BY <2>1
  <2>5. ((Len(delivered) + 1)..(next - 1)) \cup (1..Len(delivered)) = 1..(next - 1)
    BY <2>1, <2>3
  <2> QED
    BY <2>2, <2>3, <2>4, <2>5
<1> QED
  BY <1>1, PrefetchInvariance, PTL

=============================================================================

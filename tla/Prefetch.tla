------------------------------ MODULE Prefetch ------------------------------
(***************************************************************************)
(* Prefetch (hecuba_core): a worker thread reads the rows of a list of     *)
(* token ranges into a bounded queue; the consumer takes them with         *)
(* get_cnext, which returns NULL at the end, and may destroy the Prefetch  *)
(* at any point of the iteration.                                          *)
(*                                                                         *)
(* A row is named by its position in the result of all ranges together.    *)
(*                                                                         *)
(* tbb::concurrent_bounded_queue (external): push and pop block while the  *)
(* queue is full or empty; abort() makes every push and pop in progress    *)
(* that still blocks throw, and has no effect on later calls; data.pop     *)
(* takes an available item even if abort() was called.                     *)
(***************************************************************************)
EXTENDS Integers, Sequences

CONSTANTS
  RangeEnds,     \* per token range, in order: the position of its last row
  PrefetchSize,  \* prefetch_size: capacity of the queue 'data'
  MaxTries,      \* MAX_TRIES
  ReadsFail      \* whether Cassandra may fail to answer a query

ASSUME PrefetchAssumption ==
  /\ RangeEnds \in Seq(Nat)
  /\ \A i \in 2..Len(RangeEnds) : RangeEnds[i - 1] <= RangeEnds[i]
  /\ PrefetchSize \in Nat \ {0}
  /\ MaxTries \in Nat
  /\ ReadsFail \in BOOLEAN

VARIABLES
  data,          \* the queue of fetched rows
  capacity,      \* its capacity
  completed,     \* Prefetch::completed
  worker,        \* program counter of consume_tokens
  range,         \* index of the token range being read
  rows,          \* rows of that range not yet taken from the result iterator
  tries,         \* failed attempts to get its result
  next,          \* position of the next row of the result
  pushAborted,   \* abort() was called since data.push was entered
  consumer,      \* program counter of the consumer thread
  popAborted,    \* abort() was called since data.pop was entered
  delivered,     \* history: the rows that get_cnext returned
  freed,         \* history: the rows deleted without being returned
  truncated      \* history: a query failed for good

workerVars == <<worker, range, rows, tries, next>>
consumerVars == <<consumer, delivered>>
vars == <<data, capacity, completed, workerVars, pushAborted, consumerVars,
          popAborted, freed, truncated>>

\* The number of rows in the first n ranges, and in all ranges.
RowsUpTo(n) == IF n = 0 THEN 0 ELSE RangeEnds[n]
Total == RowsUpTo(Len(RangeEnds))

TypeOK ==
  /\ data \in Seq(Nat)
  /\ capacity \in {0, PrefetchSize}
  /\ completed \in BOOLEAN
  /\ worker \in {"range", "result", "row", "push", "blocked", "complete", "abort", "done"}
  /\ range \in 1..(Len(RangeEnds) + 1)
  /\ rows \in Nat
  /\ tries \in 0..(MaxTries + 1)
  /\ next \in Nat
  /\ pushAborted \in BOOLEAN
  /\ consumer \in {"idle", "enter", "pop", "end", "abort", "join", "drain", "gone"}
  /\ popAborted \in BOOLEAN
  /\ delivered \in Seq(Nat)
  /\ freed \in SUBSET Nat
  /\ truncated \in BOOLEAN

Init ==
  /\ data = <<>>
  /\ capacity = PrefetchSize
  /\ completed = FALSE
  /\ worker = "range"
  /\ range = 1
  /\ rows = 0
  /\ tries = 0
  /\ next = 1
  /\ pushAborted = FALSE
  /\ consumer = "idle"
  /\ popAborted = FALSE
  /\ delivered = <<>>
  /\ freed = {}
  /\ truncated = FALSE

\* data.abort(): wakes the calls in progress.
abort ==
  /\ pushAborted' = TRUE
  /\ popAborted' = TRUE

-----------------------------------------------------------------------------
(* Plausible bugs: faulty versions of definitions below, not part of the    *)
(* specification.                                                          *)

\* The loop over the ranges stops one range too early.
next_range_stops_early ==
  /\ worker = "range"
  /\ tries' = 0
  /\ IF capacity = 0 \/ range >= Len(RangeEnds)
     THEN worker' = "complete"
     ELSE worker' = "result"
  /\ UNCHANGED <<data, capacity, completed, range, rows, next, pushAborted,
                 popAborted, consumerVars, freed, truncated>>

\* data.try_push, whose result nobody looks at.
push_unchecked ==
  /\ worker = "blocked"
  /\ data' = IF Len(data) < capacity THEN Append(data, next) ELSE data
  /\ next' = next + 1
  /\ rows' = rows - 1
  /\ worker' = "row"
  /\ UNCHANGED <<capacity, completed, range, tries, pushAborted, popAborted,
                 consumerVars, freed, truncated>>

\* The handler of push's exception does not delete the row.
push_throws_leaks ==
  /\ worker = "blocked"
  /\ Len(data) >= capacity
  /\ pushAborted
  /\ next' = next + 1
  /\ rows' = rows - 1
  /\ worker' = "complete"
  /\ UNCHANGED <<data, capacity, completed, range, tries, pushAborted, popAborted,
                 consumerVars, freed, truncated>>

\* get_cnext ends the iteration once the worker has completed, rows queued or not.
get_cnext_ends_early ==
  /\ consumer = "idle"
  /\ consumer' = IF completed THEN "end" ELSE "enter"
  /\ UNCHANGED <<data, capacity, completed, workerVars, pushAborted, popAborted,
                 delivered, freed, truncated>>

\* ~Prefetch calls abort() once instead of until the worker has completed.
destroy_abort_once ==
  /\ consumer = "abort"
  /\ consumer' = "join"
  /\ \/ completed /\ UNCHANGED <<pushAborted, popAborted>>
     \/ ~completed /\ abort
  /\ UNCHANGED <<data, capacity, completed, workerVars, delivered, freed, truncated>>

-----------------------------------------------------------------------------
(* consume_tokens, on the worker thread. *)

\* Head of the loop over the token ranges: stop if the queue was shrunk or no
\* range is left, else send the query.
next_range ==
  /\ worker = "range"
  /\ tries' = 0
  /\ IF capacity = 0 \/ range > Len(RangeEnds)
     THEN worker' = "complete"
     ELSE worker' = "result"
  /\ UNCHANGED <<data, capacity, completed, range, rows, next, pushAborted,
                 popAborted, consumerVars, freed, truncated>>

\* The wait for the result gives up if the queue was shrunk.
result_stopped ==
  /\ worker = "result"
  /\ capacity = 0
  /\ worker' = "complete"
  /\ UNCHANGED <<data, capacity, completed, range, rows, tries, next, pushAborted,
                 popAborted, consumerVars, freed, truncated>>

\* A result arrives.  A future that failed keeps failing (tries > 0).
result_ok ==
  /\ worker = "result"
  /\ capacity # 0
  /\ tries = 0
  /\ rows' = RowsUpTo(range) - RowsUpTo(range - 1)
  /\ worker' = "row"
  /\ UNCHANGED <<data, capacity, completed, range, tries, next, pushAborted,
                 popAborted, consumerVars, freed, truncated>>

\* An error: the same future is read again, and after MAX_TRIES the worker stops.
result_error ==
  /\ worker = "result"
  /\ capacity # 0
  /\ ReadsFail
  /\ tries' = tries + 1
  /\ worker' = IF tries' > MaxTries THEN "complete" ELSE "result"
  /\ truncated' = (truncated \/ tries' > MaxTries)
  /\ UNCHANGED <<data, capacity, completed, range, rows, next, pushAborted,
                 popAborted, consumerVars, freed>>

\* cass_iterator_next, and the test of the capacity for a row it found.
next_row ==
  /\ worker = "row"
  /\ \/ /\ rows = 0
        /\ range' = range + 1
        /\ worker' = "range"
     \/ /\ rows > 0
        /\ worker' = IF capacity = 0 THEN "complete" ELSE "push"
        /\ UNCHANGED range
  /\ UNCHANGED <<data, capacity, completed, rows, tries, next, pushAborted,
                 popAborted, consumerVars, freed, truncated>>

\* data.push(t) is entered.
enter_push ==
  /\ worker = "push"
  /\ pushAborted' = FALSE
  /\ worker' = "blocked"
  /\ UNCHANGED <<data, capacity, completed, range, rows, tries, next, popAborted,
                 consumerVars, freed, truncated>>

\* There is room: the row is queued.
push ==
  /\ worker = "blocked"
  /\ Len(data) < capacity
  /\ data' = Append(data, next)
  /\ next' = next + 1
  /\ rows' = rows - 1
  /\ worker' = "row"
  /\ UNCHANGED <<capacity, completed, range, tries, pushAborted, popAborted,
                 consumerVars, freed, truncated>>

\* data.push throws: the row is deleted and the worker stops.
push_throws ==
  /\ worker = "blocked"
  /\ Len(data) >= capacity
  /\ pushAborted
  /\ freed' = freed \cup {next}
  /\ next' = next + 1
  /\ rows' = rows - 1
  /\ worker' = "complete"
  /\ UNCHANGED <<data, capacity, completed, range, tries, pushAborted, popAborted,
                 consumerVars, truncated>>

\* Every exit of consume_tokens: completed = true, then data.abort().
complete ==
  /\ worker = "complete"
  /\ completed' = TRUE
  /\ worker' = "abort"
  /\ UNCHANGED <<data, capacity, range, rows, tries, next, pushAborted, popAborted,
                 consumerVars, freed, truncated>>

complete_abort ==
  /\ worker = "abort"
  /\ abort
  /\ worker' = "done"
  /\ UNCHANGED <<data, capacity, completed, range, rows, tries, next, consumerVars,
                 freed, truncated>>

-----------------------------------------------------------------------------
(* The consumer thread. *)

\* get_cnext: NULL if the worker has completed and the queue is empty.
get_cnext ==
  /\ consumer = "idle"
  /\ consumer' = IF completed /\ data = <<>> THEN "end" ELSE "enter"
  /\ UNCHANGED <<data, capacity, completed, workerVars, pushAborted, popAborted,
                 delivered, freed, truncated>>

\* data.pop(response) is entered.
enter_pop ==
  /\ consumer = "enter"
  /\ popAborted' = FALSE
  /\ consumer' = "pop"
  /\ UNCHANGED <<data, capacity, completed, workerVars, pushAborted, delivered,
                 freed, truncated>>

pop ==
  /\ consumer = "pop"
  /\ data # <<>>
  /\ delivered' = Append(delivered, Head(data))
  /\ data' = Tail(data)
  /\ consumer' = "idle"
  /\ UNCHANGED <<capacity, completed, workerVars, pushAborted, popAborted, freed,
                 truncated>>

\* data.pop throws on an empty queue: NULL.
pop_throws ==
  /\ consumer = "pop"
  /\ data = <<>>
  /\ popAborted
  /\ consumer' = "end"
  /\ UNCHANGED <<data, capacity, completed, workerVars, pushAborted, popAborted,
                 delivered, freed, truncated>>

\* ~Prefetch, after or in the middle of the iteration: set_capacity(0) ...
destroy ==
  /\ consumer \in {"idle", "end"}
  /\ capacity' = 0
  /\ consumer' = "abort"
  /\ UNCHANGED <<data, completed, workerVars, pushAborted, popAborted, delivered,
                 freed, truncated>>

\* ... while (!completed) data.abort() ...
destroy_abort ==
  /\ consumer = "abort"
  /\ \/ completed /\ consumer' = "join" /\ UNCHANGED <<pushAborted, popAborted>>
     \/ ~completed /\ abort /\ UNCHANGED consumer
  /\ UNCHANGED <<data, capacity, completed, workerVars, delivered, freed, truncated>>

\* ... join the worker ...
join ==
  /\ consumer = "join"
  /\ worker = "done"
  /\ consumer' = "drain"
  /\ UNCHANGED <<data, capacity, completed, workerVars, pushAborted, popAborted,
                 delivered, freed, truncated>>

\* ... and delete what is still queued.
drain ==
  /\ consumer = "drain"
  /\ freed' = freed \cup {data[i] : i \in DOMAIN data}
  /\ data' = <<>>
  /\ consumer' = "gone"
  /\ UNCHANGED <<capacity, completed, workerVars, pushAborted, popAborted,
                 delivered, truncated>>

-----------------------------------------------------------------------------
workerStep == \/ next_range \/ result_stopped \/ result_ok \/ result_error
              \/ next_row \/ enter_push \/ push \/ push_throws
              \/ complete \/ complete_abort
popStep == enter_pop \/ pop \/ pop_throws
destroyStep == destroy_abort \/ join \/ drain

terminated == consumer = "gone" /\ UNCHANGED vars

Next == workerStep \/ get_cnext \/ popStep \/ destroy \/ destroyStep \/ terminated

Spec == Init /\ [][Next]_vars

\* Both threads run; nobody is forced to ask for a row or to destroy the Prefetch.
FairSpec ==
  Spec /\ WF_vars(workerStep) /\ WF_vars(popStep) /\ WF_vars(destroyStep)

-----------------------------------------------------------------------------
(* Properties. *)

\* The rows returned so far, then those in the queue, are the first rows of the
\* result, in order: no row is lost, repeated or overtaken before the destructor.
InOrder ==
  consumer # "gone" =>
    LET seen == delivered \o data
    IN  /\ \A i \in DOMAIN seen : seen[i] = i
        /\ Len(seen) + (IF freed = {} THEN 0 ELSE 1) = next - 1

\* get_cnext returns NULL only when every row of every range has been returned,
\* unless a query failed MAX_TRIES times.
NoEarlyEnd == consumer = "end" /\ ~truncated => Len(delivered) = Total

\* After the destructor the worker is over, and each row it built was either
\* handed to the consumer or deleted, never both.
NoRowLeaked ==
  consumer = "gone" =>
    /\ worker = "done" /\ data = <<>>
    /\ freed \cap {delivered[i] : i \in DOMAIN delivered} = {}
    /\ freed \cup {delivered[i] : i \in DOMAIN delivered} = 1..(next - 1)

\* ~Prefetch terminates, wherever it finds the worker (also blocked in push).
DestructorTerminates == consumer = "abort" ~> consumer = "gone"

\* While rows are left and no query fails for good, get_cnext returns.
RowsDelivered ==
  consumer = "enter" /\ Len(delivered) < Total
    ~> consumer \in {"idle", "end"} \/ truncated

\* get_cnext returns: a row, or NULL at the end of the iteration.
GetNextReturns == consumer = "enter" ~> consumer \in {"idle", "end"}
=============================================================================

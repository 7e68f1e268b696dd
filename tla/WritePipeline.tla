---------------------------- MODULE WritePipeline ----------------------------
(***************************************************************************)
(* What hecuba_core's asynchronous write path promises to the code that    *)
(* calls a Writer: a write is outstanding from the call until it is        *)
(* acknowledged, Cassandra may store an outstanding write at any time and  *)
(* any number of times, a newer value of a row is never replaced by an     *)
(* older one, and only a stored write is acknowledged.                     *)
(*                                                                         *)
(* Threads, queues, semaphores, retries and late requests are the business *)
(* of WriterThread, which implements this specification.                   *)
(***************************************************************************)
EXTENDS Integers, FiniteSets

CONSTANTS
  Writers,       \* the Writer objects
  Keys           \* the row keys of each Writer's table

\* A write, numbered in the order in which its Writer was called.
Request == [writer : Writers, key : Keys, seq : Nat]

VARIABLES
  seq,           \* per Writer: number of writes so far
  last,          \* per row: number of the last write to it
  outstanding,   \* the writes not acknowledged yet
  stored         \* per row: number of the write Cassandra holds

vars == <<seq, last, outstanding, stored>>

TypeOK ==
  /\ seq \in [Writers -> Nat]
  /\ last \in [Writers -> [Keys -> Nat]]
  /\ outstanding \in SUBSET Request
  /\ stored \in [Writers -> [Keys -> Nat]]

Init ==
  /\ seq = [w \in Writers |-> 0]
  /\ last = [w \in Writers |-> [k \in Keys |-> 0]]
  /\ outstanding = {}
  /\ stored = [w \in Writers |-> [k \in Keys |-> 0]]

Write(w, k) ==
  /\ seq' = [seq EXCEPT ![w] = @ + 1]
  /\ last' = [last EXCEPT ![w][k] = seq[w] + 1]
  /\ outstanding' = outstanding \cup {[writer |-> w, key |-> k, seq |-> seq[w] + 1]}
  /\ UNCHANGED stored

Store(r) ==
  /\ r.seq > stored[r.writer][r.key]
  /\ stored' = [stored EXCEPT ![r.writer][r.key] = r.seq]
  /\ UNCHANGED <<seq, last, outstanding>>

Acknowledge(r) ==
  /\ stored[r.writer][r.key] >= r.seq
  /\ outstanding' = outstanding \ {r}
  /\ UNCHANGED <<seq, last, stored>>

Next ==
  \/ \E w \in Writers, k \in Keys : Write(w, k)
  \/ \E r \in outstanding : Store(r) \/ Acknowledge(r)

Spec == Init /\ [][Next]_vars

-----------------------------------------------------------------------------
\* What a caller of wait_writes_completion relies on: once nothing of a Writer
\* is outstanding, every row holds the last value written to it.
Durable ==
  \A w \in Writers :
    (\A r \in outstanding : r.writer # w) => \A k \in Keys : stored[w][k] = last[w][k]

\* Why it holds: the last write to a row is either stored or still outstanding, and nothing
\* is stored or outstanding that was not written before it.
LastPending ==
  \A w \in Writers, k \in Keys :
    /\ stored[w][k] <= last[w][k]
    /\ last[w][k] <= seq[w]
    /\ \/ stored[w][k] = last[w][k]
       \/ [writer |-> w, key |-> k, seq |-> last[w][k]] \in outstanding

OutstandingOld ==
  \A r \in outstanding : r.seq <= last[r.writer][r.key]

Inv == TypeOK /\ LastPending /\ OutstandingOld
=============================================================================

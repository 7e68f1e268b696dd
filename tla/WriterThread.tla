---------------------------- MODULE WriterThread ----------------------------
(***************************************************************************)
(* The asynchronous write path of hecuba_core: Writer::queue_async_query,  *)
(* Writer::wait_writes_completion, the WriterThread singleton with its     *)
(* bounded queue, its two semaphores and its working thread, the           *)
(* completion callback that the Cassandra driver runs on its own I/O       *)
(* threads, the retry of a failed request, and the destructors of Writer   *)
(* and WriterThread.                                                       *)
(*                                                                         *)
(* Actors: one client thread per Writer (a Writer is used by one thread),  *)
(* the working thread, the driver's I/O threads, Cassandra, and the main   *)
(* thread that destroys the singleton once the program ends.               *)
(*                                                                         *)
(* Data abstraction: every write stores a fresh value, named by the        *)
(* position of the write in its Writer's history (seq).  A Writer owns its *)
(* table, so rows are indexed by Writer and key.                           *)
(***************************************************************************)
EXTENDS Integers, Sequences, FiniteSets

CONSTANTS
  Writers,       \* the Writer objects, one client thread each
  Keys,          \* the row keys a client writes
  IOThreads,     \* the driver's I/O threads (cass_cluster_set_num_threads_io)
  Capacity,      \* writer_buffer: capacity of the queue 'data'
  MaxCallbacks,  \* writer_par: requests allowed in flight
  MaxErrors,     \* MAX_ERRORS
  Timestamped,   \* timestamped_writes: the statement carries the client's stamp
  NoReq,         \* no request
  MaxWrites,     \* bound: writes per Writer
  MaxFails       \* bound: requests that Cassandra fails

ASSUME ConstantsAssumption ==
  /\ Capacity \in Nat
  /\ MaxCallbacks \in Nat \ {0}
  /\ MaxErrors \in Nat
  /\ Timestamped \in BOOLEAN
  /\ MaxWrites \in Nat
  /\ MaxFails \in Nat

\* A queued write: 'seq' is the stamp that TimestampGenerator::next returned.
Request == [writer : Writers, key : Keys, seq : Nat]

ASSUME NoReqAssumption == NoReq \notin Request

VARIABLES
  seq,           \* per Writer: stamps handed out by its TimestampGenerator
  wcallbacks,    \* per Writer: Writer::ncallbacks
  client,        \* per Writer: program counter of the client thread
  pushing,       \* per Writer: the request the client thread is queueing
  last,          \* history: seq of the last write the client made to each row
  data,          \* WriterThread::data
  sempending,    \* counter of WriterThread::sempending_data
  semmax,        \* counter of WriterThread::semmaxcallbacks
  ncallbacks,    \* WriterThread::ncallbacks
  thread,        \* program counter of async_query_thread_code
  held,          \* the item the working thread has popped
  finish,        \* WriterThread::finish_async_query_thread
  driver,        \* futures the driver has not called back yet
  executed,      \* number of cass_session_execute calls so far
  io,            \* per I/O thread: progress of the callback it runs
  error_count,   \* WriterThread::error_count
  db,            \* the table in Cassandra: value and write time of each row
  late,          \* failed requests that Cassandra may still apply
  fails,         \* number of failed requests (bounds the environment)
  phase          \* life of the WriterThread singleton

clientVars == <<seq, client, pushing, last>>
threadVars == <<thread, held>>
driverVars == <<driver, executed>>
cassVars   == <<db, late, fails>>
vars == <<seq, wcallbacks, client, pushing, last, data, sempending, semmax,
          ncallbacks, thread, held, finish, driver, executed, io, error_count,
          db, late, fails, phase>>

\* A future: the request, the number of its execution, the I/O thread whose
\* event loop serves it, and what Cassandra answered.
Future == [req : Request, id : Nat, thr : IOThreads, st : {"sent", "ok", "err"}]

\* An I/O thread: the step of the callback it has reached, the request of that
\* callback, and the error_count it has read.
IOState == [pc : {"idle", "ok", "notify", "err", "count", "retry"},
            req : Request \cup {NoReq}, errs : Nat]

IOIdle == [pc |-> "idle", req |-> NoReq, errs |-> 0]

TypeOK ==
  /\ seq \in [Writers -> Nat]
  /\ wcallbacks \in [Writers -> Int]
  /\ client \in [Writers -> {"idle", "push", "signal", "wait", "destroy", "gone"}]
  /\ pushing \in [Writers -> Request \cup {NoReq}]
  /\ last \in [Writers -> [Keys -> Nat]]
  /\ data \in Seq(Request)
  /\ sempending \in Nat
  /\ semmax \in Nat
  /\ ncallbacks \in Int
  /\ thread \in {"check", "acquire", "call", "pop", "execute", "done"}
  /\ held \in Request \cup {NoReq}
  /\ finish \in BOOLEAN
  /\ driver \in SUBSET Future
  /\ executed \in Nat
  /\ io \in [IOThreads -> IOState]
  /\ error_count \in Nat
  /\ db \in [Writers -> [Keys -> [seq : Nat, stamp : Nat]]]
  /\ late \in SUBSET [req : Request, stamp : Nat]
  /\ fails \in Nat
  /\ phase \in {"run", "drain", "drained", "release", "join", "dead", "aborted"}

Init ==
  /\ seq = [w \in Writers |-> 0]
  /\ wcallbacks = [w \in Writers |-> 0]
  /\ client = [w \in Writers |-> "idle"]
  /\ pushing = [w \in Writers |-> NoReq]
  /\ last = [w \in Writers |-> [k \in Keys |-> 0]]
  /\ data = <<>>
  /\ sempending = 0
  /\ semmax = MaxCallbacks
  /\ ncallbacks = 0
  /\ thread = "check"
  /\ held = NoReq
  /\ finish = FALSE
  /\ driver = {}
  /\ executed = 0
  /\ io = [t \in IOThreads |-> IOIdle]
  /\ error_count = 0
  /\ db = [w \in Writers |-> [k \in Keys |-> [seq |-> 0, stamp |-> 0]]]
  /\ late = {}
  /\ fails = 0
  /\ phase = "run"

-----------------------------------------------------------------------------
(* Plausible bugs.  Each is a faulty version of a definition below; none is     *)
(* part of the specification.  They show that the properties can fail.         *)

\* queue_async_query forgets ncallbacks++.
queue_async_query_uncounted(w, k) ==
  /\ phase = "run"
  /\ client[w] = "idle"
  /\ seq[w] < MaxWrites
  /\ seq' = [seq EXCEPT ![w] = @ + 1]
  /\ pushing' = [pushing EXCEPT ![w] = [writer |-> w, key |-> k, seq |-> seq[w] + 1]]
  /\ last' = [last EXCEPT ![w][k] = seq[w] + 1]
  /\ client' = [client EXCEPT ![w] = "push"]
  /\ UNCHANGED <<wcallbacks, data, sempending, semmax, ncallbacks, threadVars,
                 finish, driverVars, io, error_count, cassVars, phase>>

\* Semaphore::release wakes a thread that waits and forgets the token otherwise.
signal_if_waiting(w) ==
  /\ client[w] = "signal"
  /\ sempending' = IF thread = "acquire" THEN sempending + 1 ELSE sempending
  /\ client' = [client EXCEPT ![w] = "idle"]
  /\ UNCHANGED <<seq, pushing, last, wcallbacks, data, semmax, ncallbacks,
                 threadVars, finish, driverVars, io, error_count, cassVars, phase>>

\* The callback does not look at the error code.
callback_ignores_error(t) ==
  /\ io[t].pc = "idle"
  /\ \E f \in driver :
       /\ f.thr = t
       /\ f.st # "sent"
       /\ driver' = driver \ {f}
       /\ io' = [io EXCEPT ![t] = [pc |-> "ok", req |-> f.req, errs |-> 0]]
  /\ semmax' = semmax + 1
  /\ UNCHANGED <<clientVars, wcallbacks, data, sempending, ncallbacks,
                 threadVars, finish, executed, error_count, cassVars, phase>>

\* The callback keeps the permit of a request that failed.
callback_keeps_permit(t) ==
  /\ io[t].pc = "idle"
  /\ \E f \in driver :
       /\ f.thr = t
       /\ f.st # "sent"
       /\ driver' = driver \ {f}
       /\ io' = [io EXCEPT ![t] = [pc |-> f.st, req |-> f.req, errs |-> 0]]
       /\ semmax' = IF f.st = "ok" THEN semmax + 1 ELSE semmax
  /\ UNCHANGED <<clientVars, wcallbacks, data, sempending, ncallbacks,
                 threadVars, finish, executed, error_count, cassVars, phase>>

\* The callback never gives a permit back.
callback_leaks_permit(t) ==
  /\ io[t].pc = "idle"
  /\ \E f \in driver :
       /\ f.thr = t
       /\ f.st # "sent"
       /\ driver' = driver \ {f}
       /\ io' = [io EXCEPT ![t] = [pc |-> f.st, req |-> f.req, errs |-> 0]]
  /\ UNCHANGED <<clientVars, wcallbacks, data, sempending, semmax, ncallbacks,
                 threadVars, finish, executed, error_count, cassVars, phase>>

\* bind_cassstatement does not set the statement's timestamp.
Stamp_unset(f) == f.id

\* ~WriterThread waits for the queue only, not for the callbacks.
drain_callbacks_unchecked ==
  /\ phase = "drained"
  /\ phase' = "release"
  /\ finish' = TRUE
  /\ UNCHANGED <<clientVars, wcallbacks, data, sempending, semmax, ncallbacks,
                 threadVars, driverVars, io, error_count, cassVars>>

\* ~WriterThread raises the flag but does not wake the working thread.
release_thread_silent ==
  /\ phase = "release"
  /\ phase' = "join"
  /\ UNCHANGED <<clientVars, wcallbacks, data, sempending, semmax, ncallbacks,
                 threadVars, finish, driverVars, io, error_count, cassVars>>

-----------------------------------------------------------------------------
(* The client thread of a Writer. *)

\* Writer::write_to_cassandra without lazy writes, up to the push:
\* queue_async_query stamps a copy of the keys and counts the request.
queue_async_query(w, k) ==
  /\ phase = "run"
  /\ client[w] = "idle"
  /\ seq[w] < MaxWrites
  /\ seq' = [seq EXCEPT ![w] = @ + 1]
  /\ wcallbacks' = [wcallbacks EXCEPT ![w] = @ + 1]
  /\ pushing' = [pushing EXCEPT ![w] = [writer |-> w, key |-> k, seq |-> seq[w] + 1]]
  /\ last' = [last EXCEPT ![w][k] = seq[w] + 1]
  /\ client' = [client EXCEPT ![w] = "push"]
  /\ UNCHANGED <<data, sempending, semmax, ncallbacks, threadVars, finish,
                 driverVars, io, error_count, cassVars, phase>>

\* data.push(item): blocks while the queue is full.
push(w) ==
  /\ client[w] = "push"
  /\ Len(data) < Capacity
  /\ data' = Append(data, pushing[w])
  /\ pushing' = [pushing EXCEPT ![w] = NoReq]
  /\ client' = [client EXCEPT ![w] = "signal"]
  /\ UNCHANGED <<seq, last, wcallbacks, sempending, semmax, ncallbacks,
                 threadVars, finish, driverVars, io, error_count, cassVars, phase>>

\* sempending_data->release() after the push.
signal(w) ==
  /\ client[w] = "signal"
  /\ sempending' = sempending + 1
  /\ client' = [client EXCEPT ![w] = "idle"]
  /\ UNCHANGED <<seq, pushing, last, wcallbacks, data, semmax, ncallbacks,
                 threadVars, finish, driverVars, io, error_count, cassVars, phase>>

\* A call of wait_writes_completion (flush_elements) or of ~Writer.  It is also
\* made by ~HecubaSession, which runs after the singleton is destroyed.
await(w, to) ==
  /\ phase \in {"run", "dead"}
  /\ client[w] = "idle"
  /\ client' = [client EXCEPT ![w] = to]
  /\ UNCHANGED <<seq, pushing, last, wcallbacks, data, sempending, semmax,
                 ncallbacks, threadVars, finish, driverVars, io, error_count,
                 cassVars, phase>>

\* is_write_completed() became true: the loop of wait_writes_completion ends.
completed(w) ==
  /\ client[w] \in {"wait", "destroy"}
  /\ wcallbacks[w] = 0
  /\ client' = [client EXCEPT ![w] = IF @ = "wait" THEN "idle" ELSE "gone"]
  /\ UNCHANGED <<seq, pushing, last, wcallbacks, data, sempending, semmax,
                 ncallbacks, threadVars, finish, driverVars, io, error_count,
                 cassVars, phase>>

flush_elements(w) == await(w, "wait")
destroy_writer(w) == await(w, "destroy")

-----------------------------------------------------------------------------
(* The working thread. *)

\* The test of finish_async_query_thread at the head of the loop.
check_finish ==
  /\ thread = "check"
  /\ thread' = IF finish THEN "done" ELSE "acquire"
  /\ UNCHANGED <<held, clientVars, wcallbacks, data, sempending, semmax,
                 ncallbacks, finish, driverVars, io, error_count, cassVars, phase>>

\* sempending_data->acquire()
acquire_pending ==
  /\ thread = "acquire"
  /\ sempending > 0
  /\ sempending' = sempending - 1
  /\ thread' = "call"
  /\ UNCHANGED <<held, clientVars, wcallbacks, data, semmax, ncallbacks, finish,
                 driverVars, io, error_count, cassVars, phase>>

\* call_async: the counter goes up before try_pop.
count_call ==
  /\ thread = "call"
  /\ ncallbacks' = ncallbacks + 1
  /\ thread' = "pop"
  /\ UNCHANGED <<held, clientVars, wcallbacks, data, sempending, semmax, finish,
                 driverVars, io, error_count, cassVars, phase>>

\* data.try_pop(item) found an item.
try_pop ==
  /\ thread = "pop"
  /\ data # <<>>
  /\ held' = Head(data)
  /\ data' = Tail(data)
  /\ thread' = "execute"
  /\ UNCHANGED <<clientVars, wcallbacks, sempending, semmax, ncallbacks, finish,
                 driverVars, io, error_count, cassVars, phase>>

\* data.try_pop(item) found nothing: the counter comes down again.
try_pop_fails ==
  /\ thread = "pop"
  /\ data = <<>>
  /\ ncallbacks' = ncallbacks - 1
  /\ thread' = "check"
  /\ UNCHANGED <<held, clientVars, wcallbacks, data, sempending, semmax, finish,
                 driverVars, io, error_count, cassVars, phase>>

\* async_query_execute: take a permit and hand the statement to the driver,
\* which serves the request on one of its event loops.
async_query_execute(r, t) ==
  /\ semmax > 0
  /\ semmax' = semmax - 1
  /\ executed' = executed + 1
  /\ driver' = driver \cup {[req |-> r, id |-> executed + 1, thr |-> t, st |-> "sent"]}

execute ==
  /\ thread = "execute"
  /\ \E t \in IOThreads : async_query_execute(held, t)
  /\ held' = NoReq
  /\ thread' = "check"
  /\ UNCHANGED <<clientVars, wcallbacks, data, sempending, ncallbacks, finish,
                 io, error_count, cassVars, phase>>

-----------------------------------------------------------------------------
(* WriterThread::callback, run on the I/O thread that served the request. *)

\* The permit is given back first; then the outcome is looked at.
callback(t) ==
  /\ io[t].pc = "idle"
  /\ \E f \in driver :
       /\ f.thr = t
       /\ f.st # "sent"
       /\ driver' = driver \ {f}
       /\ io' = [io EXCEPT ![t] = [pc |-> f.st, req |-> f.req, errs |-> 0]]
  /\ semmax' = semmax + 1
  /\ UNCHANGED <<clientVars, wcallbacks, data, sempending, ncallbacks,
                 threadVars, finish, executed, error_count, cassVars, phase>>

\* Success: WThread->ncallbacks--.
callback_ok(t) ==
  /\ io[t].pc = "ok"
  /\ ncallbacks' = ncallbacks - 1
  /\ io' = [io EXCEPT ![t].pc = "notify"]
  /\ UNCHANGED <<clientVars, wcallbacks, data, sempending, semmax, threadVars,
                 finish, driverVars, error_count, cassVars, phase>>

\* Writer::finish_async_call.
finish_async_call(t) ==
  /\ io[t].pc = "notify"
  /\ wcallbacks' = [wcallbacks EXCEPT ![io[t].req.writer] = @ - 1]
  /\ io' = [io EXCEPT ![t] = IOIdle]
  /\ UNCHANGED <<clientVars, data, sempending, semmax, ncallbacks, threadVars,
                 finish, driverVars, error_count, cassVars, phase>>

\* Failure: ++error_count is a plain read and a plain write, made by several
\* I/O threads without a lock.
error_read(t) ==
  /\ io[t].pc = "err"
  /\ io' = [io EXCEPT ![t].pc = "count", ![t].errs = error_count]
  /\ UNCHANGED <<clientVars, wcallbacks, data, sempending, semmax, ncallbacks,
                 threadVars, finish, driverVars, error_count, cassVars, phase>>

\* set_error_occurred: over the limit it throws out of the driver's callback,
\* which terminates the process; otherwise it sleeps and retries.
set_error_occurred(t) ==
  /\ io[t].pc = "count"
  /\ error_count' = io[t].errs + 1
  /\ \/ /\ error_count' > MaxErrors
        /\ ncallbacks' = ncallbacks - 1
        /\ phase' = "aborted"
        /\ UNCHANGED io
     \/ /\ error_count' <= MaxErrors
        /\ io' = [io EXCEPT ![t].pc = "retry", ![t].errs = 0]
        /\ UNCHANGED <<ncallbacks, phase>>
  /\ UNCHANGED <<clientVars, wcallbacks, data, sempending, semmax, threadVars,
                 finish, driverVars, cassVars>>

\* The same request is executed again, from the I/O thread: acquire() may block
\* the event loop.
retry(t) ==
  /\ io[t].pc = "retry"
  /\ \E u \in IOThreads : async_query_execute(io[t].req, u)
  /\ io' = [io EXCEPT ![t] = IOIdle]
  /\ UNCHANGED <<clientVars, wcallbacks, data, sempending, ncallbacks,
                 threadVars, finish, error_count, cassVars, phase>>

-----------------------------------------------------------------------------
(* Cassandra and the driver (external). *)

\* The write time of a request: the client's stamp, or else the stamp of the
\* driver's monotonic generator, which grows with every execution.
Stamp(f) == IF Timestamped THEN f.req.seq ELSE f.id

\* Last write wins: a row keeps the value with the highest write time.
Apply(r, stamp) ==
  db' = [db EXCEPT ![r.writer][r.key] =
           IF stamp > @.stamp THEN [seq |-> r.seq, stamp |-> stamp] ELSE @]

cass_apply(f) ==
  /\ f.st = "sent"
  /\ Apply(f.req, Stamp(f))
  /\ driver' = (driver \ {f}) \cup {[f EXCEPT !.st = "ok"]}
  /\ UNCHANGED <<late, fails, executed>>

\* The request fails or times out; it may reach a replica later all the same.
cass_fail(f) ==
  /\ f.st = "sent"
  /\ fails < MaxFails
  /\ fails' = fails + 1
  /\ late' = late \cup {[req |-> f.req, stamp |-> Stamp(f)]}
  /\ driver' = (driver \ {f}) \cup {[f EXCEPT !.st = "err"]}
  /\ UNCHANGED <<db, executed>>

cass_late(z) ==
  /\ Apply(z.req, z.stamp)
  /\ late' = late \ {z}
  /\ UNCHANGED <<fails, driverVars>>

resolve == \E f \in driver : cass_apply(f) \/ cass_fail(f)

cassandra ==
  /\ resolve \/ \E z \in late : cass_late(z)
  /\ UNCHANGED <<clientVars, wcallbacks, data, sempending, semmax, ncallbacks,
                 threadVars, finish, io, error_count, phase>>

-----------------------------------------------------------------------------
(* ~WriterThread, run when the program ends: no client call is in progress. *)

exit ==
  /\ phase = "run"
  /\ \A w \in Writers : client[w] \in {"idle", "gone"}
  /\ phase' = "drain"
  /\ UNCHANGED <<clientVars, wcallbacks, data, sempending, semmax, ncallbacks,
                 threadVars, finish, driverVars, io, error_count, cassVars>>

\* The loop of WriterThread::wait_writes_completion reads data.empty() and then
\* ncallbacks.
drain_data ==
  /\ phase = "drain"
  /\ data = <<>>
  /\ phase' = "drained"
  /\ UNCHANGED <<clientVars, wcallbacks, data, sempending, semmax, ncallbacks,
                 threadVars, finish, driverVars, io, error_count, cassVars>>

drain_callbacks ==
  /\ phase = "drained"
  /\ IF ncallbacks > 0
     THEN phase' = "drain" /\ UNCHANGED finish
     ELSE phase' = "release" /\ finish' = TRUE
  /\ UNCHANGED <<clientVars, wcallbacks, data, sempending, semmax, ncallbacks,
                 threadVars, driverVars, io, error_count, cassVars>>

\* Unblock the working thread, which then sees finish_async_query_thread.
release_thread ==
  /\ phase = "release"
  /\ sempending' = sempending + 1
  /\ phase' = "join"
  /\ UNCHANGED <<clientVars, wcallbacks, data, semmax, ncallbacks, threadVars,
                 finish, driverVars, io, error_count, cassVars>>

\* join() returns and both semaphores are deleted.
join ==
  /\ phase = "join"
  /\ thread = "done"
  /\ phase' = "dead"
  /\ UNCHANGED <<clientVars, wcallbacks, data, sempending, semmax, ncallbacks,
                 threadVars, finish, driverVars, io, error_count, cassVars>>

-----------------------------------------------------------------------------
clientStep(w) == push(w) \/ signal(w) \/ completed(w)
threadStep == \/ check_finish \/ acquire_pending \/ count_call
              \/ try_pop \/ try_pop_fails \/ execute
ioStep(t) == \/ callback(t) \/ callback_ok(t) \/ finish_async_call(t)
             \/ error_read(t) \/ set_error_occurred(t) \/ retry(t)
exitStep == drain_data \/ drain_callbacks \/ release_thread \/ join

\* The process has ended: every Writer is destroyed, or it was terminated.
terminated ==
  /\ \/ phase = "aborted"
     \/ phase = "dead" /\ \A w \in Writers : client[w] = "gone"
  /\ UNCHANGED vars

Next ==
  \/ /\ phase # "aborted"
     /\ \/ \E w \in Writers : \/ \E k \in Keys : queue_async_query(w, k)
                              \/ flush_elements(w)
                              \/ destroy_writer(w)
                              \/ clientStep(w)
        \/ threadStep
        \/ \E t \in IOThreads : ioStep(t)
        \/ cassandra
        \/ exit
        \/ exitStep
  \/ terminated

Spec == Init /\ [][Next]_vars

\* Threads run, semaphores are fair enough to be acquired when they stay
\* available, and the driver answers or times out every request.  Nothing
\* forces a client to write or the program to end.
Fairness ==
  /\ \A w \in Writers : WF_vars(phase # "aborted" /\ clientStep(w))
  /\ WF_vars(phase # "aborted" /\ threadStep)
  /\ \A t \in IOThreads : WF_vars(phase # "aborted" /\ ioStep(t))
  /\ WF_vars(phase # "aborted" /\ resolve /\ cassandra)
  /\ WF_vars(phase # "aborted" /\ exitStep)

FairSpec == Spec /\ Fairness

-----------------------------------------------------------------------------
(* Properties. *)

\* Every request that a Writer has counted and nobody has reported finished,
\* wherever it is on its way.
Outstanding ==
  {pushing[w] : w \in {v \in Writers : client[v] = "push"}}
    \cup {data[i] : i \in DOMAIN data}
    \cup ({held} \ {NoReq})
    \cup {f.req : f \in driver}
    \cup {io[t].req : t \in {u \in IOThreads : io[u].pc # "idle"}}

OutstandingOf(w) == {r \in Outstanding : r.writer = w}

\* WriterThread implements WritePipeline when the statements carry the client's
\* stamps: a request stays outstanding through its retries until its callback has
\* told the Writer, and is told only after Cassandra stored it or a newer one.
Pipeline == INSTANCE WritePipeline WITH
  outstanding <- Outstanding,
  stored <- [w \in Writers |-> [k \in Keys |-> db[w][k].seq]]

ImplementsPipeline == Pipeline!Spec

\* Writer::ncallbacks counts exactly the requests of that Writer that are still
\* on their way: none is forgotten, dropped or finished twice, retries included.
CountedOnce ==
  \A w \in Writers : wcallbacks[w] = Cardinality(OutstandingOf(w))

\* What wait_writes_completion promises: whenever Writer::ncallbacks is zero,
\* every row of the Writer holds the last value its client wrote, whatever was
\* retried or applied late.  Without client timestamps this needs that no
\* request failed (set_error_occurred warns of a POTENTIAL INCONSISTENCY).
DurableWhenFlushed ==
  \A w \in Writers :
    wcallbacks[w] = 0 /\ (Timestamped \/ fails = 0)
      => \A k \in Keys : db[w][k].seq = last[w][k]

\* semmaxcallbacks: permits and requests in the driver's hands add up to
\* writer_par, so never more than that many requests are in flight, although a
\* retry takes a permit after its first execution gave one back.
PermitsConserved == semmax + Cardinality(driver) = MaxCallbacks

\* Until the destructor posts its own token, sempending_data holds one token for
\* each queued item that no thread is about to pop: no wake-up is lost, and
\* try_pop finds an item each time the working thread is woken.
NoLostWakeup ==
  phase \in {"run", "drain", "drained", "release"} =>
    Len(data) = sempending
                  + Cardinality({w \in Writers : client[w] = "signal"})
                  + (IF thread \in {"call", "pop"} THEN 1 ELSE 0)

\* Nothing is used after its destructor: no request of a destroyed Writer is on
\* its way, and once the WriterThread is destroyed no callback touches it.
NoUseAfterDestruction ==
  /\ \A w \in Writers : client[w] = "gone" => OutstandingOf(w) = {}
  /\ phase = "dead" =>
       /\ data = <<>> /\ driver = {} /\ thread = "done"
       /\ \A t \in IOThreads : io[t].pc \in {"idle", "notify"}

\* A value that Cassandra has stored is never replaced by an older one of the
\* same Writer, whatever the order in which retries and late requests arrive.
RowsAdvance ==
  [][\A w \in Writers, k \in Keys : db'[w][k].seq >= db[w][k].seq]_vars

\* flush_elements and ~Writer return (or the process was terminated).
FlushTerminates ==
  \A w \in Writers :
    client[w] \in {"wait", "destroy"} ~> client[w] \in {"idle", "gone"} \/ phase = "aborted"

\* ~WriterThread returns: the working thread is woken, sees the flag and ends.
ExitTerminates == phase = "drain" ~> phase \in {"dead", "aborted"}
=============================================================================

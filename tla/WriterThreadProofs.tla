------------------------- MODULE WriterThreadProofs -------------------------
(***************************************************************************)
(* Theorems about WriterThread, for any number of Writers, keys and I/O    *)
(* threads, any queue capacity, any writer_par and any number of writes    *)
(* and failures: types, permits, rows that never go back; then those that  *)
(* follow a request on its way: no wake-up of the working thread is lost,  *)
(* every request is counted once, nothing is used after its destruction,   *)
(* the write path implements WritePipeline, and a flushed Writer is        *)
(* durable, as WritePipeline promises.                                     *)
(***************************************************************************)
EXTENDS WriterThread, FiniteSetTheorems, TLAPS

USE ConstantsAssumption, NoReqAssumption

-----------------------------------------------------------------------------
(* Type correctness. *)

\* Whoever is about to hand a request on really holds one.
Carried ==
  /\ \A w \in Writers : client[w] = "push" => pushing[w] \in Request
  /\ thread = "execute" => held \in Request
  /\ \A t \in IOThreads : io[t].pc # "idle" => io[t].req \in Request

TypeInv == TypeOK /\ Carried

\* Initially nobody holds a request.
LEMMA InitTypeInv == Init => TypeInv
<1> SUFFICES ASSUME Init PROVE TypeInv
  OBVIOUS
<1>1. io \in [IOThreads -> IOState]
  BY DEF Init, IOIdle, IOState
<1>2. Carried
  BY DEF Init, Carried, IOIdle
<1>3. db \in [Writers -> [Keys -> [seq : Nat, stamp : Nat]]]
  BY DEF Init
<1>4. /\ client \in [Writers -> {"idle", "push", "signal", "wait", "destroy", "gone"}]
      /\ pushing \in [Writers -> Request \cup {NoReq}]
      /\ last \in [Writers -> [Keys -> Nat]]
  BY DEF Init
<1>5. /\ data \in Seq(Request) /\ driver \in SUBSET Future
      /\ late \in SUBSET [req : Request, stamp : Nat]
  BY DEF Init
<1>6. seq \in [Writers -> Nat] /\ wcallbacks \in [Writers -> Int]
  BY DEF Init
<1>7. /\ sempending \in Nat /\ semmax \in Nat /\ ncallbacks \in Int
      /\ executed \in Nat /\ error_count \in Nat /\ fails \in Nat
  BY DEF Init
<1>8. /\ thread \in {"check", "acquire", "call", "pop", "execute", "done"}
      /\ held \in Request \cup {NoReq}
      /\ finish \in BOOLEAN
      /\ phase \in {"run", "drain", "drained", "release", "join", "dead", "aborted"}
  BY DEF Init
<1> QED
  BY <1>1, <1>2, <1>3, <1>4, <1>5, <1>6, <1>7, <1>8 DEF TypeInv, TypeOK

\* The client threads keep the types.
LEMMA ClientTypeInv ==
  ASSUME TypeInv, NEW w \in Writers,
         \/ \E k \in Keys : queue_async_query(w, k)
         \/ flush_elements(w) \/ destroy_writer(w) \/ clientStep(w)
  PROVE  TypeInv'
<1> USE DEF TypeInv, TypeOK, Carried, threadVars, driverVars, cassVars
<1>1. ASSUME NEW k \in Keys, queue_async_query(w, k) PROVE TypeInv'
  <2>1. [writer |-> w, key |-> k, seq |-> seq[w] + 1] \in Request
    BY DEF Request
  <2> QED
    BY <1>1, <2>1, SMTT(30) DEF queue_async_query
<1>2. CASE flush_elements(w)
  BY <1>2 DEF flush_elements, await
<1>3. CASE destroy_writer(w)
  BY <1>3 DEF destroy_writer, await
<1>4. CASE push(w)
  BY <1>4 DEF push
<1>5. CASE signal(w)
  BY <1>5 DEF signal
<1>6. CASE completed(w)
  BY <1>6 DEF completed
<1> QED
  BY <1>1, <1>2, <1>3, <1>4, <1>5, <1>6 DEF clientStep

\* Handing a request to the driver makes a well-formed future.
LEMMA ExecuteType ==
  ASSUME TypeOK, NEW r \in Request, NEW t \in IOThreads, async_query_execute(r, t)
  PROVE  semmax' \in Nat /\ executed' \in Nat /\ driver' \in SUBSET Future
<1>1. [req |-> r, id |-> executed + 1, thr |-> t, st |-> "sent"] \in Future
  BY DEF TypeOK, Future
<1> QED
  BY <1>1 DEF async_query_execute, TypeOK

\* The working thread keeps the types.
LEMMA ThreadTypeInv ==
  ASSUME TypeInv, threadStep
  PROVE  TypeInv'
<1> USE DEF TypeInv, TypeOK, Carried, clientVars, driverVars, cassVars
<1>1. CASE check_finish
  BY <1>1 DEF check_finish
<1>2. CASE acquire_pending
  BY <1>2 DEF acquire_pending
<1>3. CASE count_call
  BY <1>3 DEF count_call
<1>4. CASE try_pop
  BY <1>4 DEF try_pop
<1>5. CASE try_pop_fails
  BY <1>5 DEF try_pop_fails
<1>6. CASE execute
  BY <1>6, ExecuteType DEF execute
<1> QED
  BY <1>1, <1>2, <1>3, <1>4, <1>5, <1>6 DEF threadStep

\* The callbacks keep the types.
LEMMA IOTypeInv ==
  ASSUME TypeInv, NEW t \in IOThreads, ioStep(t)
  PROVE  TypeInv'
<1> DEFINE IOCarried == /\ io \in [IOThreads -> IOState]
                        /\ \A u \in IOThreads : io[u].pc # "idle" => io[u].req \in Request
           Phases == {"run", "drain", "drained", "release", "join", "dead", "aborted"}
<1>0. IOCarried /\ error_count \in Nat
  BY DEF TypeInv, TypeOK, Carried
\* A step of a callback that goes on with its request.
<1>a. ASSUME NEW s \in {"ok", "notify", "err", "count", "retry"}, NEW n \in Nat, io[t].pc # "idle",
             io' = [io EXCEPT ![t].pc = s, ![t].errs = n]
      PROVE  IOCarried'
  <2> DEFINE new == [io[t] EXCEPT !.pc = s, !.errs = n]
  <2>1. io[t] \in IOState /\ io[t].req \in Request
    BY <1>0, <1>a
  <2>2. new \in IOState /\ new.req = io[t].req
    BY <2>1 DEF IOState
  <2>3. io' = [io EXCEPT ![t] = new]
    BY <1>a
  <2> HIDE DEF new
  <2> QED
    BY <1>0, <2>1, <2>2, <2>3
<1> USE DEF TypeInv, TypeOK, Carried, clientVars, threadVars, driverVars, cassVars
<1>1. CASE callback(t)
  <2> PICK f \in driver :
        /\ f.st # "sent"
        /\ driver' = driver \ {f}
        /\ io' = [io EXCEPT ![t] = [pc |-> f.st, req |-> f.req, errs |-> 0]]
    BY <1>1 DEF callback
  <2>1. f.st \in {"ok", "err"} /\ f.req \in Request
    BY DEF Future
  <2>2. IOCarried'
    BY <2>1 DEF IOState
  <2> QED
    BY <1>1, <2>2 DEF callback
<1>2. CASE callback_ok(t)
  <2>1. IOCarried'
    BY <1>2 DEF callback_ok, IOState
  <2> QED
    BY <1>2, <2>1, SMTT(30) DEF callback_ok
<1>3. CASE finish_async_call(t)
  <2>1. IOCarried'
    BY <1>3 DEF finish_async_call, IOIdle, IOState
  <2>2. wcallbacks' \in [Writers -> Int]
    BY <1>3 DEF finish_async_call, Request
  <2> QED
    BY <1>3, <2>1, <2>2 DEF finish_async_call
<1>4. CASE error_read(t)
  <2>1. IOCarried'
    BY <1>0, <1>4, <1>a DEF error_read
  <2> QED
    BY <1>4, <2>1 DEF error_read
<1>5. CASE set_error_occurred(t)
  <2>1. error_count' \in Nat
    BY <1>5 DEF set_error_occurred, IOState
  <2>2. IOCarried'
    <3>1. CASE io' = io
      BY <3>1
    <3>2. CASE io' = [io EXCEPT ![t].pc = "retry", ![t].errs = 0]
      BY <3>2, <1>5, <1>a DEF set_error_occurred
    <3> QED
      BY <1>5, <3>1, <3>2 DEF set_error_occurred
  <2>3. ncallbacks' \in Int /\ phase' \in Phases
    BY <1>5 DEF set_error_occurred
  <2> QED
    BY <1>5, <2>1, <2>2, <2>3 DEF set_error_occurred
<1>6. CASE retry(t)
  <2>1. IOCarried'
    BY <1>6 DEF retry, IOIdle, IOState
  <2> QED
    BY <1>6, <2>1, ExecuteType DEF retry
<1> QED
  BY <1>1, <1>2, <1>3, <1>4, <1>5, <1>6 DEF ioStep

\* Applying a request keeps the table well-formed.
LEMMA ApplyType ==
  ASSUME TypeOK, NEW r \in Request, NEW stamp \in Nat, Apply(r, stamp)
  PROVE  db' \in [Writers -> [Keys -> [seq : Nat, stamp : Nat]]]
<1> DEFINE Row == [seq : Nat, stamp : Nat]
           old == db[r.writer][r.key]
           new == IF stamp > old.stamp THEN [seq |-> r.seq, stamp |-> stamp] ELSE old
<1>1. r.writer \in Writers /\ r.key \in Keys /\ r.seq \in Nat
  BY DEF Request
<1>2. db \in [Writers -> [Keys -> Row]]
  BY DEF TypeOK
<1>3. new \in Row
  BY <1>1, <1>2
<1>4. db' = [db EXCEPT ![r.writer] = [db[r.writer] EXCEPT ![r.key] = new]]
  BY <1>1, <1>2 DEF Apply
<1> HIDE DEF Row, new
<1>5. db' \in [Writers -> [Keys -> Row]]
  BY <1>1, <1>2, <1>3, <1>4
<1> QED
  BY <1>5 DEF Row

\* The parts of a future, and the future with an answer.
LEMMA FutureType ==
  ASSUME NEW f \in Future
  PROVE  /\ f.req \in Request /\ f.id \in Nat /\ Stamp(f) \in Nat
         /\ \A s \in {"sent", "ok", "err"} :
              /\ [f EXCEPT !.st = s] \in Future
              /\ [f EXCEPT !.st = s].id = f.id
BY DEF Future, Request, Stamp

\* Cassandra keeps the types.
LEMMA CassandraTypeInv ==
  ASSUME TypeInv, cassandra
  PROVE  TypeInv'
<1> USE DEF TypeInv, TypeOK, Carried, clientVars, threadVars
<1>1. ASSUME NEW f \in driver, cass_apply(f) PROVE TypeInv'
  <2>1. f \in Future
    OBVIOUS
  <2>2. /\ db' \in [Writers -> [Keys -> [seq : Nat, stamp : Nat]]]
        /\ driver' \in SUBSET Future
    BY <1>1, <2>1, FutureType, ApplyType DEF cass_apply
  <2> QED
    BY <1>1, <2>2 DEF cassandra, cass_apply
<1>2. ASSUME NEW f \in driver, cass_fail(f) PROVE TypeInv'
  <2>1. f \in Future
    OBVIOUS
  <2>2. driver' \in SUBSET Future
    BY <1>2, <2>1, FutureType DEF cass_fail
  <2>3. [req |-> f.req, stamp |-> Stamp(f)] \in [req : Request, stamp : Nat]
    BY <2>1, FutureType
  <2>4. late' \in SUBSET [req : Request, stamp : Nat] /\ fails' \in Nat
    BY <1>2, <2>3 DEF cass_fail
  <2>5. UNCHANGED <<db, executed>>
    BY <1>2 DEF cass_fail
  <2> QED
    BY <2>2, <2>4, <2>5 DEF cassandra
<1>3. ASSUME NEW z \in late, cass_late(z) PROVE TypeInv'
  <2>1. z.req \in Request /\ z.stamp \in Nat
    OBVIOUS
  <2>2. db' \in [Writers -> [Keys -> [seq : Nat, stamp : Nat]]]
    BY <1>3, <2>1, ApplyType DEF cass_late
  <2> QED
    BY <1>3, <2>2 DEF cassandra, cass_late, driverVars
<1> QED
  BY <1>1, <1>2, <1>3 DEF cassandra, resolve

\* The end of the program keeps the types.
LEMMA ExitTypeInv ==
  ASSUME TypeInv, exit \/ exitStep
  PROVE  TypeInv'
<1> USE DEF TypeInv, TypeOK, Carried, clientVars, threadVars, driverVars, cassVars
<1>1. CASE exit
  BY <1>1 DEF exit
<1>2. CASE drain_data
  BY <1>2 DEF drain_data
<1>3. CASE drain_callbacks
  BY <1>3 DEF drain_callbacks
<1>4. CASE release_thread
  BY <1>4 DEF release_thread
<1>5. CASE join
  BY <1>5 DEF join
<1> QED
  BY <1>1, <1>2, <1>3, <1>4, <1>5 DEF exitStep

\* The inductive form: types hold and a request is in hand wherever the code uses
\* one.
THEOREM TypeInvariance == Spec => []TypeInv
<1>1. TypeInv /\ [Next]_vars => TypeInv'
  <2> SUFFICES ASSUME TypeInv, [Next]_vars PROVE TypeInv'
    OBVIOUS
  <2>1. CASE UNCHANGED vars
    BY <2>1 DEF TypeInv, TypeOK, Carried, vars
  <2>2. CASE Next
    <3>1. ASSUME NEW w \in Writers,
                 \/ \E k \in Keys : queue_async_query(w, k)
                 \/ flush_elements(w) \/ destroy_writer(w) \/ clientStep(w)
          PROVE  TypeInv'
      BY <3>1, ClientTypeInv
    <3>2. ASSUME NEW t \in IOThreads, ioStep(t) PROVE TypeInv'
      BY <3>2, IOTypeInv
    <3>3. CASE terminated
      BY <3>3, <2>1 DEF terminated
    <3> QED
      BY <2>2, <3>1, <3>2, <3>3, ThreadTypeInv, CassandraTypeInv, ExitTypeInv DEF Next
  <2> QED
    BY <2>1, <2>2
<1> QED
  BY InitTypeInv, <1>1, PTL DEF Spec

\* WriterThread is type-correct.  In particular neither semaphore's counter is
\* ever negative, and a request taken from the queue, the driver or a failed
\* callback is always one that a Writer made.
THEOREM TypeCorrect == Spec => []TypeOK
BY TypeInvariance, PTL DEF TypeInv

-----------------------------------------------------------------------------
(* Permits. *)

\* The driver holds finitely many futures, each with the number of its execution.
Futures ==
  /\ IsFiniteSet(driver)
  /\ \A f \in driver : f.id <= executed
  /\ \A f, g \in driver : f.id = g.id => f = g

PermitInv == Futures /\ PermitsConserved

permitVars == <<semmax, driver, executed>>

\* Handing a request to the driver costs one permit: the future is a new one.
LEMMA ExecutePermits ==
  ASSUME TypeOK, PermitInv, NEW r, NEW t, async_query_execute(r, t)
  PROVE  PermitInv'
<1> DEFINE f == [req |-> r, id |-> executed + 1, thr |-> t, st |-> "sent"]
<1>1. /\ driver' = driver \cup {f} /\ f.id = executed + 1
      /\ executed' = executed + 1 /\ semmax' = semmax - 1
  BY DEF async_query_execute
<1>2. /\ executed \in Nat /\ semmax \in Nat
      /\ \A g \in driver : g.id \in Nat
  BY DEF TypeOK, Future
<1> HIDE DEF f
<1>3. f \notin driver
  BY <1>1, <1>2 DEF PermitInv, Futures
<1>4. /\ IsFiniteSet(driver') /\ Cardinality(driver') = Cardinality(driver) + 1
      /\ Cardinality(driver) \in Nat
  BY <1>1, <1>3, FS_AddElement, FS_CardinalityType DEF PermitInv, Futures
<1>5. Futures'
  BY <1>1, <1>2, <1>4 DEF PermitInv, Futures
<1>6. PermitsConserved'
  BY <1>1, <1>2, <1>4 DEF PermitInv, PermitsConserved
<1> QED
  BY <1>5, <1>6 DEF PermitInv

\* A callback gives back the permit of the future that it takes from the driver.
LEMMA CallbackPermits ==
  ASSUME TypeOK, PermitInv, NEW t \in IOThreads, callback(t)
  PROVE  PermitInv'
<1>1. PICK f \in driver : driver' = driver \ {f}
  BY DEF callback
<1>2. semmax' = semmax + 1 /\ executed' = executed /\ semmax \in Nat
  BY DEF callback, TypeOK
<1>3. /\ IsFiniteSet(driver') /\ Cardinality(driver') = Cardinality(driver) - 1
      /\ Cardinality(driver) \in Nat
  BY <1>1, FS_RemoveElement, FS_CardinalityType DEF PermitInv, Futures
<1>4. Futures'
  BY <1>1, <1>2, <1>3 DEF PermitInv, Futures
<1>5. PermitsConserved'
  BY <1>2, <1>3 DEF PermitInv, PermitsConserved
<1> QED
  BY <1>4, <1>5 DEF PermitInv

\* An answer replaces a future by itself, answered.
LEMMA AnswerPermits ==
  ASSUME TypeOK, PermitInv, NEW f \in driver, NEW s \in {"ok", "err"},
         driver' = (driver \ {f}) \cup {[f EXCEPT !.st = s]},
         UNCHANGED <<semmax, executed>>
  PROVE  PermitInv'
<1> DEFINE g == [f EXCEPT !.st = s]
           rest == driver \ {f}
<1>1. f \in Future /\ g.id = f.id
  BY FutureType DEF TypeOK
<1>2. driver' = rest \cup {g}
  OBVIOUS
<1> HIDE DEF g
<1>3. \A h \in rest : h.id # f.id
  BY DEF PermitInv, Futures
<1>4. g \notin rest
  BY <1>1, <1>3
<1>5. /\ IsFiniteSet(rest) /\ Cardinality(rest) = Cardinality(driver) - 1
      /\ Cardinality(driver) \in Nat
  BY FS_RemoveElement, FS_CardinalityType DEF PermitInv, Futures
<1>6. /\ IsFiniteSet(driver') /\ Cardinality(driver') = Cardinality(driver)
  <2> HIDE DEF rest
  <2>1. /\ IsFiniteSet(rest \cup {g})
        /\ Cardinality(rest \cup {g}) = Cardinality(rest) + 1
    BY <1>4, <1>5, FS_AddElement
  <2> DEFINE all == rest \cup {g}
  <2>2. driver' = all
    BY <1>2
  <2>3. IsFiniteSet(all) /\ Cardinality(all) = Cardinality(driver)
    BY <1>5, <2>1
  <2> HIDE DEF all
  <2> QED
    BY <2>2, <2>3
<1>7. Futures'
  BY <1>1, <1>2, <1>3, <1>6 DEF PermitInv, Futures
<1>8. PermitsConserved'
  BY <1>6 DEF PermitInv, PermitsConserved
<1> QED
  BY <1>7, <1>8 DEF PermitInv

\* A step that touches neither the permits nor the driver.
LEMMA SamePermits ==
  ASSUME PermitInv, UNCHANGED permitVars
  PROVE  PermitInv'
BY DEF PermitInv, Futures, PermitsConserved, permitVars

\* Every step of the system keeps the permits.
LEMMA NextPermits ==
  ASSUME TypeInv, PermitInv, Next
  PROVE  PermitInv'
<1> USE DEF TypeInv, permitVars, clientVars, threadVars, driverVars, cassVars
<1>1. ASSUME NEW w \in Writers,
             \/ \E k \in Keys : queue_async_query(w, k)
             \/ flush_elements(w) \/ destroy_writer(w) \/ clientStep(w)
      PROVE  UNCHANGED permitVars
  BY <1>1 DEF queue_async_query, flush_elements, destroy_writer, await, clientStep,
              push, signal, completed
<1>2. CASE threadStep
  <2>1. CASE execute
    BY <2>1, ExecutePermits DEF execute
  <2>2. CASE ~execute
    BY <1>2, <2>2, SamePermits
       DEF threadStep, check_finish, acquire_pending, count_call, try_pop, try_pop_fails
  <2> QED
    BY <2>1, <2>2
<1>3. ASSUME NEW t \in IOThreads, ioStep(t) PROVE PermitInv'
  <2>1. CASE callback(t)
    BY <2>1, CallbackPermits
  <2>2. CASE retry(t)
    BY <2>2, ExecutePermits DEF retry
  <2>3. CASE callback_ok(t) \/ finish_async_call(t) \/ error_read(t) \/ set_error_occurred(t)
    BY <2>3, SamePermits
       DEF callback_ok, finish_async_call, error_read, set_error_occurred
  <2> QED
    BY <1>3, <2>1, <2>2, <2>3 DEF ioStep
<1>4. CASE cassandra
  <2>1. ASSUME NEW f \in driver, cass_apply(f) PROVE PermitInv'
    BY <1>4, <2>1, AnswerPermits DEF cassandra, cass_apply
  <2>2. ASSUME NEW f \in driver, cass_fail(f) PROVE PermitInv'
    BY <1>4, <2>2, AnswerPermits DEF cassandra, cass_fail
  <2>3. ASSUME NEW z \in late, cass_late(z) PROVE PermitInv'
    BY <1>4, <2>3, SamePermits DEF cassandra, cass_late
  <2> QED
    BY <1>4, <2>1, <2>2, <2>3 DEF cassandra, resolve
<1>5. CASE exit \/ exitStep
  BY <1>5, SamePermits
     DEF exit, exitStep, drain_data, drain_callbacks, release_thread, join
<1>6. CASE terminated
  BY <1>6, SamePermits DEF terminated, vars
<1> QED
  BY <1>1, <1>2, <1>3, <1>4, <1>5, <1>6, SamePermits DEF Next

\* semmaxcallbacks and the driver share writer_par permits at all times: at most
\* writer_par requests are in flight and no permit is lost, although a retry gives
\* its permit back before it takes another.
THEOREM PermitsTheorem == Spec => []PermitsConserved
<1>1. Init => PermitInv
  BY FS_EmptySet DEF Init, PermitInv, Futures, PermitsConserved
<1>2. TypeInv /\ PermitInv /\ [Next]_vars => PermitInv'
  <2>1. ASSUME UNCHANGED vars PROVE UNCHANGED permitVars
    BY <2>1 DEF vars, permitVars
  <2> QED
    BY <2>1, NextPermits, SamePermits
<1>3. PermitInv => PermitsConserved
  BY DEF PermitInv
<1> QED
  BY <1>1, <1>2, <1>3, TypeInvariance, PTL DEF Spec

-----------------------------------------------------------------------------
(* Rows. *)

\* With client timestamps, a row's write time is the stamp of its value.
StampIsSeq ==
  /\ \A w \in Writers, k \in Keys : db[w][k].stamp = db[w][k].seq
  /\ \A z \in late : z.stamp = z.req.seq

\* Applying a request with its own stamp keeps the stamps, and no row goes back.
LEMMA ApplyAdvances ==
  ASSUME TypeOK, StampIsSeq, NEW r \in Request, Apply(r, r.seq)
  PROVE  \A w \in Writers, k \in Keys :
           /\ db'[w][k].stamp = db'[w][k].seq
           /\ db'[w][k].seq >= db[w][k].seq
<1> SUFFICES ASSUME NEW w \in Writers, NEW k \in Keys
             PROVE  /\ db'[w][k].stamp = db'[w][k].seq
                    /\ db'[w][k].seq >= db[w][k].seq
  OBVIOUS
<1> DEFINE old == db[w][k]
<1>1. old \in [seq : Nat, stamp : Nat] /\ old.stamp = old.seq
  BY DEF TypeOK, StampIsSeq
<1>2. r.writer \in Writers /\ r.key \in Keys /\ r.seq \in Nat
  BY DEF Request
<1>3. \/ db'[w][k] = old
      \/ r.seq > old.stamp /\ db'[w][k] = [seq |-> r.seq, stamp |-> r.seq]
  BY <1>1, <1>2 DEF TypeOK, Apply
<1> QED
  BY <1>1, <1>2, <1>3

\* Every step keeps the stamps and moves no row back.
LEMMA NextAdvances ==
  ASSUME Timestamped, TypeInv, StampIsSeq, [Next]_vars
  PROVE  /\ StampIsSeq'
         /\ \A w \in Writers, k \in Keys : db'[w][k].seq >= db[w][k].seq
<1> DEFINE Goal == /\ StampIsSeq'
                   /\ \A w \in Writers, k \in Keys : db'[w][k].seq >= db[w][k].seq
<1> USE DEF TypeInv
<1>0. ASSUME UNCHANGED <<db, late>> PROVE Goal
  <2>1. \A w \in Writers, k \in Keys : db[w][k].seq \in Nat
    BY DEF TypeOK
  <2> QED
    BY <1>0, <2>1 DEF StampIsSeq
<1>1. CASE UNCHANGED vars
  BY <1>0, <1>1 DEF vars
<1>2. CASE cassandra
  <2>1. ASSUME NEW f \in driver, cass_apply(f) PROVE Goal
    <3>1. f.req \in Request /\ Apply(f.req, f.req.seq) /\ late' = late
      BY <2>1, FutureType DEF TypeOK, cass_apply, Stamp
    <3> QED
      BY <3>1, ApplyAdvances DEF StampIsSeq
  <2>2. ASSUME NEW f \in driver, cass_fail(f) PROVE Goal
    <3>1. db' = db /\ late' = late \cup {[req |-> f.req, stamp |-> f.req.seq]}
      BY <2>2 DEF cass_fail, Stamp
    <3>2. \A w \in Writers, k \in Keys : db[w][k].seq \in Nat
      BY DEF TypeOK
    <3> QED
      BY <3>1, <3>2 DEF StampIsSeq
  <2>3. ASSUME NEW z \in late, cass_late(z) PROVE Goal
    <3>1. z.req \in Request /\ z.stamp = z.req.seq
      BY DEF TypeOK, StampIsSeq
    <3>2. Apply(z.req, z.req.seq) /\ late' = late \ {z}
      BY <2>3, <3>1 DEF cass_late
    <3> QED
      BY <3>1, <3>2, ApplyAdvances DEF StampIsSeq
  <2> QED
    BY <1>2, <2>1, <2>2, <2>3 DEF cassandra, resolve
<1>3. ASSUME NEW w \in Writers,
             \/ \E k \in Keys : queue_async_query(w, k)
             \/ flush_elements(w) \/ destroy_writer(w) \/ clientStep(w)
      PROVE  Goal
  BY <1>0, <1>3 DEF cassVars, queue_async_query, flush_elements, destroy_writer,
       await, clientStep, push, signal, completed
<1>4. CASE threadStep
  BY <1>0, <1>4 DEF cassVars, threadStep, check_finish, acquire_pending, count_call,
       try_pop, try_pop_fails, execute
<1>5. ASSUME NEW t \in IOThreads, ioStep(t) PROVE Goal
  BY <1>0, <1>5 DEF cassVars, ioStep, callback, callback_ok, finish_async_call,
       error_read, set_error_occurred, retry
<1>6. CASE exit \/ exitStep
  BY <1>0, <1>6 DEF cassVars, exit, exitStep, drain_data, drain_callbacks,
       release_thread, join
<1> QED
  BY <1>1, <1>2, <1>3, <1>4, <1>5, <1>6 DEF Next, terminated

\* With timestamped_writes, no row in Cassandra ever goes back to an older value of
\* its Writer, whatever the order in which retries and late requests are applied.
THEOREM RowsTheorem ==
  ASSUME Timestamped
  PROVE  Spec => RowsAdvance
<1>1. Init => StampIsSeq
  BY DEF Init, StampIsSeq
<1>2. TypeInv /\ StampIsSeq /\ [Next]_vars => StampIsSeq'
  BY NextAdvances
<1>3. TypeInv /\ StampIsSeq /\ [Next]_vars
        => [\A w \in Writers, k \in Keys : db'[w][k].seq >= db[w][k].seq]_vars
  BY NextAdvances
<1> QED
  BY <1>1, <1>2, <1>3, TypeInvariance, PTL DEF Spec, RowsAdvance

-----------------------------------------------------------------------------
(* Wake-ups. *)

\* The clients that have pushed an item and not yet posted its token.
Signalling == {w \in Writers : client[w] = "signal"}

\* The token that the working thread has taken for an item it has not popped yet.
TakenToken == IF thread \in {"call", "pop"} THEN 1 ELSE 0

\* The destructor has not posted its own token.
BeforeRelease == phase \in {"run", "drain", "drained", "release"}

WakeInv == IsFiniteSet(Signalling) /\ NoLostWakeup

\* A step that keeps the balance keeps the invariant.
LEMMA WakeBalance ==
  ASSUME WakeInv, BeforeRelease' => BeforeRelease, IsFiniteSet(Signalling'),
         Len(data) = sempending + Cardinality(Signalling) + TakenToken
           => Len(data') = sempending' + Cardinality(Signalling') + TakenToken'
  PROVE  WakeInv'
<1>1. BeforeRelease => Len(data) = sempending + Cardinality(Signalling) + TakenToken
  BY DEF WakeInv, NoLostWakeup, BeforeRelease, Signalling, TakenToken
<1>2. BeforeRelease' => Len(data') = sempending' + Cardinality(Signalling') + TakenToken'
  BY <1>1 DEF BeforeRelease
<1>3. NoLostWakeup'
  BY <1>2 DEF NoLostWakeup, BeforeRelease, Signalling, TakenToken
<1> QED
  BY <1>3 DEF WakeInv

\* A step that touches neither the queue, the tokens nor who is about to post one.
LEMMA SameWake ==
  ASSUME WakeInv, TypeOK, BeforeRelease' => BeforeRelease,
         UNCHANGED <<data, sempending, Signalling, TakenToken>>
  PROVE  WakeInv'
BY DEF WakeInv, NoLostWakeup, BeforeRelease, Signalling, TakenToken

\* A client pushes an item: from now on it owes a token for it.
LEMMA PushWake ==
  ASSUME WakeInv, TypeInv, NEW w \in Writers, push(w)
  PROVE  WakeInv'
<1>1. Len(data') = Len(data) + 1 /\ Len(data) \in Nat
  BY DEF TypeInv, TypeOK, Carried, push
<1>2. Signalling' = Signalling \cup {w} /\ w \notin Signalling
  BY DEF TypeInv, TypeOK, Signalling, push
<1>3. IsFiniteSet(Signalling') /\ Cardinality(Signalling') = Cardinality(Signalling) + 1
  BY <1>2, FS_AddElement DEF WakeInv
<1>4. UNCHANGED <<sempending, TakenToken, BeforeRelease>> /\ sempending \in Int
  BY DEF push, TypeInv, TypeOK, TakenToken, BeforeRelease, threadVars
<1>5. Cardinality(Signalling) \in Nat /\ TakenToken \in Nat
  BY FS_CardinalityType DEF WakeInv, TakenToken
<1> QED
  BY <1>1, <1>3, <1>4, <1>5, WakeBalance DEF TypeInv

\* The client posts the token it owes.
LEMMA SignalWake ==
  ASSUME WakeInv, TypeOK, NEW w \in Writers, signal(w)
  PROVE  WakeInv'
<1>1. sempending' = sempending + 1 /\ sempending \in Nat
  BY DEF TypeOK, signal
<1>2. Signalling' = Signalling \ {w} /\ w \in Signalling
  BY DEF TypeOK, Signalling, signal
<1>3. IsFiniteSet(Signalling') /\ Cardinality(Signalling') = Cardinality(Signalling) - 1
  BY <1>2, FS_RemoveElement DEF WakeInv
<1>4. UNCHANGED <<data, TakenToken, BeforeRelease>> /\ Len(data) \in Int
  BY DEF signal, TypeOK, TakenToken, BeforeRelease, threadVars
<1>5. Cardinality(Signalling) \in Nat /\ TakenToken \in Nat
  BY FS_CardinalityType DEF WakeInv, TakenToken
<1> QED
  BY <1>1, <1>3, <1>4, <1>5, WakeBalance

\* The working thread takes a token, and then the item it stands for.
LEMMA ThreadWake ==
  ASSUME WakeInv, TypeOK, threadStep
  PROVE  WakeInv'
<1>1. UNCHANGED <<Signalling, BeforeRelease>>
  BY DEF threadStep, check_finish, acquire_pending, count_call, try_pop, try_pop_fails,
         execute, clientVars, Signalling, BeforeRelease
<1>2. CASE check_finish \/ count_call \/ execute
  BY <1>1, <1>2, SameWake DEF check_finish, count_call, execute, TakenToken
<1>3. IsFiniteSet(Signalling') /\ Cardinality(Signalling') \in Nat
  BY <1>1, FS_CardinalityType DEF WakeInv
<1>4. CASE acquire_pending
  <2>1. sempending' = sempending - 1 /\ sempending \in Nat /\ data' = data /\ Len(data) \in Nat
    BY <1>4 DEF acquire_pending, TypeOK
  <2>2. TakenToken = 0 /\ TakenToken' = 1
    BY <1>4 DEF acquire_pending, TakenToken
  <2> QED
    BY <1>1, <1>3, <2>1, <2>2, WakeBalance
<1>5. CASE try_pop
  <2>1. sempending' = sempending /\ sempending \in Nat
    BY <1>5 DEF try_pop, TypeOK
  <2>2. Len(data') = Len(data) - 1 /\ Len(data) \in Nat
    BY <1>5 DEF try_pop, TypeOK
  <2>3. TakenToken = 1 /\ TakenToken' = 0
    BY <1>5 DEF try_pop, TakenToken
  <2> QED
    BY <1>1, <1>3, <2>1, <2>2, <2>3, WakeBalance
<1>6. CASE try_pop_fails
  <2>1. Len(data) = 0 /\ sempending \in Nat /\ TakenToken = 1
    BY <1>6 DEF try_pop_fails, TypeOK, TakenToken
  <2>2. Cardinality(Signalling) \in Nat
    BY FS_CardinalityType DEF WakeInv
  <2>3. ~BeforeRelease
    <3>1. BeforeRelease => Len(data) = sempending + Cardinality(Signalling) + TakenToken
      BY DEF WakeInv, NoLostWakeup, BeforeRelease, Signalling, TakenToken
    <3> QED
      BY <2>1, <2>2, <3>1
  <2> QED
    BY <1>1, <2>3 DEF WakeInv, NoLostWakeup, BeforeRelease
<1> QED
  BY <1>2, <1>4, <1>5, <1>6 DEF threadStep

\* Every step keeps the tokens.
LEMMA NextWake ==
  ASSUME WakeInv, TypeInv, [Next]_vars
  PROVE  WakeInv'
<1> USE DEF TypeInv
<1>1. CASE UNCHANGED vars
  BY <1>1, SameWake DEF vars, Signalling, TakenToken, BeforeRelease
<1>2. ASSUME NEW w \in Writers,
             \/ \E k \in Keys : queue_async_query(w, k)
             \/ flush_elements(w) \/ destroy_writer(w) \/ completed(w)
      PROVE  WakeInv'
  <2>1. Signalling' = Signalling
    BY <1>2 DEF queue_async_query, flush_elements, destroy_writer, await, completed,
                Signalling, TypeOK
  <2> QED
    BY <1>2, <2>1, SameWake DEF queue_async_query, flush_elements, destroy_writer, await,
         completed, TakenToken, BeforeRelease, threadVars
<1>3. ASSUME NEW t \in IOThreads, ioStep(t) PROVE WakeInv'
  BY <1>3, SameWake DEF ioStep, callback, callback_ok, finish_async_call, error_read,
       set_error_occurred, retry, clientVars, threadVars, Signalling, TakenToken, BeforeRelease
<1>4. CASE cassandra
  BY <1>4, SameWake DEF cassandra, clientVars, threadVars, Signalling, TakenToken, BeforeRelease
<1>5. CASE exit \/ drain_data \/ drain_callbacks \/ join
  BY <1>5, SameWake DEF exit, drain_data, drain_callbacks, join, clientVars, threadVars,
       Signalling, TakenToken, BeforeRelease
<1>6. CASE release_thread
  <2>1. ~BeforeRelease' /\ Signalling' = Signalling
    BY <1>6 DEF release_thread, BeforeRelease, clientVars, Signalling
  <2> QED
    BY <2>1 DEF WakeInv, NoLostWakeup, BeforeRelease
<1> QED
  BY <1>1, <1>2, <1>3, <1>4, <1>5, <1>6, PushWake, SignalWake, ThreadWake
     DEF Next, clientStep, exitStep, terminated

\* No wake-up is lost: until ~WriterThread posts its own token, sempending_data holds one
\* token for each queued item, less what a client still owes and the thread has taken.
THEOREM WakeTheorem == Spec => []NoLostWakeup
<1>1. Init => WakeInv
  <2> SUFFICES ASSUME Init PROVE WakeInv
    OBVIOUS
  <2>1. Signalling = {}
    BY DEF Init, Signalling
  <2>2. Len(data) = 0 /\ sempending = 0 /\ TakenToken = 0
    BY DEF Init, TakenToken
  <2>3. IsFiniteSet(Signalling) /\ Len(data) = sempending + Cardinality(Signalling) + TakenToken
    BY <2>1, <2>2, FS_EmptySet
  <2>4. NoLostWakeup
    BY <2>3 DEF NoLostWakeup, Signalling, TakenToken
  <2> QED
    BY <2>3, <2>4 DEF WakeInv
<1>2. WakeInv => NoLostWakeup
  BY DEF WakeInv
<1> QED
  BY <1>1, <1>2, NextWake, TypeInvariance, PTL DEF Spec

-----------------------------------------------------------------------------
(* Places. *)

\* The places where a request may be on its way; Outstanding is their union.
Pushed == {pushing[w] : w \in {v \in Writers : client[v] = "push"}}
Queued == {data[i] : i \in DOMAIN data}
Held   == {held} \ {NoReq}
Driven == {f.req : f \in driver}
Called == {io[t].req : t \in {u \in IOThreads : io[u].pc # "idle"}}

\* A client pushes its own requests, the working thread holds one only to execute it, and
\* no place holds a request twice.
OncePerPlace ==
  /\ \A w \in Writers : client[w] = "push" => pushing[w].writer = w
  /\ held # NoReq => thread = "execute"
  /\ \A i, j \in DOMAIN data : data[i] = data[j] => i = j
  /\ \A f, g \in driver : f.req = g.req => f = g
  /\ \A t, u \in IOThreads :
       io[t].pc # "idle" /\ io[u].pc # "idle" /\ io[t].req = io[u].req => t = u

\* No request is in two places.
OnePlace ==
  /\ Pushed \cap Queued = {} /\ Pushed \cap Held = {}
  /\ Pushed \cap Driven = {} /\ Pushed \cap Called = {}
  /\ Queued \cap Held = {} /\ Queued \cap Driven = {} /\ Queued \cap Called = {}
  /\ Held \cap Driven = {} /\ Held \cap Called = {}
  /\ Driven \cap Called = {}

\* A request on its way has a stamp that its Writer has handed out.
Stamped == \A r \in Outstanding : r.seq <= seq[r.writer]

PlaceInv == OncePerPlace /\ OnePlace /\ Stamped

places == <<Pushed, Queued, Held, Driven, Called>>

\* The union of the places, and the requests in them.
LEMMA OutstandingPlaces ==
  /\ Outstanding = Pushed \cup Queued \cup Held \cup Driven \cup Called
  /\ TypeInv => Outstanding \subseteq Request
<1>1. Outstanding = Pushed \cup Queued \cup Held \cup Driven \cup Called
  BY DEF Outstanding, Pushed, Queued, Held, Driven, Called
<1>2. ASSUME TypeInv PROVE Outstanding \subseteq Request
  <2>1. Pushed \subseteq Request /\ Called \subseteq Request
    BY <1>2 DEF TypeInv, Carried, Pushed, Called
  <2>2. Queued \subseteq Request /\ Held \subseteq Request
    BY <1>2 DEF TypeInv, TypeOK, Queued, Held
  <2>3. Driven \subseteq Request
    BY <1>2 DEF TypeInv, TypeOK, Driven, Future
  <2> QED
    BY <1>1, <2>1, <2>2, <2>3
<1> QED
  BY <1>1, <1>2

\* queue_async_query: a request that was nowhere before.
LEMMA QueryMoves ==
  ASSUME TypeInv, PlaceInv, NEW w \in Writers, NEW k \in Keys, queue_async_query(w, k)
  PROVE  \E r \in Request :
           /\ r = [writer |-> w, key |-> k, seq |-> seq[w] + 1]
           /\ r \notin Outstanding
           /\ Pushed' = Pushed \cup {r}
           /\ UNCHANGED <<Queued, Held, Driven, Called>>
           /\ OncePerPlace'
<1> DEFINE r == [writer |-> w, key |-> k, seq |-> seq[w] + 1]
<1>1. r \in Request /\ r.writer = w /\ r.seq = seq[w] + 1 /\ seq[w] \in Nat
  BY DEF TypeInv, TypeOK, Request
<1>2. /\ client[w] = "idle" /\ client' = [client EXCEPT ![w] = "push"]
      /\ pushing' = [pushing EXCEPT ![w] = r]
      /\ UNCHANGED <<data, held, thread, driver, io>>
  BY DEF queue_async_query, threadVars, driverVars
<1>3. client \in [Writers -> {"idle", "push", "signal", "wait", "destroy", "gone"}]
      /\ DOMAIN pushing = Writers
  BY DEF TypeInv, TypeOK
<1> HIDE DEF r
<1>4. r \notin Outstanding
  BY <1>1 DEF PlaceInv, Stamped
<1>5. Pushed' = Pushed \cup {r}
  BY <1>2, <1>3 DEF Pushed
<1>6. UNCHANGED <<Queued, Held, Driven, Called>>
  BY <1>2 DEF Queued, Held, Driven, Called
<1>7. OncePerPlace'
  BY <1>1, <1>2, <1>3 DEF PlaceInv, OncePerPlace
<1> QED
  BY <1>1, <1>4, <1>5, <1>6, <1>7 DEF r

\* push: from the client to the end of the queue.
LEMMA PushMoves ==
  ASSUME TypeInv, PlaceInv, NEW w \in Writers, push(w)
  PROVE  \E r \in Request :
           /\ r \in Pushed
           /\ Pushed' = Pushed \ {r} /\ Queued' = Queued \cup {r}
           /\ UNCHANGED <<Held, Driven, Called>>
           /\ OncePerPlace'
<1> DEFINE r == pushing[w]
<1>1. r \in Request /\ r \in Pushed
  BY DEF push, TypeInv, Carried, Pushed
<1>2. /\ client[w] = "push" /\ client' = [client EXCEPT ![w] = "signal"]
      /\ pushing' = [pushing EXCEPT ![w] = NoReq] /\ data' = Append(data, r)
      /\ UNCHANGED <<held, thread, driver, io>>
  BY DEF push, threadVars, driverVars
<1>3. /\ client \in [Writers -> {"idle", "push", "signal", "wait", "destroy", "gone"}]
      /\ pushing \in [Writers -> Request \cup {NoReq}] /\ data \in Seq(Request)
  BY DEF TypeInv, TypeOK
<1>4. \A v \in Writers : client[v] = "push" => pushing[v].writer = v
  BY DEF PlaceInv, OncePerPlace
<1>5. Pushed' = Pushed \ {r}
  BY <1>2, <1>3, <1>4 DEF Pushed
<1> HIDE DEF r
<1>6. /\ DOMAIN data = 1..Len(data) /\ DOMAIN data' = 1..(Len(data) + 1) /\ Len(data) \in Nat
      /\ \A i \in 1..Len(data) : data'[i] = data[i]
      /\ data'[Len(data) + 1] = r
  BY <1>1, <1>2, <1>3
<1>7. Queued' = Queued \cup {r}
  BY <1>6 DEF Queued
<1>8. UNCHANGED <<Held, Driven, Called>>
  BY <1>2 DEF Held, Driven, Called
<1>9. \A i, j \in DOMAIN data' : data'[i] = data'[j] => i = j
  <2>1. \A i \in DOMAIN data : data[i] # r
    BY <1>1 DEF PlaceInv, OnePlace, Queued
  <2> QED
    BY <1>6, <2>1 DEF PlaceInv, OncePerPlace
<1>10. OncePerPlace'
  BY <1>2, <1>3, <1>9 DEF PlaceInv, OncePerPlace
<1> QED
  BY <1>1, <1>5, <1>7, <1>8, <1>10

\* try_pop: from the head of the queue to the working thread.
LEMMA PopMoves ==
  ASSUME TypeInv, PlaceInv, try_pop
  PROVE  \E r \in Request :
           /\ r \in Queued /\ Held = {}
           /\ Queued' = Queued \ {r} /\ Held' = {r}
           /\ UNCHANGED <<Pushed, Driven, Called>>
           /\ OncePerPlace'
<1> DEFINE r == Head(data)
<1>1. /\ data # <<>> /\ held' = r /\ data' = Tail(data)
      /\ thread = "pop" /\ thread' = "execute"
      /\ UNCHANGED <<client, pushing, driver, io>>
  BY DEF try_pop, clientVars, driverVars
<1>2. data \in Seq(Request) /\ held = NoReq
  BY <1>1 DEF TypeInv, TypeOK, PlaceInv, OncePerPlace
<1>3. /\ r \in Request /\ r = data[1] /\ Len(data) \in Nat \ {0}
      /\ DOMAIN data = 1..Len(data) /\ DOMAIN data' = 1..(Len(data) - 1)
      /\ \A i \in 1..(Len(data) - 1) : data'[i] = data[i + 1]
  BY <1>1, <1>2
<1>4. \A i, j \in DOMAIN data : data[i] = data[j] => i = j
  BY DEF PlaceInv, OncePerPlace
<1> HIDE DEF r
<1>5. r \in Queued
  BY <1>3 DEF Queued
<1>6. Queued' = Queued \ {r}
  <2>1. ASSUME NEW x \in Queued' PROVE x \in Queued \ {r}
    <3>1. PICK i \in 1..(Len(data) - 1) : x = data[i + 1]
      BY <1>3 DEF Queued
    <3> QED
      BY <1>3, <1>4, <3>1 DEF Queued
  <2>2. ASSUME NEW x \in Queued \ {r} PROVE x \in Queued'
    <3>1. PICK i \in 1..Len(data) : x = data[i]
      BY <1>3 DEF Queued
    <3>2. i - 1 \in DOMAIN data' /\ data'[i - 1] = x
      BY <1>3, <3>1
    <3> QED
      BY <3>2 DEF Queued
  <2> QED
    BY <2>1, <2>2
<1>7. Held = {} /\ Held' = {r}
  BY <1>1, <1>2, <1>3 DEF Held
<1>8. UNCHANGED <<Pushed, Driven, Called>>
  BY <1>1 DEF Pushed, Driven, Called
<1>9. \A i, j \in DOMAIN data' : data'[i] = data'[j] => i = j
  BY <1>3, <1>4
<1>10. OncePerPlace'
  BY <1>1, <1>9 DEF PlaceInv, OncePerPlace
<1> QED
  BY <1>3, <1>5, <1>6, <1>7, <1>8, <1>10

\* async_query_execute adds its request to those in the driver's hands.
LEMMA ExecuteMoves ==
  ASSUME TypeInv, PlaceInv, NEW r \in Request, NEW t \in IOThreads,
         r \notin Driven, async_query_execute(r, t)
  PROVE  /\ Driven' = Driven \cup {r}
         /\ \A f, g \in driver' : f.req = g.req => f = g
<1> DEFINE f == [req |-> r, id |-> executed + 1, thr |-> t, st |-> "sent"]
<1>1. driver' = driver \cup {f} /\ f.req = r
  BY DEF async_query_execute
<1>2. \A g \in driver : g.req # r
  BY DEF Driven
<1> HIDE DEF f
<1> QED
  BY <1>1, <1>2 DEF Driven, PlaceInv, OncePerPlace

\* execute: from the working thread to the driver.
LEMMA ThreadExecuteMoves ==
  ASSUME TypeInv, PlaceInv, execute
  PROVE  \E r \in Request :
           /\ Held = {r} /\ Held' = {} /\ Driven' = Driven \cup {r}
           /\ UNCHANGED <<Pushed, Queued, Called>>
           /\ OncePerPlace'
<1>1. held \in Request /\ Held = {held} /\ held \notin Driven
  BY DEF execute, TypeInv, Carried, PlaceInv, OnePlace, Held
<1>2. PICK t \in IOThreads : async_query_execute(held, t)
  BY DEF execute
<1>3. /\ Driven' = Driven \cup {held}
      /\ \A f, g \in driver' : f.req = g.req => f = g
  BY <1>1, <1>2, ExecuteMoves
<1>4. held' = NoReq /\ UNCHANGED <<client, pushing, data, io>>
  BY DEF execute, clientVars
<1>5. Held' = {} /\ UNCHANGED <<Pushed, Queued, Called>>
  BY <1>4 DEF Held, Pushed, Queued, Called
<1>6. OncePerPlace'
  BY <1>3, <1>4 DEF PlaceInv, OncePerPlace
<1> QED
  BY <1>1, <1>3, <1>5, <1>6

\* callback: from the driver to the I/O thread.
LEMMA CallbackMoves ==
  ASSUME TypeInv, PlaceInv, NEW t \in IOThreads, callback(t)
  PROVE  \E r \in Request :
           /\ r \in Driven /\ Driven' = Driven \ {r} /\ Called' = Called \cup {r}
           /\ UNCHANGED <<Pushed, Queued, Held>>
           /\ OncePerPlace'
<1>1. PICK f \in driver :
        /\ f.st # "sent"
        /\ driver' = driver \ {f}
        /\ io' = [io EXCEPT ![t] = [pc |-> f.st, req |-> f.req, errs |-> 0]]
  BY DEF callback
<1>2. f.req \in Request /\ f.st \in {"ok", "err"} /\ DOMAIN io = IOThreads
  BY <1>1 DEF TypeInv, TypeOK, Future
<1>3. io[t].pc = "idle" /\ UNCHANGED <<client, pushing, data, held, thread>>
  BY DEF callback, clientVars, threadVars
<1>4. /\ f.req \in Driven /\ Driven' = Driven \ {f.req}
  BY <1>1 DEF Driven, PlaceInv, OncePerPlace
<1>5. /\ io'[t].pc # "idle" /\ io'[t].req = f.req
      /\ \A u \in IOThreads \ {t} : io'[u] = io[u]
  BY <1>1, <1>2
<1>6. Called' = Called \cup {f.req}
  BY <1>3, <1>5 DEF Called
<1>7. UNCHANGED <<Pushed, Queued, Held>>
  BY <1>3 DEF Pushed, Queued, Held
<1>8. f.req \notin Called
  BY <1>4 DEF PlaceInv, OnePlace
<1>9. OncePerPlace'
  <2>1. \A g, h \in driver' : g.req = h.req => g = h
    BY <1>1 DEF PlaceInv, OncePerPlace
  <2>2. \A u, v \in IOThreads :
          io'[u].pc # "idle" /\ io'[v].pc # "idle" /\ io'[u].req = io'[v].req => u = v
    <3>1. \A u \in IOThreads \ {t} : io[u].pc # "idle" => io[u].req # f.req
      BY <1>8 DEF Called
    <3> QED
      BY <1>5, <3>1 DEF PlaceInv, OncePerPlace
  <2> QED
    BY <1>3, <2>1, <2>2 DEF PlaceInv, OncePerPlace
<1> QED
  BY <1>2, <1>4, <1>6, <1>7, <1>9

\* A callback that ends lets go of its request.
LEMMA LetGo ==
  ASSUME TypeInv, PlaceInv, NEW t \in IOThreads, io[t].pc # "idle",
         io' = [io EXCEPT ![t] = IOIdle]
  PROVE  /\ io[t].req \in Called /\ Called' = Called \ {io[t].req}
         /\ \A u, v \in IOThreads :
              io'[u].pc # "idle" /\ io'[v].pc # "idle" /\ io'[u].req = io'[v].req => u = v
<1>1. /\ io'[t].pc = "idle"
      /\ \A u \in IOThreads \ {t} : io'[u] = io[u]
  BY DEF TypeInv, TypeOK, IOIdle
<1>2. \A u \in IOThreads \ {t} : io[u].pc # "idle" => io[u].req # io[t].req
  BY DEF PlaceInv, OncePerPlace
<1> QED
  BY <1>1, <1>2 DEF Called, PlaceInv, OncePerPlace

\* finish_async_call: the request is nowhere any more.
LEMMA FinishMoves ==
  ASSUME TypeInv, PlaceInv, NEW t \in IOThreads, finish_async_call(t)
  PROVE  /\ io[t].req \in Request
         /\ io[t].req \in Called /\ Called' = Called \ {io[t].req}
         /\ UNCHANGED <<Pushed, Queued, Held, Driven>>
         /\ OncePerPlace'
<1>1. /\ io[t].pc # "idle" /\ io' = [io EXCEPT ![t] = IOIdle]
      /\ UNCHANGED <<client, pushing, data, held, thread, driver>>
  BY DEF finish_async_call, clientVars, threadVars, driverVars
<1>2. UNCHANGED <<Pushed, Queued, Held, Driven>>
  BY <1>1 DEF Pushed, Queued, Held, Driven
<1>3. OncePerPlace'
  BY <1>1, LetGo DEF PlaceInv, OncePerPlace
<1> QED
  BY <1>1, <1>2, <1>3, LetGo DEF TypeInv, Carried

\* retry: from the I/O thread back to the driver.
LEMMA RetryMoves ==
  ASSUME TypeInv, PlaceInv, NEW t \in IOThreads, retry(t)
  PROVE  \E r \in Request :
           /\ r \in Called /\ Called' = Called \ {r} /\ Driven' = Driven \cup {r}
           /\ UNCHANGED <<Pushed, Queued, Held>>
           /\ OncePerPlace'
<1> DEFINE r == io[t].req
<1>1. /\ io[t].pc # "idle" /\ io' = [io EXCEPT ![t] = IOIdle]
      /\ UNCHANGED <<client, pushing, data, held, thread>>
  BY DEF retry, clientVars, threadVars
<1>2. r \in Request /\ r \in Called /\ Called' = Called \ {r}
  BY <1>1, LetGo DEF TypeInv, Carried
<1>3. r \notin Driven
  BY <1>2 DEF PlaceInv, OnePlace
<1>4. PICK u \in IOThreads : async_query_execute(r, u)
  BY DEF retry
<1>5. /\ Driven' = Driven \cup {r}
      /\ \A f, g \in driver' : f.req = g.req => f = g
  BY <1>2, <1>3, <1>4, ExecuteMoves
<1>6. UNCHANGED <<Pushed, Queued, Held>>
  BY <1>1 DEF Pushed, Queued, Held
<1>7. OncePerPlace'
  BY <1>1, <1>5, LetGo DEF PlaceInv, OncePerPlace
<1> QED
  BY <1>2, <1>5, <1>6, <1>7

\* An answer of Cassandra leaves the request in the driver's hands.
LEMMA AnswerMoves ==
  ASSUME TypeInv, PlaceInv, NEW f \in driver, NEW s \in {"ok", "err"},
         driver' = (driver \ {f}) \cup {[f EXCEPT !.st = s]}
  PROVE  /\ Driven' = Driven
         /\ \A g, h \in driver' : g.req = h.req => g = h
<1> DEFINE a == [f EXCEPT !.st = s]
<1>1. a.req = f.req
  BY DEF TypeInv, TypeOK, Future
<1>2. driver' = (driver \ {f}) \cup {a}
  OBVIOUS
<1> HIDE DEF a
<1>3. \A g \in driver \ {f} : g.req # f.req
  BY DEF PlaceInv, OncePerPlace
<1> QED
  BY <1>1, <1>2, <1>3 DEF Driven, PlaceInv, OncePerPlace

\* The steps that leave every request where it is.
LEMMA StayMoves ==
  ASSUME TypeInv, PlaceInv,
         \/ \E w \in Writers : flush_elements(w) \/ destroy_writer(w) \/ signal(w) \/ completed(w)
         \/ check_finish \/ acquire_pending \/ count_call \/ try_pop_fails
         \/ \E t \in IOThreads : callback_ok(t) \/ error_read(t) \/ set_error_occurred(t)
         \/ cassandra \/ exit \/ exitStep \/ UNCHANGED vars
  PROVE  UNCHANGED places /\ OncePerPlace' /\ UNCHANGED <<seq, wcallbacks>>
<1> USE DEF clientVars, threadVars, driverVars, places
<1>1. ASSUME NEW w \in Writers,
             flush_elements(w) \/ destroy_writer(w) \/ signal(w) \/ completed(w)
      PROVE  UNCHANGED places /\ OncePerPlace' /\ UNCHANGED <<seq, wcallbacks>>
  <2>1. UNCHANGED <<seq, wcallbacks, pushing, data, held, thread, driver, io>>
    BY <1>1 DEF flush_elements, destroy_writer, await, signal, completed
  <2>2. \A v \in Writers : client'[v] = "push" <=> client[v] = "push"
    BY <1>1 DEF flush_elements, destroy_writer, await, signal, completed, TypeInv, TypeOK
  <2> QED
    BY <2>1, <2>2 DEF Pushed, Queued, Held, Driven, Called, PlaceInv, OncePerPlace
<1>2. CASE check_finish \/ acquire_pending \/ count_call \/ try_pop_fails
  <2>1. UNCHANGED <<seq, wcallbacks, client, pushing, data, held, driver, io>>
    BY <1>2 DEF check_finish, acquire_pending, count_call, try_pop_fails
  <2>2. thread # "execute"
    BY <1>2 DEF check_finish, acquire_pending, count_call, try_pop_fails
  <2> QED
    BY <2>1, <2>2 DEF Pushed, Queued, Held, Driven, Called, PlaceInv, OncePerPlace
<1>3. ASSUME NEW t \in IOThreads, callback_ok(t) \/ error_read(t) \/ set_error_occurred(t)
      PROVE  UNCHANGED places /\ OncePerPlace' /\ UNCHANGED <<seq, wcallbacks>>
  <2>1. UNCHANGED <<seq, wcallbacks, client, pushing, data, held, thread, driver>>
    BY <1>3 DEF callback_ok, error_read, set_error_occurred
  <2>2. \A u \in IOThreads : io'[u].req = io[u].req /\ (io'[u].pc = "idle" <=> io[u].pc = "idle")
    <3>1. io \in [IOThreads -> IOState]
      BY DEF TypeInv, TypeOK
    <3>2. CASE callback_ok(t)
      BY <3>1, <3>2 DEF callback_ok, IOState
    <3>3. CASE error_read(t)
      BY <3>1, <3>3 DEF error_read, IOState
    <3>4. CASE set_error_occurred(t)
      BY <3>1, <3>4 DEF set_error_occurred, IOState
    <3> QED
      BY <1>3, <3>2, <3>3, <3>4
  <2> QED
    BY <2>1, <2>2 DEF Pushed, Queued, Held, Driven, Called, PlaceInv, OncePerPlace
<1>4. CASE cassandra
  <2>1. UNCHANGED <<seq, wcallbacks, client, pushing, data, held, thread, io>>
    BY <1>4 DEF cassandra
  <2> DEFINE Kept == Driven' = Driven /\ \A g, h \in driver' : g.req = h.req => g = h
  <2>2. Kept
    <3>1. ASSUME NEW f \in driver, cass_apply(f) \/ cass_fail(f) PROVE Kept
      BY <3>1, AnswerMoves DEF cass_apply, cass_fail
    <3>2. CASE driver' = driver
      BY <3>2 DEF Driven, PlaceInv, OncePerPlace
    <3> QED
      BY <1>4, <3>1, <3>2 DEF cassandra, resolve, cass_late
  <2> QED
    BY <2>1, <2>2 DEF Pushed, Queued, Held, Called, PlaceInv, OncePerPlace
<1>5. CASE exit \/ exitStep \/ UNCHANGED vars
  <2>1. UNCHANGED <<seq, wcallbacks, client, pushing, data, held, thread, driver, io>>
    BY <1>5 DEF exit, exitStep, drain_data, drain_callbacks, release_thread, join, vars
  <2> QED
    BY <2>1 DEF Pushed, Queued, Held, Driven, Called, PlaceInv, OncePerPlace
<1> QED
  BY <1>1, <1>2, <1>3, <1>4, <1>5

\* Cause and effect of a step: a Writer makes a request, a callback ends one, or requests
\* only move.
Queries ==
  \E w \in Writers, k \in Keys, r \in Request :
    /\ queue_async_query(w, k)
    /\ r = [writer |-> w, key |-> k, seq |-> seq[w] + 1]
    /\ r \notin Outstanding /\ Outstanding' = Outstanding \cup {r}

Finishes ==
  \E t \in IOThreads :
    /\ finish_async_call(t)
    /\ io[t].req \in Outstanding /\ Outstanding' = Outstanding \ {io[t].req}

Moves == Outstanding' = Outstanding /\ UNCHANGED <<seq, last, wcallbacks>>

\* Every step keeps the requests apart.
LEMMA NextMoves ==
  ASSUME TypeInv, PlaceInv, [Next]_vars
  PROVE  /\ OncePerPlace' /\ OnePlace'
         /\ Queries \/ Finishes \/ Moves
<1> DEFINE Goal == OncePerPlace' /\ OnePlace' /\ (Queries \/ Finishes \/ Moves)
           All == Pushed \cup Queued \cup Held \cup Driven \cup Called
<1>0. Outstanding = All /\ Outstanding' = All' /\ OnePlace
  <2>1. Outstanding' = All'
    BY DEF Outstanding, Pushed, Queued, Held, Driven, Called
  <2> QED
    BY <2>1, OutstandingPlaces DEF PlaceInv
<1>1. ASSUME NEW w \in Writers, NEW k \in Keys, queue_async_query(w, k) PROVE Goal
  <2>1. PICK r \in Request :
           /\ r = [writer |-> w, key |-> k, seq |-> seq[w] + 1]
           /\ r \notin Outstanding
           /\ Pushed' = Pushed \cup {r}
           /\ UNCHANGED <<Queued, Held, Driven, Called>>
           /\ OncePerPlace'
    BY <1>1, QueryMoves
  <2>2. OnePlace' /\ Outstanding' = Outstanding \cup {r}
    BY <1>0, <2>1 DEF OnePlace
  <2> QED
    BY <1>1, <2>1, <2>2 DEF Queries
<1>2. ASSUME NEW t \in IOThreads, finish_async_call(t) PROVE Goal
  <2>1. OnePlace' /\ io[t].req \in Outstanding /\ Outstanding' = Outstanding \ {io[t].req}
    BY <1>0, <1>2, FinishMoves DEF OnePlace
  <2> QED
    BY <1>2, <2>1, FinishMoves DEF Finishes
<1>3. ASSUME NEW w \in Writers, push(w) PROVE Goal
  <2>1. OncePerPlace' /\ OnePlace' /\ Outstanding' = Outstanding
    BY <1>0, <1>3, PushMoves DEF OnePlace
  <2> QED
    BY <1>3, <2>1 DEF Moves, push
<1>4. CASE try_pop
  <2>1. OncePerPlace' /\ OnePlace' /\ Outstanding' = Outstanding
    BY <1>0, <1>4, PopMoves DEF OnePlace
  <2> QED
    BY <1>4, <2>1 DEF Moves, try_pop, clientVars
<1>5. CASE execute
  <2>1. OncePerPlace' /\ OnePlace' /\ Outstanding' = Outstanding
    BY <1>0, <1>5, ThreadExecuteMoves DEF OnePlace
  <2> QED
    BY <1>5, <2>1 DEF Moves, execute, clientVars
<1>6. ASSUME NEW t \in IOThreads, callback(t) PROVE Goal
  <2>1. OncePerPlace' /\ OnePlace' /\ Outstanding' = Outstanding
    BY <1>0, <1>6, CallbackMoves DEF OnePlace
  <2> QED
    BY <1>6, <2>1 DEF Moves, callback, clientVars
<1>7. ASSUME NEW t \in IOThreads, retry(t) PROVE Goal
  <2>1. OncePerPlace' /\ OnePlace' /\ Outstanding' = Outstanding
    BY <1>0, <1>7, RetryMoves DEF OnePlace
  <2> QED
    BY <1>7, <2>1 DEF Moves, retry, clientVars
<1>8. ASSUME \/ \E w \in Writers : flush_elements(w) \/ destroy_writer(w) \/ signal(w) \/ completed(w)
             \/ check_finish \/ acquire_pending \/ count_call \/ try_pop_fails
             \/ \E t \in IOThreads : callback_ok(t) \/ error_read(t) \/ set_error_occurred(t)
             \/ cassandra \/ exit \/ exitStep \/ UNCHANGED vars
      PROVE  Goal
  <2>1. UNCHANGED places /\ OncePerPlace' /\ UNCHANGED <<seq, wcallbacks>>
    BY <1>8, StayMoves
  <2>2. last' = last
    BY <1>8 DEF flush_elements, destroy_writer, await, signal, completed, check_finish,
         acquire_pending, count_call, try_pop_fails, callback_ok, error_read,
         set_error_occurred, cassandra, exit, exitStep, drain_data, drain_callbacks,
         release_thread, join, vars, clientVars
  <2>3. OnePlace' /\ Outstanding' = Outstanding
    BY <1>0, <2>1 DEF OnePlace, places
  <2> QED
    BY <2>1, <2>2, <2>3 DEF Moves
<1>9. CASE Next
  BY <1>1, <1>2, <1>3, <1>4, <1>5, <1>6, <1>7, <1>8, <1>9
     DEF Next, clientStep, threadStep, ioStep, terminated
<1> QED
  BY <1>8, <1>9

\* The places are kept, and every request on its way has been stamped.
LEMMA NextPlaces ==
  ASSUME TypeInv, PlaceInv, [Next]_vars
  PROVE  PlaceInv'
<1>1. Stamped /\ Outstanding \subseteq Request /\ seq \in [Writers -> Nat]
  BY OutstandingPlaces DEF PlaceInv, TypeInv, TypeOK
<1>2. CASE Queries
  <2>1. PICK w \in Writers, k \in Keys, r \in Request :
          /\ queue_async_query(w, k)
          /\ r = [writer |-> w, key |-> k, seq |-> seq[w] + 1]
          /\ Outstanding' = Outstanding \cup {r}
    BY <1>2 DEF Queries
  <2>2. seq' = [seq EXCEPT ![w] = @ + 1] /\ r.writer = w /\ r.seq = seq[w] + 1
    BY <2>1 DEF queue_async_query
  <2>3. \A x \in Outstanding : x.writer \in Writers /\ x.seq \in Nat
    BY <1>1 DEF Request
  <2> QED
    BY <1>1, <2>1, <2>2, <2>3, NextMoves DEF PlaceInv, Stamped
<1>3. CASE Finishes
  <2>1. Outstanding' \subseteq Outstanding /\ seq' = seq
    BY <1>3 DEF Finishes, finish_async_call, clientVars
  <2> QED
    BY <1>1, <2>1, NextMoves DEF PlaceInv, Stamped
<1>4. CASE Moves
  BY <1>1, <1>4, NextMoves DEF PlaceInv, Stamped, Moves
<1> QED
  BY <1>2, <1>3, <1>4, NextMoves

\* No place holds anything at first.
LEMMA InitPlaces == Init => PlaceInv /\ Outstanding = {}
<1> SUFFICES ASSUME Init PROVE PlaceInv /\ Outstanding = {}
  OBVIOUS
<1>1. Pushed = {} /\ Queued = {} /\ Held = {} /\ Driven = {}
  BY DEF Init, Pushed, Queued, Held, Driven
<1>2. Called = {}
  BY DEF Init, Called, IOIdle
<1>3. OncePerPlace
  BY DEF Init, OncePerPlace, IOIdle
<1> QED
  BY <1>1, <1>2, <1>3, OutstandingPlaces DEF PlaceInv, OnePlace, Stamped

-----------------------------------------------------------------------------
(* Counters. *)

CountInv ==
  \A w \in Writers :
    /\ IsFiniteSet(OutstandingOf(w))
    /\ wcallbacks[w] = Cardinality(OutstandingOf(w))

\* The counter follows the requests of its Writer.
LEMMA NextCount ==
  ASSUME TypeInv, PlaceInv, CountInv, [Next]_vars
  PROVE  CountInv'
<1>1. wcallbacks \in [Writers -> Int] /\ Outstanding \subseteq Request
  BY OutstandingPlaces DEF TypeInv, TypeOK
<1>2. ASSUME NEW v \in Writers
      PROVE  Cardinality(OutstandingOf(v)) \in Nat
  BY FS_CardinalityType DEF CountInv
<1>3. CASE Queries
  <2>1. PICK w \in Writers, k \in Keys, r \in Request :
          /\ queue_async_query(w, k)
          /\ r = [writer |-> w, key |-> k, seq |-> seq[w] + 1]
          /\ r \notin Outstanding /\ Outstanding' = Outstanding \cup {r}
    BY <1>3 DEF Queries
  <2>2. wcallbacks' = [wcallbacks EXCEPT ![w] = @ + 1] /\ r.writer = w
    BY <2>1 DEF queue_async_query
  <2>3. OutstandingOf(w)' = OutstandingOf(w) \cup {r} /\ r \notin OutstandingOf(w)
    BY <2>1, <2>2 DEF OutstandingOf
  <2>4. \A v \in Writers \ {w} : OutstandingOf(v)' = OutstandingOf(v)
    BY <2>1, <2>2 DEF OutstandingOf
  <2>5. /\ IsFiniteSet(OutstandingOf(w)')
        /\ Cardinality(OutstandingOf(w)') = Cardinality(OutstandingOf(w)) + 1
    BY <2>3, FS_AddElement DEF CountInv
  <2> QED
    BY <1>1, <1>2, <2>2, <2>4, <2>5 DEF CountInv
<1>4. CASE Finishes
  <2>1. PICK t \in IOThreads, r \in Request :
          /\ finish_async_call(t) /\ r = io[t].req
          /\ r \in Outstanding /\ Outstanding' = Outstanding \ {r}
    BY <1>1, <1>4 DEF Finishes
  <2>2. PICK w \in Writers :
          w = r.writer /\ wcallbacks' = [wcallbacks EXCEPT ![w] = @ - 1]
    BY <2>1 DEF finish_async_call, Request
  <2>3. OutstandingOf(w)' = OutstandingOf(w) \ {r} /\ r \in OutstandingOf(w)
    BY <2>1, <2>2 DEF OutstandingOf
  <2>4. \A v \in Writers \ {w} : OutstandingOf(v)' = OutstandingOf(v)
    BY <2>1, <2>2 DEF OutstandingOf
  <2>5. /\ IsFiniteSet(OutstandingOf(w)')
        /\ Cardinality(OutstandingOf(w)') = Cardinality(OutstandingOf(w)) - 1
    BY <2>2, <2>3, FS_RemoveElement DEF CountInv
  <2> QED
    BY <1>1, <1>2, <2>2, <2>4, <2>5 DEF CountInv
<1>5. CASE Moves
  BY <1>5 DEF Moves, CountInv, OutstandingOf
<1> QED
  BY <1>3, <1>4, <1>5, NextMoves

\* The places, the counters and the types together.
THEOREM PathInvariance == Spec => [](TypeInv /\ PlaceInv /\ CountInv)
<1>1. Init => CountInv
  BY InitPlaces, FS_EmptySet DEF Init, CountInv, OutstandingOf
<1> QED
  BY <1>1, InitPlaces, NextPlaces, NextCount, TypeInvariance, PTL DEF Spec

\* Writer::ncallbacks counts exactly the requests of its Writer that are on their way:
\* none is forgotten, dropped or finished twice, through any number of retries.
THEOREM CountTheorem == Spec => []CountedOnce
<1>1. CountInv => CountedOnce
  BY DEF CountInv, CountedOnce
<1> QED
  BY <1>1, PathInvariance, PTL

-----------------------------------------------------------------------------
(* Destruction. *)

\* The callbacks that have not yet counted their request down, and the request that the
\* working thread has counted and not handed on.
Working == {t \in IOThreads : io[t].pc \in {"ok", "err", "count", "retry"}}
InHand == IF thread \in {"pop", "execute"} THEN 1 ELSE 0

\* WriterThread::ncallbacks is the number of requests between try_pop and the end of their
\* callback; MaxCallbacks - semmax of them are with the driver (PermitsConserved).
WorkInv ==
  /\ IsFiniteSet(Working)
  /\ phase # "aborted" =>
       ncallbacks = InHand + (MaxCallbacks - semmax) + Cardinality(Working)

\* A step that keeps the balance keeps the invariant.
LEMMA WorkBalance ==
  ASSUME WorkInv, phase # "aborted", IsFiniteSet(Working'),
         phase' # "aborted" /\ ncallbacks = InHand + (MaxCallbacks - semmax) + Cardinality(Working)
           => ncallbacks' = InHand' + (MaxCallbacks - semmax') + Cardinality(Working')
  PROVE  WorkInv'
BY DEF WorkInv

\* A callback enters or leaves its working part.
LEMMA WorkingSet ==
  ASSUME TypeInv, WorkInv, NEW t \in IOThreads,
         \A u \in IOThreads \ {t} : io'[u].pc = io[u].pc
  PROVE  /\ IsFiniteSet(Working')
         /\ Cardinality(Working) \in Nat
         /\ t \in Working /\ t \in Working' => Cardinality(Working') = Cardinality(Working)
         /\ t \notin Working /\ t \notin Working' => Cardinality(Working') = Cardinality(Working)
         /\ t \notin Working /\ t \in Working' => Cardinality(Working') = Cardinality(Working) + 1
         /\ t \in Working /\ t \notin Working' => Cardinality(Working') = Cardinality(Working) - 1
<1>1. IsFiniteSet(Working) /\ Cardinality(Working) \in Nat
  BY FS_CardinalityType DEF WorkInv
<1>2. CASE t \in Working'
  <2>1. Working' = Working \cup {t}
    BY <1>2 DEF Working
  <2> QED
    BY <1>1, <1>2, <2>1, FS_AddElement
<1>3. CASE t \notin Working'
  <2>1. Working' = Working \ {t}
    BY <1>3 DEF Working
  <2> QED
    BY <1>1, <1>3, <2>1, FS_RemoveElement
<1> QED
  BY <1>2, <1>3

\* The callbacks keep the count.
LEMMA IOWork ==
  ASSUME TypeInv, WorkInv, phase # "aborted", NEW t \in IOThreads, ioStep(t)
  PROVE  WorkInv'
<1>1. /\ \A u \in IOThreads \ {t} : io'[u] = io[u]
      /\ DOMAIN io = IOThreads
  BY DEF ioStep, callback, callback_ok, finish_async_call, error_read, set_error_occurred,
         retry, TypeInv, TypeOK
<1>2. /\ InHand' = InHand /\ InHand \in Nat /\ semmax \in Nat /\ ncallbacks \in Int
      /\ Cardinality(Working) \in Nat /\ IsFiniteSet(Working')
  BY <1>1, WorkingSet DEF ioStep, callback, callback_ok, finish_async_call, error_read,
       set_error_occurred, retry, threadVars, InHand, TypeInv, TypeOK
<1>3. CASE callback(t)
  <2>1. io[t].pc = "idle" /\ io'[t].pc \in {"ok", "err"}
    BY <1>1, <1>3 DEF callback, TypeInv, TypeOK, Future
  <2>2. Cardinality(Working') = Cardinality(Working) + 1
    BY <1>1, <2>1, WorkingSet DEF Working
  <2>3. semmax' = semmax + 1 /\ ncallbacks' = ncallbacks
    BY <1>3 DEF callback
  <2> QED
    BY <1>2, <2>2, <2>3, WorkBalance
<1>4. CASE callback_ok(t)
  <2>1. io[t].pc = "ok" /\ io'[t].pc = "notify"
    BY <1>1, <1>4 DEF callback_ok, TypeInv, TypeOK, IOState
  <2>2. Cardinality(Working') = Cardinality(Working) - 1
    BY <1>1, <2>1, WorkingSet DEF Working
  <2>3. semmax' = semmax /\ ncallbacks' = ncallbacks - 1
    BY <1>4 DEF callback_ok
  <2> QED
    BY <1>2, <2>2, <2>3, WorkBalance
<1>5. CASE finish_async_call(t) \/ error_read(t)
  <2>1. \/ io[t].pc = "notify" /\ io'[t].pc = "idle"
        \/ io[t].pc = "err" /\ io'[t].pc = "count"
    BY <1>1, <1>5 DEF finish_async_call, error_read, IOIdle, TypeInv, TypeOK, IOState
  <2>2. Cardinality(Working') = Cardinality(Working)
    BY <1>1, <2>1, WorkingSet DEF Working
  <2>3. semmax' = semmax /\ ncallbacks' = ncallbacks
    BY <1>5 DEF finish_async_call, error_read
  <2> QED
    BY <1>2, <2>2, <2>3, WorkBalance
<1>6. CASE set_error_occurred(t)
  <2>1. CASE phase' = "aborted"
    BY <1>2, <2>1 DEF WorkInv
  <2>2. CASE phase' # "aborted"
    <3>1. io[t].pc = "count" /\ io'[t].pc = "retry" /\ ncallbacks' = ncallbacks /\ semmax' = semmax
      BY <1>1, <1>6, <2>2 DEF set_error_occurred, TypeInv, TypeOK, IOState
    <3>2. Cardinality(Working') = Cardinality(Working)
      BY <1>1, <3>1, WorkingSet DEF Working
    <3> QED
      BY <1>2, <3>1, <3>2, WorkBalance
  <2> QED
    BY <2>1, <2>2
<1>7. CASE retry(t)
  <2>1. io[t].pc = "retry" /\ io'[t].pc = "idle"
    BY <1>1, <1>7 DEF retry, IOIdle
  <2>2. Cardinality(Working') = Cardinality(Working) - 1
    BY <1>1, <2>1, WorkingSet DEF Working
  <2>3. semmax' = semmax - 1 /\ ncallbacks' = ncallbacks
    BY <1>7 DEF retry, async_query_execute
  <2> QED
    BY <1>2, <2>2, <2>3, WorkBalance
<1> QED
  BY <1>3, <1>4, <1>5, <1>6, <1>7 DEF ioStep

\* The working thread counts a request before it pops it, and takes it back if there is none.
LEMMA ThreadWork ==
  ASSUME TypeInv, WorkInv, phase # "aborted", threadStep
  PROVE  WorkInv'
<1>1. Working' = Working /\ IsFiniteSet(Working) /\ Cardinality(Working) \in Nat
  BY FS_CardinalityType DEF threadStep, check_finish, acquire_pending, count_call, try_pop,
       try_pop_fails, execute, Working, WorkInv
<1>2. semmax \in Nat /\ ncallbacks \in Int
  BY DEF TypeInv, TypeOK
<1>3. CASE check_finish \/ acquire_pending \/ try_pop
  <2>1. UNCHANGED <<InHand, semmax, ncallbacks>>
    BY <1>3 DEF check_finish, acquire_pending, try_pop, InHand
  <2> QED
    BY <1>1, <2>1, WorkBalance
<1>4. CASE count_call
  <2>1. InHand = 0 /\ InHand' = 1 /\ semmax' = semmax /\ ncallbacks' = ncallbacks + 1
    BY <1>4 DEF count_call, InHand
  <2> QED
    BY <1>1, <1>2, <2>1, WorkBalance
<1>5. CASE try_pop_fails
  <2>1. InHand = 1 /\ InHand' = 0 /\ semmax' = semmax /\ ncallbacks' = ncallbacks - 1
    BY <1>5 DEF try_pop_fails, InHand
  <2> QED
    BY <1>1, <1>2, <2>1, WorkBalance
<1>6. CASE execute
  <2>1. InHand = 1 /\ InHand' = 0 /\ semmax' = semmax - 1 /\ ncallbacks' = ncallbacks
    BY <1>6 DEF execute, async_query_execute, InHand
  <2> QED
    BY <1>1, <1>2, <2>1, WorkBalance
<1> QED
  BY <1>3, <1>4, <1>5, <1>6 DEF threadStep

\* Every step keeps the count.
LEMMA NextWork ==
  ASSUME TypeInv, WorkInv, [Next]_vars
  PROVE  WorkInv'
<1>1. ASSUME UNCHANGED <<io, thread, semmax, ncallbacks>>, phase = "aborted" => phase' = "aborted"
      PROVE  WorkInv'
  <2>1. UNCHANGED <<Working, InHand>>
    BY <1>1 DEF Working, InHand
  <2> QED
    BY <1>1, <2>1 DEF WorkInv
<1>2. CASE UNCHANGED vars
  BY <1>1, <1>2 DEF vars
<1>3. ASSUME NEW w \in Writers,
             \/ \E k \in Keys : queue_async_query(w, k)
             \/ flush_elements(w) \/ destroy_writer(w) \/ clientStep(w)
      PROVE  WorkInv'
  BY <1>1, <1>3 DEF queue_async_query, flush_elements, destroy_writer, await, clientStep,
       push, signal, completed, threadVars
<1>4. CASE cassandra
  BY <1>1, <1>4 DEF cassandra, threadVars
<1>5. CASE exit \/ exitStep
  BY <1>1, <1>5 DEF exit, exitStep, drain_data, drain_callbacks, release_thread, join, threadVars
<1> QED
  BY <1>2, <1>3, <1>4, <1>5, ThreadWork, IOWork DEF Next, terminated

\* The phases of ~WriterThread: clients are quiet, then the queue is empty, then nothing
\* is in the driver's hands, then the working thread is over.
ExitInv ==
  /\ phase \in {"drain", "drained", "release", "join"}
       => \A w \in Writers : client[w] \in {"idle", "gone"}
  /\ phase = "dead" => \A w \in Writers : client[w] \notin {"push", "signal"}
  /\ phase \in {"drained", "release", "join", "dead"} => data = <<>>
  /\ phase \in {"release", "join", "dead"}
       => driver = {} /\ thread # "execute" /\ Working = {}
  /\ phase = "dead" => thread = "done"

\* When ncallbacks is zero, nothing is between try_pop and the end of its callback.
LEMMA NothingInWork ==
  ASSUME TypeInv, PermitInv, WorkInv, phase # "aborted", ~(ncallbacks > 0)
  PROVE  driver = {} /\ Working = {} /\ thread # "execute"
<1>1. /\ Cardinality(driver) \in Nat /\ Cardinality(Working) \in Nat
      /\ IsFiniteSet(driver) /\ IsFiniteSet(Working)
  BY FS_CardinalityType DEF PermitInv, Futures, WorkInv
<1>2. semmax + Cardinality(driver) = MaxCallbacks
  BY DEF PermitInv, PermitsConserved
<1>3. /\ ncallbacks = InHand + (MaxCallbacks - semmax) + Cardinality(Working)
      /\ InHand \in Nat /\ semmax \in Nat /\ ncallbacks \in Int
  BY DEF WorkInv, InHand, TypeInv, TypeOK
<1>4. InHand = 0 /\ Cardinality(driver) = 0 /\ Cardinality(Working) = 0
  BY <1>1, <1>2, <1>3
<1>5. driver = {} /\ Working = {}
  BY <1>1, <1>4, FS_EmptySet
<1> QED
  BY <1>4, <1>5 DEF InHand

\* The destructor's phases pass in order.
LEMMA NextExit ==
  ASSUME TypeInv, PlaceInv, PermitInv, WorkInv, ExitInv, [Next]_vars
  PROVE  ExitInv'
<1> USE DEF ExitInv
<1>1. CASE UNCHANGED vars
  BY <1>1 DEF vars, Working
<1>2. ASSUME phase # "aborted", NEW w \in Writers,
             \/ \E k \in Keys : queue_async_query(w, k)
             \/ flush_elements(w) \/ destroy_writer(w) \/ clientStep(w)
      PROVE  ExitInv'
  <2>1. UNCHANGED <<phase, driver, thread, Working>>
    BY <1>2 DEF queue_async_query, flush_elements, destroy_writer, await, clientStep,
         push, signal, completed, threadVars, driverVars, Working
  <2>2. client \in [Writers -> {"idle", "push", "signal", "wait", "destroy", "gone"}]
    BY DEF TypeInv, TypeOK
  <2>3. CASE \E k \in Keys : queue_async_query(w, k)
    BY <2>1, <2>3 DEF queue_async_query
  <2>4. CASE flush_elements(w) \/ destroy_writer(w)
    BY <2>1, <2>2, <2>4 DEF flush_elements, destroy_writer, await
  <2>5. CASE push(w) \/ signal(w)
    BY <2>1, <2>2, <2>5 DEF push, signal, TypeInv, TypeOK
  <2>6. CASE completed(w)
    BY <2>1, <2>2, <2>6 DEF completed
  <2> QED
    BY <1>2, <2>3, <2>4, <2>5, <2>6 DEF clientStep
<1>3. CASE phase # "aborted" /\ threadStep
  <2>1. UNCHANGED <<phase, client, Working>>
    BY <1>3 DEF threadStep, check_finish, acquire_pending, count_call, try_pop, try_pop_fails,
         execute, clientVars, Working
  <2>2. data = <<>> => data' = <<>>
    BY <1>3 DEF threadStep, check_finish, acquire_pending, count_call, try_pop, try_pop_fails,
         execute
  <2>3. thread # "execute" => driver' = driver /\ (data = <<>> => thread' # "execute")
    BY <1>3 DEF threadStep, check_finish, acquire_pending, count_call, try_pop, try_pop_fails,
         execute, driverVars
  <2>4. thread # "done"
    BY <1>3 DEF threadStep, check_finish, acquire_pending, count_call, try_pop, try_pop_fails,
         execute
  <2> QED
    BY <2>1, <2>2, <2>3, <2>4
<1>4. ASSUME phase # "aborted", NEW t \in IOThreads, ioStep(t) PROVE ExitInv'
  <2>1. UNCHANGED <<client, data, thread>> /\ (phase' = phase \/ phase' = "aborted")
    BY <1>4 DEF ioStep, callback, callback_ok, finish_async_call, error_read,
         set_error_occurred, retry, clientVars, threadVars
  <2>2. driver = {} /\ Working = {} => driver' = {} /\ Working' = {}
    <3> SUFFICES ASSUME driver = {}, Working = {} PROVE driver' = {} /\ Working' = {}
      OBVIOUS
    <3>1. io[t].pc \notin {"ok", "err", "count", "retry"}
      BY DEF Working
    <3>2. finish_async_call(t)
      BY <1>4, <3>1 DEF ioStep, callback, callback_ok, error_read, set_error_occurred, retry
    <3> QED
      BY <3>2 DEF finish_async_call, driverVars, IOIdle, Working, TypeInv, TypeOK
  <2> QED
    BY <2>1, <2>2
<1>5. CASE cassandra
  <2>1. UNCHANGED <<phase, client, data, thread, Working>>
    BY <1>5 DEF cassandra, clientVars, threadVars, Working
  <2>2. driver = {} => driver' = {}
    BY <1>5 DEF cassandra, resolve, cass_late, driverVars
  <2> QED
    BY <2>1, <2>2
<1>6. CASE exit \/ drain_data \/ release_thread \/ join
  <2>1. UNCHANGED <<client, data, thread, driver, Working>>
    BY <1>6 DEF exit, drain_data, release_thread, join, clientVars, threadVars, driverVars, Working
  <2> QED
    BY <1>6, <2>1 DEF exit, drain_data, release_thread, join
<1>7. CASE drain_callbacks
  <2>1. UNCHANGED <<client, data, thread, driver, Working>>
    BY <1>7 DEF drain_callbacks, clientVars, threadVars, driverVars, Working
  <2>2. CASE ncallbacks > 0
    BY <1>7, <2>1, <2>2 DEF drain_callbacks
  <2>3. CASE ~(ncallbacks > 0)
    <3>1. driver = {} /\ Working = {} /\ thread # "execute"
      BY <1>7, <2>3, NothingInWork DEF drain_callbacks
    <3> QED
      BY <1>7, <2>1, <2>3, <3>1 DEF drain_callbacks
  <2> QED
    BY <2>2, <2>3
<1> QED
  BY <1>1, <1>2, <1>3, <1>4, <1>5, <1>6, <1>7 DEF Next, exitStep, terminated

\* A destroyed Writer has nothing on its way.
GoneInv == \A w \in Writers : client[w] = "gone" => OutstandingOf(w) = {}

\* ~Writer returns only when its counter is zero, and nobody writes afterwards.
LEMMA NextGone ==
  ASSUME TypeInv, PlaceInv, CountInv, GoneInv, [Next]_vars
  PROVE  GoneInv'
<1>1. client \in [Writers -> {"idle", "push", "signal", "wait", "destroy", "gone"}]
  BY DEF TypeInv, TypeOK
<1>2. CASE Queries
  <2>1. PICK w \in Writers, k \in Keys, r \in Request :
          /\ queue_async_query(w, k)
          /\ r = [writer |-> w, key |-> k, seq |-> seq[w] + 1]
          /\ Outstanding' = Outstanding \cup {r}
    BY <1>2 DEF Queries
  <2>2. client' = [client EXCEPT ![w] = "push"] /\ r.writer = w
    BY <2>1 DEF queue_async_query
  <2> QED
    BY <1>1, <2>1, <2>2 DEF GoneInv, OutstandingOf
<1>3. CASE Finishes \/ Moves
  <2>1. Outstanding' \subseteq Outstanding
    BY <1>3 DEF Finishes, Moves
  <2>2. ASSUME NEW v \in Writers, client'[v] = "gone" PROVE OutstandingOf(v) = {}
    <3>1. CASE client[v] = "gone"
      BY <3>1 DEF GoneInv
    <3>2. CASE client[v] # "gone"
      <4>1. completed(v)
        BY <1>1, <2>2, <3>2 DEF Next, vars, queue_async_query, flush_elements, destroy_writer,
             await, clientStep, push, signal, completed, threadStep, check_finish,
             acquire_pending, count_call, try_pop, try_pop_fails, execute, ioStep, callback,
             callback_ok, finish_async_call, error_read, set_error_occurred, retry, cassandra,
             exit, exitStep, drain_data, drain_callbacks, release_thread, join, terminated,
             clientVars
      <4> QED
        BY <4>1, FS_EmptySet DEF completed, CountInv
    <3> QED
      BY <3>1, <3>2
  <2> QED
    BY <2>1, <2>2 DEF GoneInv, OutstandingOf
<1> QED
  BY <1>2, <1>3, NextMoves

\* Nothing is used after its destructor: no request of a destroyed Writer is on its way,
\* and no callback touches the WriterThread once it is destroyed.
THEOREM DestroyTheorem == Spec => []NoUseAfterDestruction
<1> DEFINE DestroyInv == PermitInv /\ WorkInv /\ ExitInv /\ GoneInv
<1>1. Init => DestroyInv
  <2> SUFFICES ASSUME Init PROVE DestroyInv
    OBVIOUS
  <2>1. PermitInv
    BY FS_EmptySet DEF Init, PermitInv, Futures, PermitsConserved
  <2>2. Working = {}
    BY DEF Init, Working, IOIdle
  <2>3. WorkInv
    BY <2>2, FS_EmptySet DEF Init, WorkInv, InHand
  <2>4. ExitInv /\ GoneInv
    BY DEF Init, ExitInv, GoneInv
  <2> QED
    BY <2>1, <2>3, <2>4
<1>2. TypeInv /\ PlaceInv /\ CountInv /\ DestroyInv /\ [Next]_vars => DestroyInv'
  <2>1. PermitInv /\ UNCHANGED vars => PermitInv'
    BY SamePermits DEF vars, permitVars
  <2> QED
    BY <2>1, NextPermits, NextWork, NextExit, NextGone
<1>3. TypeInv /\ DestroyInv => NoUseAfterDestruction
  <2>1. ASSUME TypeInv, ExitInv, phase = "dead", NEW t \in IOThreads
        PROVE  io[t].pc \in {"idle", "notify"}
    BY <2>1 DEF ExitInv, Working, TypeInv, TypeOK, IOState
  <2> QED
    BY <2>1 DEF ExitInv, GoneInv, NoUseAfterDestruction
<1> QED
  BY <1>1, <1>2, <1>3, PathInvariance, PTL DEF Spec

-----------------------------------------------------------------------------
(* Refinement and durability. *)

\* The rows as the abstract specification sees them, and that specification.
Rows == [w \in Writers |-> [k \in Keys |-> db[w][k].seq]]

Abstract == INSTANCE WritePipeline WITH outstanding <- Outstanding, stored <- Rows

\* The initial state satisfies the inductive invariant.
LEMMA InitAbstractInv == Abstract!Init => Abstract!Inv
BY DEF Abstract!Init, Abstract!Inv, Abstract!TypeOK, Abstract!LastPending, Abstract!OutstandingOld,
       Abstract!Request

\* Queueing a write makes it the last one of its row.
LEMMA AbstractWrite ==
  ASSUME Abstract!Inv, NEW w \in Writers, NEW k \in Keys, Abstract!Write(w, k)
  PROVE  Abstract!Inv'
<1> DEFINE r == [writer |-> w, key |-> k, seq |-> seq[w] + 1]
<1>1. r \in Abstract!Request
  BY DEF Abstract!Inv, Abstract!TypeOK, Abstract!Request
<1>2. Abstract!TypeOK'
  BY <1>1 DEF Abstract!Inv, Abstract!TypeOK, Abstract!Write
<1>3. \A v \in Writers, j \in Keys :
        last'[v][j] = IF v = w /\ j = k THEN seq[w] + 1 ELSE last[v][j]
  BY DEF Abstract!Inv, Abstract!TypeOK, Abstract!Write
<1>4. \A v \in Writers : seq'[v] = IF v = w THEN seq[w] + 1 ELSE seq[v]
  BY DEF Abstract!Inv, Abstract!TypeOK, Abstract!Write
<1>5. Abstract!LastPending'
  <2> SUFFICES ASSUME NEW v \in Writers, NEW j \in Keys
               PROVE  /\ Rows[v][j] <= last'[v][j]
                      /\ last'[v][j] <= seq'[v]
                      /\ \/ Rows[v][j] = last'[v][j]
                         \/ [writer |-> v, key |-> j, seq |-> last'[v][j]] \in Outstanding'
    BY DEF Abstract!LastPending, Abstract!Write
  <2>1. /\ Rows[v][j] <= last[v][j] /\ last[v][j] <= seq[v]
        /\ \/ Rows[v][j] = last[v][j]
           \/ [writer |-> v, key |-> j, seq |-> last[v][j]] \in Outstanding
    BY DEF Abstract!Inv, Abstract!LastPending
  <2>2. last[v][j] \in Nat /\ Rows[v][j] \in Nat /\ seq[v] \in Nat
    BY DEF Abstract!Inv, Abstract!TypeOK
  <2>3. Outstanding \subseteq Outstanding' /\ r \in Outstanding'
    BY DEF Abstract!Write
  <2>4. CASE v = w /\ j = k
    <3>1. last'[v][j] = seq[w] + 1 /\ seq'[v] = seq[w] + 1
      BY <2>4, <1>3, <1>4
    <3>2. [writer |-> v, key |-> j, seq |-> last'[v][j]] = r
      BY <2>4, <3>1
    <3> HIDE DEF r
    <3> QED
      BY <2>1, <2>2, <2>3, <2>4, <3>1, <3>2
  <2>5. CASE ~(v = w /\ j = k)
    <3>1. last'[v][j] = last[v][j]
      BY <2>5, <1>3
    <3>2. last[v][j] <= seq'[v]
      BY <2>1, <2>2, <1>4
    <3> HIDE DEF r
    <3> QED
      BY <2>1, <2>3, <3>1, <3>2
  <2> QED
    BY <2>4, <2>5
<1>6. Abstract!OutstandingOld'
  <2> SUFFICES ASSUME NEW q \in Outstanding'
               PROVE  q.seq <= last'[q.writer][q.key]
    BY DEF Abstract!OutstandingOld
  <2>1. CASE q = r
    BY <2>1, <1>3 DEF Abstract!Inv, Abstract!TypeOK
  <2>2. CASE q \in Outstanding
    <3>1. /\ q.writer \in Writers /\ q.key \in Keys /\ q.seq \in Nat
          /\ q.seq <= last[q.writer][q.key]
      BY <2>2 DEF Abstract!Inv, Abstract!TypeOK, Abstract!OutstandingOld, Abstract!Request
    <3>2. last[q.writer][q.key] <= seq[q.writer]
      BY <3>1 DEF Abstract!Inv, Abstract!LastPending
    <3>3. last[q.writer][q.key] \in Nat /\ seq[w] \in Nat
      BY <3>1 DEF Abstract!Inv, Abstract!TypeOK
    <3>4. CASE q.writer = w /\ q.key = k
      <4>1. last'[q.writer][q.key] = seq[w] + 1 /\ q.seq <= seq[w]
        BY <1>3, <3>1, <3>2, <3>3, <3>4
      <4> QED
        BY <3>1, <3>3, <4>1
    <3>5. CASE ~ (q.writer = w /\ q.key = k)
      <4>1. last'[q.writer][q.key] = last[q.writer][q.key]
        BY <1>3, <3>1, <3>5
      <4> QED
        BY <3>1, <4>1
    <3> QED
      BY <3>4, <3>5
  <2> QED
    BY <2>1, <2>2 DEF Abstract!Write
<1> QED
  BY <1>2, <1>5, <1>6 DEF Abstract!Inv

\* Storing an outstanding write moves its row forward, never beyond its last write.
LEMMA AbstractStore ==
  ASSUME Abstract!Inv, NEW r \in Outstanding, Abstract!Store(r)
  PROVE  Abstract!Inv'
<1>1. r.writer \in Writers /\ r.key \in Keys /\ r.seq \in Nat
  BY DEF Abstract!Inv, Abstract!TypeOK, Abstract!Request
<1>2. Abstract!TypeOK'
  BY <1>1 DEF Abstract!Inv, Abstract!TypeOK, Abstract!Store
<1>3. \A v \in Writers, j \in Keys :
        Rows'[v][j] = IF v = r.writer /\ j = r.key THEN r.seq ELSE Rows[v][j]
  BY <1>1 DEF Abstract!Inv, Abstract!TypeOK, Abstract!Store
<1>4. r.seq <= last[r.writer][r.key]
  BY DEF Abstract!Inv, Abstract!OutstandingOld
<1>5. Abstract!LastPending'
  <2> SUFFICES ASSUME NEW v \in Writers, NEW j \in Keys
               PROVE  /\ Rows'[v][j] <= last[v][j]
                      /\ last[v][j] <= seq[v]
                      /\ \/ Rows'[v][j] = last[v][j]
                         \/ [writer |-> v, key |-> j, seq |-> last[v][j]] \in Outstanding
    BY DEF Abstract!LastPending, Abstract!Store
  <2>1. /\ Rows[v][j] <= last[v][j] /\ last[v][j] <= seq[v]
        /\ \/ Rows[v][j] = last[v][j]
           \/ [writer |-> v, key |-> j, seq |-> last[v][j]] \in Outstanding
    BY DEF Abstract!Inv, Abstract!LastPending
  <2>2. last[v][j] \in Nat /\ Rows[v][j] \in Nat
    BY DEF Abstract!Inv, Abstract!TypeOK
  <2> QED
    BY <1>1, <1>3, <1>4, <2>1, <2>2 DEF Abstract!Store
<1>6. Abstract!OutstandingOld'
  BY DEF Abstract!Inv, Abstract!OutstandingOld, Abstract!Store
<1> QED
  BY <1>2, <1>5, <1>6 DEF Abstract!Inv

\* Only a stored write is acknowledged, so the last write of its row survives.
LEMMA AbstractAcknowledge ==
  ASSUME Abstract!Inv, NEW r \in Outstanding, Abstract!Acknowledge(r)
  PROVE  Abstract!Inv'
<1>1. Abstract!TypeOK' /\ Abstract!OutstandingOld'
  BY DEF Abstract!Inv, Abstract!TypeOK, Abstract!OutstandingOld, Abstract!Acknowledge
<1>2. Abstract!LastPending'
  <2> SUFFICES ASSUME NEW v \in Writers, NEW j \in Keys,
                      Rows[v][j] # last[v][j]
               PROVE  [writer |-> v, key |-> j, seq |-> last[v][j]] \in Outstanding'
    BY DEF Abstract!Inv, Abstract!LastPending, Abstract!Acknowledge
  <2>1. /\ [writer |-> v, key |-> j, seq |-> last[v][j]] \in Outstanding
        /\ Rows[v][j] <= last[v][j]
    BY DEF Abstract!Inv, Abstract!LastPending
  <2>2. last[v][j] \in Nat /\ Rows[v][j] \in Nat
    BY DEF Abstract!Inv, Abstract!TypeOK
  <2>3. r # [writer |-> v, key |-> j, seq |-> last[v][j]]
    <3> SUFFICES ASSUME r = [writer |-> v, key |-> j, seq |-> last[v][j]] PROVE FALSE
      OBVIOUS
    <3>1. Rows[v][j] >= last[v][j]
      BY DEF Abstract!Acknowledge
    <3> QED
      BY <2>1, <2>2, <3>1
  <2> QED
    BY <2>1, <2>3 DEF Abstract!Acknowledge
<1> QED
  BY <1>1, <1>2 DEF Abstract!Inv

\* Every step of the abstract write path keeps the invariant.
LEMMA AbstractStep == Abstract!Inv /\ [Abstract!Next]_(Abstract!vars) => Abstract!Inv'
<1> SUFFICES ASSUME Abstract!Inv, [Abstract!Next]_(Abstract!vars) PROVE Abstract!Inv'
  OBVIOUS
<1>1. CASE UNCHANGED Abstract!vars
  BY <1>1 DEF Abstract!Inv, Abstract!TypeOK, Abstract!LastPending, Abstract!OutstandingOld, Abstract!vars
<1>2. CASE Abstract!Next
  BY <1>2, AbstractWrite, AbstractStore, AbstractAcknowledge DEF Abstract!Next
<1> QED
  BY <1>1, <1>2

\* Once nothing of a Writer is outstanding, every row holds the last value written
\* to it: what wait_writes_completion gives its callers.
THEOREM DurableTheorem == Abstract!Spec => []Abstract!Durable
<1>1. Abstract!Inv => Abstract!Durable
  BY DEF Abstract!Inv, Abstract!LastPending, Abstract!Durable
<1>2. Abstract!Spec => []Abstract!Inv
  BY InitAbstractInv, AbstractStep, PTL DEF Abstract!Spec
<1> QED
  BY <1>1, <1>2, PTL

\* Cassandra holds a request, or a newer one of its row.
Stored(r) == db[r.writer][r.key].seq >= r.seq

\* A callback reports only what is stored, and a failed request that is applied late is
\* still being retried or no longer matters.
AnsweredInv ==
  /\ \A z \in late : z.req \in Outstanding \/ Stored(z.req)
  /\ \A f \in driver : f.st = "ok" => Stored(f.req)
  /\ \A t \in IOThreads : io[t].pc \in {"ok", "notify"} => Stored(io[t].req)

\* Two requests for one row, in the order of their calls.
Before(r, q) == r.writer = q.writer /\ r.key = q.key => r.seq < q.seq

\* While nothing has failed, requests for a row overtake each other nowhere, so that the
\* driver's own stamps, given at the execution, are in the order of the calls.
NoneFailed ==
  /\ late = {}
  /\ \A f \in driver : f.st # "err"
  /\ \A t \in IOThreads : io[t].pc \in {"idle", "ok", "notify"}

InCallOrder ==
  /\ \A i, j \in DOMAIN data : i < j => Before(data[i], data[j])
  /\ \A q \in Pushed, r \in Queued \cup Held \cup Driven : Before(r, q)
  /\ \A q \in Queued, r \in Held \cup Driven : Before(r, q)
  /\ \A q \in Held, r \in Driven : Before(r, q)
  /\ \A f, g \in driver : f.id < g.id => Before(f.req, g.req)

RowsInCallOrder ==
  /\ \A w \in Writers, k \in Keys : db[w][k].stamp <= executed
  /\ \A q \in Pushed \cup Queued \cup Held : db[q.writer][q.key].seq < q.seq
  /\ \A f \in driver :
       f.id > db[f.req.writer][f.req.key].stamp <=> f.req.seq > db[f.req.writer][f.req.key].seq

Ordered == NoneFailed /\ InCallOrder /\ RowsInCallOrder

\* The stamps agree with the values: by construction with client timestamps, by the order
\* of the calls without.
Agrees == IF Timestamped THEN StampIsSeq ELSE Ordered

\* What the promise rests on, with and without client timestamps.
Trusted == Timestamped \/ fails = 0

DurableInv ==
  Trusted =>
    /\ AnsweredInv
    /\ Abstract!Inv
    /\ Agrees

\* Last write wins on the stamps, and so on the values when the two agree.
LEMMA ApplyStores ==
  ASSUME TypeInv, NEW r \in Request, NEW stamp \in Nat, Apply(r, stamp),
         stamp > db[r.writer][r.key].stamp <=> r.seq > db[r.writer][r.key].seq
  PROVE  /\ \/ /\ r.seq > Rows[r.writer][r.key]
               /\ Rows' = [Rows EXCEPT ![r.writer][r.key] = r.seq]
            \/ Rows' = Rows
         /\ Stored(r)'
         /\ \A q \in Request : Stored(q) => Stored(q)'
<1> DEFINE old == db[r.writer][r.key]
           new == [seq |-> r.seq, stamp |-> stamp]
<1>1. r.writer \in Writers /\ r.key \in Keys /\ r.seq \in Nat
  BY DEF Request
<1>2. /\ db \in [Writers -> [Keys -> [seq : Nat, stamp : Nat]]]
      /\ old.seq \in Nat /\ old.stamp \in Nat
  BY <1>1 DEF TypeInv, TypeOK
<1>3. \A q \in Request : q.writer \in Writers /\ q.key \in Keys /\ q.seq \in Nat
  BY DEF Request
<1>4. CASE stamp > old.stamp
  <2>1. \A w \in Writers, k \in Keys :
          db'[w][k] = IF w = r.writer /\ k = r.key THEN new ELSE db[w][k]
    BY <1>1, <1>2, <1>4 DEF Apply
  <2>2. \A w \in Writers, k \in Keys :
          db'[w][k].seq = IF w = r.writer /\ k = r.key THEN r.seq ELSE db[w][k].seq
    BY <2>1
  <2>3. \A w \in Writers, k \in Keys : db[w][k].seq \in Nat
    BY <1>2
  <2>4. r.seq > Rows[r.writer][r.key] /\ Rows' = [Rows EXCEPT ![r.writer][r.key] = r.seq]
    <3>1. r.seq > Rows[r.writer][r.key]
      BY <1>1, <1>4 DEF Rows
    <3>2. Rows' = [w \in Writers |-> [k \in Keys |->
                     IF w = r.writer /\ k = r.key THEN r.seq ELSE db[w][k].seq]]
      BY <2>2 DEF Rows
    <3>3. [Rows EXCEPT ![r.writer][r.key] = r.seq]
            = [w \in Writers |-> [k \in Keys |->
                 IF w = r.writer /\ k = r.key THEN r.seq ELSE db[w][k].seq]]
      BY <1>1 DEF Rows
    <3> QED
      BY <3>1, <3>2, <3>3
  <2>5. Stored(r)'
    BY <1>1, <2>2 DEF Stored
  <2>6. ASSUME NEW q \in Request, Stored(q) PROVE Stored(q)'
    BY <1>1, <1>2, <1>3, <1>4, <2>2, <2>3, <2>6 DEF Stored
  <2> QED
    BY <2>4, <2>5, <2>6
<1>5. CASE ~(stamp > old.stamp)
  <2>1. db' = db
    BY <1>1, <1>2, <1>5 DEF Apply
  <2> QED
    BY <1>1, <1>2, <1>5, <2>1 DEF Rows, Stored
<1> QED
  BY <1>4, <1>5

\* Last write wins on the values whenever it does on the stamps.
LEMMA StampAgrees ==
  ASSUME TypeInv, Agrees
  PROVE  /\ \A f \in driver :
              /\ f.req \in Request /\ Stamp(f) \in Nat
              /\ Stamp(f) > db[f.req.writer][f.req.key].stamp
                   <=> f.req.seq > db[f.req.writer][f.req.key].seq
         /\ \A z \in late :
              /\ z.req \in Request /\ z.stamp \in Nat
              /\ z.stamp > db[z.req.writer][z.req.key].stamp
                   <=> z.req.seq > db[z.req.writer][z.req.key].seq
<1>1. \A f \in driver : f.req \in Request /\ Stamp(f) \in Nat
  BY FutureType DEF TypeInv, TypeOK
<1>2. \A z \in late : z.req \in Request /\ z.stamp \in Nat
  BY DEF TypeInv, TypeOK
<1>3. \A q \in Request : q.writer \in Writers /\ q.key \in Keys
  BY DEF Request
<1>4. CASE Timestamped
  BY <1>1, <1>2, <1>3, <1>4 DEF Agrees, StampIsSeq, Stamp
<1>5. CASE ~Timestamped
  BY <1>1, <1>2, <1>3, <1>5 DEF Agrees, Ordered, NoneFailed, RowsInCallOrder, Stamp
<1> QED
  BY <1>4, <1>5

\* A step of Cassandra stores an outstanding request or changes no row.
LEMMA CassandraStores ==
  ASSUME TypeInv, PlaceInv, AnsweredInv, Agrees, cassandra
  PROVE  /\ AnsweredInv'
         /\ Rows' = Rows \/ \E r \in Outstanding : Abstract!Store(r)
<1> DEFINE Goal == /\ AnsweredInv'
                   /\ Rows' = Rows \/ \E r \in Outstanding : Abstract!Store(r)
<1>1. UNCHANGED <<io, seq, last>> /\ Outstanding' = Outstanding
  <2>1. UNCHANGED places /\ UNCHANGED <<io, seq, last>>
    BY StayMoves DEF cassandra, clientVars
  <2> QED
    BY <2>1 DEF places, Outstanding, Pushed, Queued, Held, Driven, Called
<1>2. \A t \in IOThreads : io[t].pc \in {"ok", "notify"} => io[t].req \in Request
  BY DEF TypeInv, Carried
<1>3. ASSUME NEW r \in Outstanding, r \in Request,
             /\ r.seq > Rows[r.writer][r.key]
             /\ Rows' = [Rows EXCEPT ![r.writer][r.key] = r.seq]
      PROVE  Abstract!Store(r)
  BY <1>1, <1>3 DEF Abstract!Store
<1>4. ASSUME NEW f \in driver, cass_apply(f) PROVE Goal
  <2>1. /\ f.req \in Request /\ Stamp(f) \in Nat /\ Apply(f.req, Stamp(f))
        /\ Stamp(f) > db[f.req.writer][f.req.key].stamp
             <=> f.req.seq > db[f.req.writer][f.req.key].seq
    BY <1>4, StampAgrees DEF cass_apply
  <2>2. /\ \/ /\ f.req.seq > Rows[f.req.writer][f.req.key]
              /\ Rows' = [Rows EXCEPT ![f.req.writer][f.req.key] = f.req.seq]
           \/ Rows' = Rows
        /\ Stored(f.req)'
        /\ \A q \in Request : Stored(q) => Stored(q)'
    BY <2>1, ApplyStores
  <2>3. f.req \in Outstanding
    BY OutstandingPlaces DEF Driven
  <2>4. AnsweredInv'
    <3>1. late' = late /\ \A z \in late : z.req \in Request
      BY <1>4 DEF cass_apply, TypeInv, TypeOK
    <3>2. \A g \in driver' : g.req = f.req \/ (g \in driver /\ g.req \in Request)
      <4>1. f \in Future /\ driver \subseteq Future
        BY DEF TypeInv, TypeOK
      <4>2. [f EXCEPT !.st = "ok"].req = f.req /\ \A g \in driver : g.req \in Request
        BY <4>1 DEF Future
      <4> QED
        BY <1>4, <4>2 DEF cass_apply
    <3> QED
      BY <1>1, <1>2, <2>2, <3>1, <3>2 DEF AnsweredInv, Stored
  <2> QED
    BY <1>3, <2>1, <2>2, <2>3, <2>4
<1>5. ASSUME NEW f \in driver, cass_fail(f) PROVE Goal
  <2>1. f.req \in Outstanding
    BY OutstandingPlaces DEF Driven
  <2>2. db' = db /\ late' = late \cup {[req |-> f.req, stamp |-> Stamp(f)]}
    BY <1>5 DEF cass_fail
  <2>3. \A g \in driver' : g \in driver \/ g.st = "err"
    BY <1>5 DEF cass_fail, TypeInv, TypeOK, Future
  <2> QED
    BY <1>1, <2>1, <2>2, <2>3 DEF AnsweredInv, Stored, Rows
<1>6. ASSUME NEW z \in late, cass_late(z) PROVE Goal
  <2>1. /\ z.req \in Request /\ z.stamp \in Nat /\ Apply(z.req, z.stamp)
        /\ z.stamp > db[z.req.writer][z.req.key].stamp
             <=> z.req.seq > db[z.req.writer][z.req.key].seq
    BY <1>6, StampAgrees DEF cass_late
  <2>2. /\ \/ /\ z.req.seq > Rows[z.req.writer][z.req.key]
              /\ Rows' = [Rows EXCEPT ![z.req.writer][z.req.key] = z.req.seq]
           \/ Rows' = Rows
        /\ \A q \in Request : Stored(q) => Stored(q)'
    BY <2>1, ApplyStores
  <2>3. /\ late' \subseteq late /\ driver' = driver
        /\ \A y \in late : y.req \in Request
        /\ \A g \in driver : g.req \in Request
    BY <1>6 DEF cass_late, driverVars, TypeInv, TypeOK, Future
  <2>4. AnsweredInv'
    BY <1>1, <1>2, <2>2, <2>3 DEF AnsweredInv
  <2>5. z.req.seq > Rows[z.req.writer][z.req.key] => z.req \in Outstanding
    <3>1. z.req.writer \in Writers /\ z.req.key \in Keys /\ z.req.seq \in Nat
      BY <2>1 DEF Request
    <3>2. Rows[z.req.writer][z.req.key] = db[z.req.writer][z.req.key].seq
          /\ db[z.req.writer][z.req.key].seq \in Nat
      BY <3>1 DEF Rows, TypeInv, TypeOK
    <3>3. z.req \in Outstanding \/ Stored(z.req)
      BY <1>6 DEF AnsweredInv
    <3> QED
      BY <3>1, <3>2, <3>3 DEF Stored
  <2> QED
    BY <1>3, <2>1, <2>2, <2>4, <2>5
<1> QED
  BY <1>4, <1>5, <1>6 DEF cassandra, resolve

\* Every step is a step of the abstract write path, or none.
LEMMA NextAnswered ==
  ASSUME TypeInv, PlaceInv, AnsweredInv, Agrees, [Next]_vars
  PROVE  AnsweredInv' /\ [Abstract!Next]_(Abstract!vars)
<1>1. CASE cassandra
  <2>1. Outstanding' = Outstanding /\ UNCHANGED <<seq, last>>
    <3>1. UNCHANGED places /\ UNCHANGED <<seq, last>>
      BY <1>1, StayMoves DEF cassandra, clientVars
    <3> QED
      BY <3>1 DEF places, Outstanding, Pushed, Queued, Held, Driven, Called
  <2> QED
    BY <1>1, <2>1, CassandraStores DEF Abstract!Next, Abstract!vars
<1>2. CASE ~cassandra
  <2>1. UNCHANGED <<db, late>>
    BY <1>2 DEF Next, vars, cassVars, queue_async_query, flush_elements, destroy_writer,
         await, clientStep, push, signal, completed, threadStep, check_finish,
         acquire_pending, count_call, try_pop, try_pop_fails, execute, ioStep, callback,
         callback_ok, finish_async_call, error_read, set_error_occurred, retry,
         exit, exitStep, drain_data, drain_callbacks, release_thread, join, terminated
  <2>2. Rows' = Rows /\ \A r : Stored(r)' = Stored(r)
    BY <2>1 DEF Rows, Stored
  <2>3. \A f \in driver' : f.st = "ok" => f \in driver
    <3>1. CASE driver' \subseteq driver
      BY <3>1
    <3>2. CASE \E r, t : async_query_execute(r, t)
      BY <3>2 DEF async_query_execute
    <3> QED
      BY <1>2, <3>1, <3>2
         DEF Next, vars, driverVars, queue_async_query, flush_elements, destroy_writer,
         await, clientStep, push, signal, completed, threadStep, check_finish,
         acquire_pending, count_call, try_pop, try_pop_fails, execute, ioStep, callback,
         callback_ok, finish_async_call, error_read, set_error_occurred, retry,
         exit, exitStep, drain_data, drain_callbacks, release_thread, join, terminated
  <2>4. \A t \in IOThreads : io'[t].pc \in {"ok", "notify"} => Stored(io'[t].req)
    <3>1. CASE io' = io
      BY <3>1 DEF AnsweredInv
    <3>2. CASE \E t \in IOThreads : callback(t)
      <4>1. PICK t \in IOThreads, f \in driver :
              io' = [io EXCEPT ![t] = [pc |-> f.st, req |-> f.req, errs |-> 0]]
        BY <3>2 DEF callback
      <4>2. f.st \in {"sent", "ok", "err"} /\ (f.st = "ok" => Stored(f.req))
        BY DEF AnsweredInv, TypeInv, TypeOK, Future
      <4> QED
        BY <4>1, <4>2 DEF AnsweredInv, TypeInv, TypeOK
    <3>3. CASE \E t \in IOThreads : callback_ok(t)
      <4>1. PICK t \in IOThreads : io[t].pc = "ok" /\ io' = [io EXCEPT ![t].pc = "notify"]
        BY <3>3 DEF callback_ok
      <4>2. io \in [IOThreads -> IOState]
        BY DEF TypeInv, TypeOK
      <4>3. \A u \in IOThreads : io'[u].req = io[u].req /\ (u = t \/ io'[u].pc = io[u].pc)
        BY <4>1, <4>2 DEF IOState
      <4> QED
        BY <4>1, <4>3 DEF AnsweredInv
    <3>4. CASE \E t \in IOThreads : finish_async_call(t) \/ retry(t)
      <4>1. PICK t \in IOThreads : io' = [io EXCEPT ![t] = IOIdle]
        BY <3>4 DEF finish_async_call, retry
      <4> QED
        BY <4>1 DEF IOIdle, AnsweredInv, TypeInv, TypeOK
    <3>5. CASE \E t \in IOThreads : error_read(t) \/ set_error_occurred(t)
      <4>1. PICK t \in IOThreads : error_read(t) \/ set_error_occurred(t)
        BY <3>5
      <4>2. \/ io' = io
            \/ io' = [io EXCEPT ![t].pc = "count", ![t].errs = error_count]
            \/ io' = [io EXCEPT ![t].pc = "retry", ![t].errs = 0]
        BY <4>1 DEF error_read, set_error_occurred
      <4>3. \A u \in IOThreads : io'[u] = io[u] \/ io'[u].pc \in {"count", "retry"}
        BY <4>2 DEF TypeInv, TypeOK, IOState
      <4> QED
        BY <4>3 DEF AnsweredInv
    <3> QED
      BY <1>2, <3>1, <3>2, <3>3, <3>4, <3>5
         DEF Next, vars, queue_async_query, flush_elements, destroy_writer,
         await, clientStep, push, signal, completed, threadStep, check_finish,
         acquire_pending, count_call, try_pop, try_pop_fails, execute, ioStep,
         exit, exitStep, drain_data, drain_callbacks, release_thread, join, terminated
  <2>5. CASE Queries
    <3>1. PICK w \in Writers, k \in Keys :
            /\ queue_async_query(w, k)
            /\ Outstanding' = Outstanding \cup {[writer |-> w, key |-> k, seq |-> seq[w] + 1]}
      BY <2>5 DEF Queries
    <3>2. Abstract!Write(w, k)
      BY <2>2, <3>1 DEF queue_async_query, Abstract!Write
    <3> QED
      BY <2>1, <2>2, <2>3, <2>4, <3>1, <3>2 DEF AnsweredInv, Abstract!Next
  <2>6. CASE Finishes
    <3>1. PICK t \in IOThreads :
            /\ finish_async_call(t)
            /\ io[t].req \in Outstanding /\ Outstanding' = Outstanding \ {io[t].req}
      BY <2>6 DEF Finishes
    <3>2. io[t].req \in Request /\ Stored(io[t].req) /\ UNCHANGED <<seq, last>>
      BY <3>1 DEF finish_async_call, AnsweredInv, TypeInv, Carried, clientVars
    <3>3. Abstract!Acknowledge(io[t].req)
      <4>1. Rows[io[t].req.writer][io[t].req.key] >= io[t].req.seq
        BY <3>2 DEF Rows, Stored, Request
      <4> QED
        BY <2>2, <3>1, <3>2, <4>1 DEF Abstract!Acknowledge
    <3> QED
      BY <2>1, <2>2, <2>3, <2>4, <3>1, <3>2, <3>3 DEF AnsweredInv, Abstract!Next
  <2>7. CASE Moves
    BY <2>1, <2>2, <2>3, <2>4, <2>7 DEF Moves, AnsweredInv, Abstract!vars
  <2> QED
    BY <2>5, <2>6, <2>7, NextMoves
<1> QED
  BY <1>1, <1>2

\* The first state is one of the abstract write path's.
LEMMA InitAbstract ==
  ASSUME Init
  PROVE  Abstract!Init /\ AnsweredInv /\ StampIsSeq
<1>1. Rows = [w \in Writers |-> [k \in Keys |-> 0]]
  BY DEF Init, Rows
<1>2. Abstract!Init
  BY <1>1, InitPlaces DEF Init, Abstract!Init
<1>3. AnsweredInv /\ StampIsSeq
  BY DEF Init, AnsweredInv, StampIsSeq, IOIdle
<1> QED
  BY <1>2, <1>3

\* With timestamped_writes the write path implements WritePipeline: whatever is retried,
\* applied late or applied twice, a write stays outstanding until its Writer is told, is
\* told only when Cassandra holds it or a newer one, and no row goes back.
THEOREM PipelineTheorem ==
  ASSUME Timestamped
  PROVE  Spec => ImplementsPipeline
<1>1. TypeInv /\ PlaceInv /\ CountInv /\ AnsweredInv /\ StampIsSeq /\ [Next]_vars
        => AnsweredInv' /\ StampIsSeq' /\ [Abstract!Next]_(Abstract!vars)
  BY NextAnswered, NextAdvances DEF Agrees
<1>2. Init => Abstract!Init /\ AnsweredInv /\ StampIsSeq
  BY InitAbstract
<1>3. Spec => Abstract!Spec
  BY <1>1, <1>2, PathInvariance, PTL DEF Spec, Abstract!Spec
<1>4. ImplementsPipeline <=> Abstract!Spec
  BY DEF ImplementsPipeline, Pipeline!Spec, Abstract!Spec, Pipeline!Init, Abstract!Init,
         Pipeline!Next, Abstract!Next, Pipeline!vars, Abstract!vars, Pipeline!Write,
         Abstract!Write, Pipeline!Store, Abstract!Store, Pipeline!Acknowledge,
         Abstract!Acknowledge, Rows
<1> QED
  BY <1>3, <1>4

\* A new request comes after all others of its row.
LEMMA QueryOrdered ==
  ASSUME TypeInv, PlaceInv, Abstract!Inv, Ordered,
         NEW w \in Writers, NEW k \in Keys, queue_async_query(w, k)
  PROVE  Ordered'
<1>1. PICK r \in Request :
           /\ r = [writer |-> w, key |-> k, seq |-> seq[w] + 1]
           /\ Pushed' = Pushed \cup {r}
           /\ UNCHANGED <<Queued, Held, Driven, Called>>
  BY QueryMoves
<1>2. UNCHANGED <<data, driver, io, late, db, executed>>
  BY DEF queue_async_query, driverVars, cassVars
<1>3. seq[w] \in Nat /\ r.writer = w /\ r.key = k /\ r.seq = seq[w] + 1
  BY <1>1 DEF TypeInv, TypeOK
<1>4. \A x \in Queued \cup Held \cup Driven : Before(x, r)
  <2>1. \A x \in Queued \cup Held \cup Driven : x.seq \in Nat /\ x.seq <= seq[x.writer]
    BY OutstandingPlaces DEF PlaceInv, Stamped, Request
  <2> QED
    BY <1>3, <2>1 DEF Before
<1>5. db[r.writer][r.key].seq < r.seq
  <2>1. Rows[w][k] <= last[w][k] /\ last[w][k] <= seq[w]
    BY DEF Abstract!Inv, Abstract!LastPending
  <2>2. Rows[w][k] = db[w][k].seq /\ db[w][k].seq \in Nat /\ last[w][k] \in Nat
    BY DEF Rows, TypeInv, TypeOK
  <2> QED
    BY <1>3, <2>1, <2>2
<1>6. NoneFailed'
  BY <1>2 DEF Ordered, NoneFailed
<1>7. InCallOrder'
  BY <1>1, <1>2, <1>4 DEF Ordered, InCallOrder
<1>8. RowsInCallOrder'
  BY <1>1, <1>2, <1>5 DEF Ordered, RowsInCallOrder
<1> QED
  BY <1>6, <1>7, <1>8 DEF Ordered

\* push appends to the queue what comes after all of it.
LEMMA PushOrdered ==
  ASSUME TypeInv, PlaceInv, Ordered, NEW w \in Writers, push(w)
  PROVE  Ordered'
<1>1. UNCHANGED <<driver, io, late, db, executed>>
  BY DEF push, driverVars, cassVars
<1>2. pushing[w] \in Request /\ pushing[w] \in Pushed /\ data' = Append(data, pushing[w])
  BY DEF push, TypeInv, Carried, Pushed
<1>3. data \in Seq(Request)
  BY DEF TypeInv, TypeOK
<1>4. PICK r \in Request :
         /\ r \in Pushed
         /\ Pushed' = Pushed \ {r} /\ Queued' = Queued \cup {r}
         /\ UNCHANGED <<Held, Driven, Called>>
  BY PushMoves
<1>5. /\ DOMAIN data = 1..Len(data) /\ DOMAIN data' = 1..(Len(data) + 1) /\ Len(data) \in Nat
      /\ \A i \in 1..Len(data) : data'[i] = data[i]
      /\ data'[Len(data) + 1] = pushing[w]
  BY <1>2, <1>3
<1>6. pushing[w] = r
  <2>1. pushing[w] \in Queued'
    BY <1>5 DEF Queued
  <2>2. pushing[w] \notin Queued
    BY <1>2 DEF PlaceInv, OnePlace
  <2> QED
    BY <1>4, <2>1, <2>2
<1>7. \A i, j \in DOMAIN data' : i < j => Before(data'[i], data'[j])
  <2>1. \A i \in DOMAIN data : Before(data[i], r)
    BY <1>4 DEF Ordered, InCallOrder, Queued
  <2> QED
    BY <1>5, <1>6, <2>1 DEF Ordered, InCallOrder
<1>8. \A q \in Pushed \ {r} : Before(r, q)
  <2>1. ASSUME NEW q \in Pushed \ {r} PROVE q.writer # r.writer
    <3>1. PICK v \in Writers : client[v] = "push" /\ q = pushing[v]
      BY DEF Pushed
    <3> QED
      BY <1>6, <2>1, <3>1 DEF push, PlaceInv, OncePerPlace
  <2> QED
    BY <2>1 DEF Before
<1>9. NoneFailed' /\ RowsInCallOrder'
  BY <1>1, <1>4 DEF Ordered, NoneFailed, RowsInCallOrder
<1>10. InCallOrder'
  BY <1>1, <1>4, <1>7, <1>8 DEF Ordered, InCallOrder
<1> QED
  BY <1>9, <1>10 DEF Ordered

\* try_pop takes what comes before the rest of the queue.
LEMMA PopOrdered ==
  ASSUME TypeInv, PlaceInv, Ordered, try_pop
  PROVE  Ordered'
<1>1. UNCHANGED <<driver, io, late, db, executed>>
  BY DEF try_pop, driverVars, cassVars
<1>2. PICK r \in Request :
           /\ r \in Queued /\ Held = {}
           /\ Queued' = Queued \ {r} /\ Held' = {r}
           /\ UNCHANGED <<Pushed, Driven, Called>>
  BY PopMoves
<1>3. data \in Seq(Request) /\ data # <<>> /\ data' = Tail(data) /\ held' = Head(data)
  BY DEF try_pop, TypeInv, TypeOK
<1>4. /\ r = data[1] /\ Len(data) \in Nat \ {0}
      /\ DOMAIN data = 1..Len(data) /\ DOMAIN data' = 1..(Len(data) - 1)
      /\ \A i \in 1..(Len(data) - 1) : data'[i] = data[i + 1]
  BY <1>2, <1>3 DEF Held
<1>5. \A i, j \in DOMAIN data : i < j => Before(data[i], data[j])
  BY DEF Ordered, InCallOrder
<1>6. \A q \in Queued \ {r} : Before(r, q)
  <2>1. ASSUME NEW q \in Queued \ {r} PROVE Before(r, q)
    <3>1. PICK i \in DOMAIN data : q = data[i]
      BY DEF Queued
    <3>2. 1 \in DOMAIN data /\ 1 < i
      BY <1>4, <2>1, <3>1
    <3> QED
      BY <1>4, <1>5, <3>1, <3>2
  <2> QED
    BY <2>1
<1>7. \A i, j \in DOMAIN data' : i < j => Before(data'[i], data'[j])
  BY <1>4, <1>5
<1>8. NoneFailed' /\ RowsInCallOrder'
  BY <1>1, <1>2 DEF Ordered, NoneFailed, RowsInCallOrder
<1>9. InCallOrder'
  BY <1>1, <1>2, <1>6, <1>7 DEF Ordered, InCallOrder
<1> QED
  BY <1>8, <1>9 DEF Ordered

\* An execution gets a number above all earlier ones.
LEMMA ExecuteOrdered ==
  ASSUME TypeInv, PlaceInv, PermitInv, Ordered, execute
  PROVE  Ordered'
<1>1. UNCHANGED <<data, io, late, db, client, pushing>>
  BY DEF execute, clientVars, cassVars
<1>2. PICK t \in IOThreads : async_query_execute(held, t)
  BY DEF execute
<1>3. held \in Request /\ Held = {held} /\ Held' = {}
  BY DEF execute, TypeInv, Carried, Held
<1>4. PICK f : /\ f.req = held /\ f.id = executed + 1 /\ f.st = "sent"
               /\ driver' = driver \cup {f} /\ executed' = executed + 1
  BY <1>2 DEF async_query_execute
<1>5. UNCHANGED <<Pushed, Queued>> /\ Driven' = Driven \cup {held}
  BY <1>1, <1>4 DEF Pushed, Queued, Driven
<1>6. /\ executed \in Nat /\ \A g \in driver : g.id \in Nat /\ g.id <= executed
      /\ \A w \in Writers, k \in Keys : db[w][k].stamp \in Nat
  BY DEF TypeInv, TypeOK, Future, PermitInv, Futures
<1>7. \A g \in driver : Before(g.req, held)
  BY <1>3 DEF Ordered, InCallOrder, Driven
<1>8. NoneFailed'
  BY <1>1, <1>4 DEF Ordered, NoneFailed
<1>9. InCallOrder'
  BY <1>1, <1>3, <1>4, <1>5, <1>6, <1>7 DEF Ordered, InCallOrder
<1>10. RowsInCallOrder'
  <2>1. held.writer \in Writers /\ held.key \in Keys /\ held.seq \in Nat
    BY <1>3 DEF Request
  <2>2. /\ db[held.writer][held.key].seq < held.seq
        /\ db[held.writer][held.key].stamp <= executed
    BY <1>3, <2>1 DEF Ordered, RowsInCallOrder
  <2>3. db[held.writer][held.key].seq \in Nat
    BY <2>1 DEF TypeInv, TypeOK
  <2>4. f.id > db[f.req.writer][f.req.key].stamp /\ f.req.seq > db[f.req.writer][f.req.key].seq
    BY <1>4, <1>6, <2>1, <2>2, <2>3
  <2> QED
    BY <1>1, <1>3, <1>4, <1>5, <1>6, <2>4 DEF Ordered, RowsInCallOrder
<1> QED
  BY <1>8, <1>9, <1>10 DEF Ordered

\* Cassandra stores the stamps of the driver in the order of the calls.
LEMMA ApplyOrdered ==
  ASSUME TypeInv, PermitInv, ~Timestamped, Ordered, cassandra, NEW f \in driver, cass_apply(f)
  PROVE  Ordered'
<1> DEFINE g == [f EXCEPT !.st = "ok"]
<1>1. /\ g.req = f.req /\ g.id = f.id /\ g.st = "ok" /\ f.req \in Request /\ f.id \in Nat
      /\ driver' = (driver \ {f}) \cup {g}
  BY DEF TypeInv, TypeOK, Future, cass_apply
<1>2. Apply(f.req, f.id) /\ UNCHANGED <<data, held, io, late, client, pushing, executed>>
  BY DEF cassandra, cass_apply, Stamp, clientVars, threadVars
<1> HIDE DEF g
<1>3. UNCHANGED <<Pushed, Queued, Held>> /\ Driven' = Driven
  BY <1>1, <1>2 DEF Pushed, Queued, Held, Driven
<1>4. NoneFailed'
  BY <1>1, <1>2 DEF Ordered, NoneFailed
<1>5. InCallOrder'
  BY <1>1, <1>2, <1>3 DEF Ordered, InCallOrder
<1>6. f.req.writer \in Writers /\ f.req.key \in Keys /\ f.req.seq \in Nat
  BY <1>1 DEF Request
<1>7. /\ db \in [Writers -> [Keys -> [seq : Nat, stamp : Nat]]]
      /\ db[f.req.writer][f.req.key].stamp \in Nat
  BY <1>6 DEF TypeInv, TypeOK
<1>8. CASE ~(f.id > db[f.req.writer][f.req.key].stamp)
  <2>1. db' = db
    BY <1>2, <1>6, <1>7, <1>8 DEF Apply
  <2>2. RowsInCallOrder'
    BY <1>1, <1>2, <1>3, <2>1 DEF Ordered, RowsInCallOrder
  <2> QED
    BY <1>4, <1>5, <2>2 DEF Ordered
<1>9. CASE f.id > db[f.req.writer][f.req.key].stamp
  <2>1. \A w \in Writers, k \in Keys :
          db'[w][k] = IF w = f.req.writer /\ k = f.req.key
                      THEN [seq |-> f.req.seq, stamp |-> f.id] ELSE db[w][k]
    BY <1>2, <1>6, <1>7, <1>9 DEF Apply
  <2>2. \A w \in Writers, k \in Keys : db'[w][k].stamp <= executed'
    BY <1>1, <1>2, <2>1 DEF Ordered, RowsInCallOrder, PermitInv, Futures
  <2>3. ASSUME NEW q \in Pushed \cup Queued \cup Held
        PROVE  db'[q.writer][q.key].seq < q.seq
    <3>1. q.writer \in Writers /\ q.key \in Keys /\ Before(f.req, q)
      BY OutstandingPlaces DEF Ordered, InCallOrder, Driven, Request
    <3> QED
      BY <2>1, <3>1 DEF Ordered, RowsInCallOrder, Before
  <2>4. ASSUME NEW h \in driver'
        PROVE  h.id > db'[h.req.writer][h.req.key].stamp
                 <=> h.req.seq > db'[h.req.writer][h.req.key].seq
    <3>1. PICK e \in driver : e.id = h.id /\ e.req = h.req
      BY <1>1
    <3>2. /\ e.req.writer \in Writers /\ e.req.key \in Keys /\ e.req.seq \in Nat /\ e.id \in Nat
          /\ e.id > db[e.req.writer][e.req.key].stamp
               <=> e.req.seq > db[e.req.writer][e.req.key].seq
      BY DEF TypeInv, TypeOK, Future, Request, Ordered, RowsInCallOrder
    <3>3. CASE e.req.writer = f.req.writer /\ e.req.key = f.req.key
      <4>1. /\ db'[h.req.writer][h.req.key].stamp = f.id
            /\ db'[h.req.writer][h.req.key].seq = f.req.seq
        BY <1>6, <2>1, <3>1, <3>3
      <4>2. /\ e.id < f.id => e.req.seq < f.req.seq
            /\ f.id < e.id => f.req.seq < e.req.seq
            /\ e.id = f.id => e = f
        BY <3>3 DEF Ordered, InCallOrder, Before, PermitInv, Futures
      <4> QED
        BY <1>1, <1>6, <3>1, <3>2, <4>1, <4>2
    <3>4. CASE ~(e.req.writer = f.req.writer /\ e.req.key = f.req.key)
      BY <2>1, <3>1, <3>2, <3>4
    <3> QED
      BY <3>3, <3>4
  <2>5. RowsInCallOrder'
    BY <1>3, <2>2, <2>3, <2>4 DEF RowsInCallOrder
  <2> QED
    BY <1>4, <1>5, <2>5 DEF Ordered
<1> QED
  BY <1>8, <1>9

\* Until a request fails, every step keeps the order.
LEMMA NextOrdered ==
  ASSUME TypeInv, PlaceInv, PermitInv, Abstract!Inv, ~Timestamped, Ordered, fails' = 0, [Next]_vars
  PROVE  Ordered'
<1>1. \A t \in IOThreads : io[t].pc \notin {"err", "count", "retry"}
  BY DEF Ordered, NoneFailed
<1>2. ASSUME UNCHANGED <<data, held, driver, executed, late, db, Pushed>>,
             \A t \in IOThreads : io'[t].pc \in {"idle", "ok", "notify"}
      PROVE  Ordered'
  <2>1. UNCHANGED <<Queued, Held, Driven>>
    BY <1>2 DEF Queued, Held, Driven
  <2> QED
    BY <1>2, <2>1 DEF Ordered, NoneFailed, InCallOrder, RowsInCallOrder
<1>3. \A t \in IOThreads : io[t].pc \in {"idle", "ok", "notify"}
  BY DEF Ordered, NoneFailed
<1>4. ASSUME NEW t \in IOThreads, callback(t) PROVE Ordered'
  <2>1. PICK f \in driver :
          /\ f.st # "sent"
          /\ driver' = driver \ {f}
          /\ io' = [io EXCEPT ![t] = [pc |-> f.st, req |-> f.req, errs |-> 0]]
    BY <1>4 DEF callback
  <2>2. f.st = "ok"
    BY <2>1 DEF TypeInv, TypeOK, Future, Ordered, NoneFailed
  <2>3. UNCHANGED <<data, held, executed, late, db, client, pushing>>
    BY <1>4 DEF callback, clientVars, threadVars, cassVars
  <2>4. UNCHANGED <<Pushed, Queued, Held>> /\ Driven' \subseteq Driven
    BY <2>1, <2>3 DEF Pushed, Queued, Held, Driven
  <2>5. NoneFailed'
    BY <1>3, <2>1, <2>2, <2>3 DEF Ordered, NoneFailed, TypeInv, TypeOK
  <2> QED
    BY <2>1, <2>3, <2>4, <2>5 DEF Ordered, InCallOrder, RowsInCallOrder
<1>5. ASSUME NEW t \in IOThreads, callback_ok(t) \/ finish_async_call(t) PROVE Ordered'
  <2>1. UNCHANGED <<data, held, driver, executed, late, db, Pushed>>
    BY <1>5 DEF callback_ok, finish_async_call, clientVars, threadVars, driverVars, cassVars, Pushed
  <2>2. \A u \in IOThreads : io'[u].pc \in {"idle", "ok", "notify"}
    <3>1. CASE callback_ok(t)
      BY <1>3, <3>1 DEF callback_ok, TypeInv, TypeOK, IOState
    <3>2. CASE finish_async_call(t)
      BY <1>3, <3>2 DEF finish_async_call, IOIdle, TypeInv, TypeOK
    <3> QED
      BY <1>5, <3>1, <3>2
  <2> QED
    BY <1>2, <2>1, <2>2
<1>6. ASSUME NEW t \in IOThreads PROVE ~error_read(t) /\ ~set_error_occurred(t) /\ ~retry(t)
  BY <1>1 DEF error_read, set_error_occurred, retry
<1>7. CASE cassandra
  <2>1. \A f \in driver : ~cass_fail(f)
    BY DEF cass_fail, TypeInv, TypeOK
  <2>2. late = {}
    BY DEF Ordered, NoneFailed
  <2> QED
    BY <1>7, <2>1, <2>2, ApplyOrdered DEF cassandra, resolve
<1>8. ASSUME NEW w \in Writers, flush_elements(w) \/ destroy_writer(w) \/ signal(w) \/ completed(w)
      PROVE  Ordered'
  <2>1. UNCHANGED <<data, held, driver, executed, late, db, io, pushing>>
    BY <1>8 DEF flush_elements, destroy_writer, await, signal, completed, threadVars, driverVars, cassVars
  <2>2. Pushed' = Pushed
    BY <1>8, <2>1 DEF flush_elements, destroy_writer, await, signal, completed, Pushed, TypeInv, TypeOK
  <2> QED
    BY <1>2, <1>3, <2>1, <2>2
<1>9. CASE check_finish \/ acquire_pending \/ count_call \/ try_pop_fails \/ exit \/ exitStep
           \/ UNCHANGED vars
  <2>1. UNCHANGED <<data, held, driver, executed, late, db, io, Pushed>>
    BY <1>9 DEF check_finish, acquire_pending, count_call, try_pop_fails, exit, exitStep,
         drain_data, drain_callbacks, release_thread, join, vars, clientVars, threadVars,
         driverVars, cassVars, Pushed
  <2> QED
    BY <1>2, <1>3, <2>1
<1> QED
  BY <1>4, <1>5, <1>6, <1>7, <1>8, <1>9, QueryOrdered, PushOrdered, PopOrdered, ExecuteOrdered
     DEF Next, clientStep, threadStep, ioStep, terminated

\* A failure is never forgotten.
LEMMA TrustedBefore ==
  ASSUME TypeInv, [Next]_vars, Trusted'
  PROVE  Trusted
<1>1. fails' = fails \/ fails' = fails + 1
  BY DEF Next, vars, cassVars, queue_async_query, flush_elements, destroy_writer,
         await, clientStep, push, signal, completed, threadStep, check_finish,
         acquire_pending, count_call, try_pop, try_pop_fails, execute, ioStep, callback,
         callback_ok, finish_async_call, error_read, set_error_occurred, retry, cassandra,
         resolve, cass_apply, cass_fail, cass_late,
         exit, exitStep, drain_data, drain_callbacks, release_thread, join, terminated
<1> QED
  BY <1>1 DEF Trusted, TypeInv, TypeOK

\* Every step keeps the promise while it can be trusted.
LEMMA NextDurable ==
  ASSUME TypeInv, PlaceInv, PermitInv, DurableInv, [Next]_vars
  PROVE  DurableInv'
<1> SUFFICES ASSUME Trusted'
             PROVE  AnsweredInv' /\ Abstract!Inv' /\ Agrees'
  BY DEF DurableInv
<1>1. AnsweredInv /\ Abstract!Inv /\ Agrees
  BY TrustedBefore DEF DurableInv
<1>2. AnsweredInv' /\ [Abstract!Next]_(Abstract!vars)
  BY <1>1, NextAnswered
<1>3. Abstract!Inv'
  BY <1>1, <1>2, AbstractStep
<1>4. Agrees'
  <2>1. CASE Timestamped
    BY <1>1, <2>1, NextAdvances DEF Agrees
  <2>2. CASE ~Timestamped
    BY <1>1, <2>2, NextOrdered DEF Agrees, Trusted
  <2> QED
    BY <2>1, <2>2
<1> QED
  BY <1>2, <1>3, <1>4

\* What wait_writes_completion promises: whenever Writer::ncallbacks is zero, every row of
\* the Writer holds the last value its client wrote; with client timestamps whatever was
\* retried or applied late, without them as long as no request has failed.
THEOREM FlushTheorem == Spec => []DurableWhenFlushed
<1> DEFINE IInv == PermitInv /\ DurableInv
<1>1. Init => IInv
  <2> SUFFICES ASSUME Init PROVE IInv
    OBVIOUS
  <2>1. PermitInv
    BY FS_EmptySet DEF Init, PermitInv, Futures, PermitsConserved
  <2>2. Ordered
    <3>1. Pushed = {} /\ Queued = {} /\ Held = {} /\ driver = {} /\ late = {}
      BY DEF Init, Pushed, Queued, Held
    <3>2. \A w \in Writers, k \in Keys : db[w][k].stamp <= executed
      BY DEF Init
    <3>3. data = <<>> /\ \A t \in IOThreads : io[t].pc = "idle"
      BY DEF Init, IOIdle
    <3> QED
      BY <3>1, <3>2, <3>3 DEF Ordered, NoneFailed, InCallOrder, RowsInCallOrder
  <2>3. Abstract!Inv
    BY InitAbstract, InitAbstractInv
  <2> QED
    BY <2>1, <2>2, <2>3, InitAbstract DEF DurableInv, Agrees
<1>2. TypeInv /\ PlaceInv /\ CountInv /\ IInv /\ [Next]_vars => IInv'
  <2>1. PermitInv /\ UNCHANGED vars => PermitInv'
    BY SamePermits DEF vars, permitVars
  <2> QED
    BY <2>1, NextPermits, NextDurable
<1>3. CountInv /\ IInv => DurableWhenFlushed
  <2> SUFFICES ASSUME CountInv, DurableInv, Trusted,
                      NEW w \in Writers, wcallbacks[w] = 0, NEW k \in Keys
               PROVE  db[w][k].seq = last[w][k]
    BY DEF DurableWhenFlushed, Trusted
  <2>1. OutstandingOf(w) = {}
    BY FS_EmptySet DEF CountInv
  <2>2. Rows[w][k] = last[w][k]
    <3>1. [writer |-> w, key |-> k, seq |-> last[w][k]] \notin Outstanding
      BY <2>1 DEF OutstandingOf
    <3> QED
      BY <3>1 DEF DurableInv, Abstract!Inv, Abstract!LastPending
  <2> QED
    BY <2>2 DEF Rows
<1> QED
  BY <1>1, <1>2, <1>3, PathInvariance, PTL DEF Spec
=============================================================================

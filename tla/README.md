# Hecuba: a TLA+ model of the storage core

Hecuba lets Python and C++ programs use Apache Cassandra through ordinary objects:
dictionaries, numpy arrays and objects with attributes. This directory holds TLA+
models of its concurrent and order-sensitive parts, TLC configurations that check
them on small instances, and TLAPS proofs of the results that hold for every instance.
`PROJECT.json` lists the components, the runs, the source lines behind each definition,
the hazards, the disagreements found and the theorems.

## The system

| Component | State | Operations | Interacts with | Module |
|---|---|---|---|---|
| `Writer` (`Writer.cpp`) | counter of unfinished requests, dirty blocks, lazy flag, timestamp generator, Kafka producer | `write_to_cassandra`, `flush_elements`, `wait_writes_completion`, `send_event`, destructor | queues into the `WriterThread`, is told by its callbacks | `WriterThread`, `CacheTable`, `Streaming` |
| `WriterThread` (`WriterThread.cpp`, `Semaphore.cpp`) | bounded queue, two semaphores, counter, error counter, flag | `queue_async_query`, working thread, `callback`, retry, destructor | every `Writer`, the driver's I/O threads | `WriterThread` |
| `TimestampGenerator` | last stamp | `next` | `Writer`, `CacheTable` | `TimestampGenerator` |
| `CacheTable`, `KVCache` | LRU list and map, prepared queries, Kafka consumer | `put_crow`, `get_crow`, `delete_crow`, `flush_elements`, `send_event`, `poll`, `close_stream` | a `Writer`, Cassandra, Kafka | `CacheTable`, `Streaming` |
| `Prefetch` | bounded queue of rows, `completed` | worker `consume_tokens`, `get_cnext`, destructor | iterators of Python and C++ | `Prefetch` |
| `StorageInterface`, `tools.py` | tokens of the nodes, token ranges | collect tokens, ranges, host of a token, partitions | iterators, `IStorage.split`, numpy placement | `TokenRanges` |
| Python `StorageDict` (`hdict.py`) over the `HCache` binding | its own dict items | `__setitem__`, `__getitem__`, `__delitem__`, `__contains__`, `sync`, `send`, `poll`, iterators | a `CacheTable` | `StorageDict`, `Streaming` |
| `TableMetadata`, `TupleRow`, `TupleRowFactory`, `UnitParser`, `PythonParser` | types, sizes and positions of columns; null flags and bytes of a row | Python to C, C to Cassandra, row to message, and back | every row | `RowCodec` |
| `ArrayDataStore`, `SpaceFillingCurve` | array metadata, blocks and clusters | store, read, partition of an array | a `CacheTable` | `SpaceFillingCurve`, `StorageNumpy` |
| Python `StorageNumpy` (`hnumpy.py`) | base array, loaded blocks, full flag, view | `__getitem__`, `__setitem__`, ufuncs, `split`, `getID`, opening by id | `HCache`, `ArrayDataStore`, other tasks | `StorageNumpy` |
| `HecubaSession`, `IStorage`, `StorageObject`, `StorageNumpy`, C++ `StorageDict` | registry of alive objects, pending or persistent objects, static objects | `make_persistent`, `getByAlias`, `sync`, assignment, destruction, exit | all of the above | `HecubaSession` |
| Python `StorageObj`, configuration, parser, filters | attributes, metadata tables | attribute access, `make_persistent` | bindings | - |
| scripts, containers, Java storage interface, Arrow server | - | start clusters, glue | - | - |

What is hard here: writes are asynchronous, and four kinds of threads (clients, the
working thread, the driver's I/O threads, the main thread at exit) share counters,
queues and semaphores; requests fail, time out and are applied late; deletes and reads
overtake queued writes; two caches may serve old values; an iteration has a worker that
blocks, completes and is destroyed at any time; token arithmetic has boundaries; an
array is read and written in blocks that several views and tasks share; objects are made
persistent in several queries that other programs race with; static objects are destroyed
in an order nobody wrote down; a message carries no lengths and may come twice, late or
after a crash.

## Modules

* `WriterThread` - the asynchronous write path. One action per atomic step of the client
  (`queue_async_query`, `push`, `signal`, `await`, `completed`), of the working thread
  (`check_finish`, `acquire_pending`, `count_call`, `try_pop`, `execute`), of the
  callback on an I/O thread (`callback`, `callback_ok`, `finish_async_call`,
  `error_read`, `set_error_occurred`, `retry`), of Cassandra (external) and of
  `~WriterThread` (`exit`, `drain_data`, `drain_callbacks`, `release_thread`, `join`).
  A write is named by its number in its Writer's history, which is also its stamp.
  Each future is served by one I/O thread, chosen when it is executed; while that thread
  is in a callback (also one that blocks in a retry) its other callbacks wait. A failed
  request may be applied later. `++error_count` is a racy read and write. Above
  `MAX_ERRORS` the exception leaves the callback and the process ends (`aborted`).
  A Writer is used by one thread: the Python bindings keep the interpreter lock.
* `WritePipeline` - what that path promises: an abstract specification with writes that
  are outstanding, stored and acknowledged. `WriterThread` implements it
  (`ImplementsPipeline`) when statements carry client timestamps.
* `TimestampGenerator` - `next()` called by several threads, with the clock read before
  and the result read after the critical section.
* `CacheTable` - one client's put, get, delete and flush over the LRU cache and the
  Writer with its dirty blocks. The write path is reduced to its order: requests leave
  the queue in order, are applied in any order, and the highest write time wins.
  `max_calls` is uninitialised in the code and so takes every value of `DirtyLimits`.
* `StorageDict` - extends `CacheTable` with the Python dict: its memory copy, which is
  used when the C++ cache is disabled, and `in`, which turns exceptions into `False`. It
  begins persistent and empty: `make_persistent` of a filled dict sets its items one by one
  (`hdict.py:476-480`), as a program that sets them afterwards does. A table with lazy writes
  belongs to an array and is used without the dict.
* `Prefetch` - worker, consumer and destructor around the bounded queue, with
  `abort()` waking only the calls in progress. Rows are numbered through all ranges, and
  `RangeEnds` gives the last row of each.
* `TokenRanges` - collecting the tokens, the C++ ranges, the Python ranges with the sort of
  the ring before them, the host of a token and the partitions of `split`. A range `<<a, b>>` stands for
  `token >= a AND token < b`, as in the queries.
* `SpaceFillingCurve` - how an array is cut: the side of a block (the power's root is a
  floating-point computation, so both neighbours of an inexact root are possible), the
  blocks and their bounds, the Z-order number of a block with the `int` shift of the code
  and the cut into cluster and block, the Fortran variant, and the copies between blocks
  and memory. Word widths are constants. `merge_partitions` throws for a block of an
  unexpected size; that is left out, since a block is stored with the size that the same
  generator computes.
* `StorageNumpy` - extends it with the Python array: a process has the memory of a base
  array and views of it, each with its index expression, the blocks it believes loaded and
  its full flag. Reads load blocks, writes load and store blocks, `split` makes parts,
  `getID` waits and hands a part to a task, which opens it by storage id. `truth` and
  `owner` are history: the last value of each element, and the process that may use it.
* `HecubaSession` - C++ programs with variables of user classes over one Cassandra.
  `make_persistent` and `getByAlias` are sequences of queries that fail or race; the
  session's lists (a set: each table enters once, and their order decides nothing), the
  shared pointers of copied variables, the one static table of arrays, `sync`, and at exit
  the static objects in the reverse order of their construction. A table has key columns and
  a type for each column. As in `TableMetadata`, a class is compared with it by the names of
  the columns alone (`HasColumns`): the types are Cassandra's and further columns are
  ignored. Each query of a call may fail, those of the access and of a lookup too. A flush
  into the destroyed `WriterThread` is undefined: its rows are lost, or the wait for them
  never ends.
* `RowCodec` - what happens to a value: each parser from Python to C and back, the row
  with its null flags, binding to Cassandra and reading of a cell, tuples and the
  description of an array, and the message of a row. The result of undefined behaviour is
  the value `Garbage`, an exception is `Raise`.
* `Streaming` - processes that share a table, which may be a stream: writes, reads, sends,
  polls, end marks, destruction and crashes over `RowCodec`, with a topic that may hold
  a message twice or late. The rows are those of `RowCodec`, byte by byte. The few keys of a
  program fit into its cache, whose evictions are in `CacheTable`.
* `MCWriterThread`, `MCStorageDict`, `MCPrefetch`, `MCTokenRanges`, `MCStorageNumpy`,
  `MCHecubaSession`, `MCStreaming` - definitions for TLC only.
* `WriterThreadProofs` (first types, permits and rows, then wake-ups, counters, destruction,
  durability and the implementation of `WritePipeline`, whose own theorem is there too),
  `TimestampGeneratorProofs`, `PrefetchProofs`, `StorageDictProofs` (with `CacheTable`),
  `TokenRangesProofs`,
  `HecubaSessionProofs`, `StreamingProofs` and `StorageNumpyProofs` - theorems.

In each module the definitions under "plausible bugs" are faulty versions of an
operation; they are not part of the specification and show that a property can fail.

## What the runs check

Passing runs:

* `writer_retries`: one Writer, two rows, two I/O threads, queue of 1, two permits, up
  to three writes, two failures, error limit 1. The failures allow a retry that overtakes, a late
  request after its retry, and the end of the process. Checks the counters
  (`CountedOnce`), permits, wake-ups, destruction, durability, and the abstract pipeline.
  Deadlock is not checked: the retry deadlock below is a real one.
* `writer_liveness`: two Writers sharing the thread, without client timestamps and
  failures: flush and exit end.
* `timestamps`: two threads, a clock that may stand still, four calls.
* `prefetch`: three ranges, one of them empty, and a queue of two make the worker block.
* `tokens`: eight tokens and rings of up to four tokens contain every case of the range
  arithmetic (a token at either end of the space, one, two and more tokens, steps that do
  and do not divide a range).
* `dict`: the configuration of a table (cache or not, timestamps or not, lazy writes or
  not) is chosen in the initial state. Two keys and a cache of one entry make evictions
  happen; four operations allow write, delete, write, read in every order; one query fails.
* `arrays`: arrays of one, two and three dimensions with blocks of two or more elements,
  incomplete blocks at the ends, clusters of two blocks a side, Z-order and Fortran order,
  two tasks, two views and one or two operations a process; larger arrays of more clusters
  are only stored and opened. Index expressions have negative positions, ranges and steps.
  `ArrayCut` says of each of these arrays that the generators cut it: every element is at one
  place of one block, no two blocks have one key, every key is in a cluster that a reader asks
  for, and `merge_partitions` finds the places that `getNextPartition` took.
  The program follows the rules that make sharing meaningful: an element is used by one
  process at a time (`Holds`), and what goes to a task is the array or a part of
  `split` (`HandSlices = FALSE`: two slices that share a block would overwrite each other,
  and nothing in the code prevents it). An array is split before it is loaded or when it
  is loaded (`SplitLoaded = FALSE`); the other case is the run `numpy_full`.
* `session`: two programs, three variables, two names, arrays of two blocks, three calls
  and one failing query; two dictionaries of a class and one of another (with the same column
  names, another type and one column more), or an object and two arrays; one table for all
  arrays, or one each and lazy writes. `RegistrySound` and `ReturnedPersistent` are about the
  names of columns, which is all that the code compares; of the types see `SchemaMatches` below.
* `stream`: seven tables, of integers (2, 3, 4 and 5 bits stand for 8, 16, 32 and 64),
  text and floating point, times and tuples, array descriptions, and three streams: a last
  column that may be null, a key of two columns, and nine columns (more than a byte has
  flags). Two or three calls and one fault. `ZoneNow = ZoneEpoch`: the local time has
  the offset it had in 1970.

Deadlock is not checked in `arrays` and `stream`, where the bounds end the program, and in
`prefetch`.

Runs that show a disagreement between the code and what the repository says of it:

* `writer_retry_deadlock`: a failed request can stop the write path for ever.
* `numpy_full`: a part of a partly loaded array takes blocks of the whole for its own and
  believes itself loaded.
* `lazy_exit`: with lazy writes, blocks dirty at exit are flushed into a `WriterThread` that
  was made after the session, at the first queued write, and is destroyed before it.

More are stated as properties that the code does not have and have no run; TLC finds a
counterexample to each on the instance of the run of its module:

* `SchemaMatches` (`HecubaSession`): the second of two dictionary classes that differ in a type
  is made persistent over the table of the first, and registered in its place. The user
  documentation, which is about Python, says that this raises
  (`src/docs/source/basics.rst:316`), and `hdict.py` checks it; in C++ it is a TODO
  (`IStorage.cpp:540`).
* `RangesAsDocumented` (`TokenRanges`): the C++ ranges are not those of the comment above them
  (`StorageInterface.cpp:285`); the last token is left out, and with one or two tokens they
  depend on an uninitialised variable.
* `HostOfEveryToken` (`TokenRanges`): a token beyond the last one of the ring gets the last
  node, not the first.
* `GetItemFresh` (`StorageDict`): without the C++ cache a deleted key still reads as its old
  value.
* `ContainsExact` (`StorageDict`): `in` answers `False` for a key that is there when the query
  fails.
* `GetNextReturns` (`Prefetch`): the call after the last row may block for ever, when the worker
  completes and aborts the queue between `get_cnext`'s test and its pop.
* `StampsDistinct` (`TimestampGenerator`): concurrent calls may get one stamp.

Fairness: threads run, so every enabled step of a client call in progress, of the
working thread, of an I/O thread, of the worker of a `Prefetch` and of a destructor is
eventually taken (weak fairness per thread), and the driver answers or times out every
request. Nobody is forced to write, to flush, to ask for a row or to end the program.
A semaphore or queue that stays available is eventually acquired by the one thread that
waits for it; where two threads compete for a permit, only weak fairness is assumed.

Bounds (`MaxWrites`, `MaxFails`, `MaxOps`, `MaxViews`, `MaxClock`, `MaxCalls`, `MaxFaults`,
`RingSize`) limit the environment's calls and faults, never an internal step.

## What is proved

Every theorem holds for all values of the constants that satisfy the named assumptions of
its module (`ConstantsAssumption`, `NoReqAssumption`, `PrefetchAssumption`,
`SessionAssumption`, `NumpyAssumption`, ...): any sets of Writers, keys, threads, names, classes and programs,
and any value of the limits, bounds included.

The write path (`WriterThread`):

* `TypeCorrect`: `Spec => []TypeOK`. `TypeOK` is not inductive by itself: a client in
  `push`, the working thread in `execute` and an I/O thread in a callback must really
  hold a request (`Carried`), or the next step would queue or execute "no request".
* `PermitsTheorem`: `Spec => []PermitsConserved`. The cardinality of the set of futures
  changes by one with each permit only if a future is new when it is executed and
  keeps its identity when it is answered; `Futures` says so with the execution numbers.
* `RowsTheorem`: with client timestamps, `Spec => RowsAdvance`. Needs that the write
  time of a stored value and of a late request is its own stamp (`StampIsSeq`).
* `WakeTheorem`: `Spec => []NoLostWakeup`. Each step moves one request or one token, and the
  clients that have pushed and not yet signalled make up the difference.
* `CountTheorem`: `Spec => []CountedOnce`. A request is at one place of the path at a time:
  in the hands of its client, in the queue, with the working thread, with the driver or in
  a callback. A step that moves it keeps the set of outstanding requests; only
  `queue_async_query` and the end of a callback change it, and the counter with it.
* `DestroyTheorem`: `Spec => []NoUseAfterDestruction`. The thread's own counter is the number
  of requests between `try_pop` and the end of their callback (`WorkInv`); so each phase
  of the destructor leaves one place less where a request can be (`ExitInv`). A
  destroyed Writer has no request on the way because of `CountTheorem` (`GoneInv`).
* `PipelineTheorem`: with client timestamps, `Spec => ImplementsPipeline`. The abstract
  variables are computed from the places of the requests; steps between places stutter, and
  a write that is acknowledged was stored before (`AnsweredInv`).
* `FlushTheorem`: `Spec => []DurableWhenFlushed`. The invariant of `WritePipeline` holds of
  the mapped variables while timestamps are used or nothing has failed (`DurableInv`); without
  timestamps because requests for one row then overtake each other nowhere
  (`NoneFailed`), so that the driver's stamps are in the order of the calls.
* `DurableTheorem` (of `WritePipeline`, with the variables that `WriterThread` maps to it):
  `Spec => []Durable`, from the invariant (`Inv`) that the last write to a row is stored or still outstanding, and that nothing is stored or
  outstanding that is newer than the last write.

The other components:

* `LaterTheorem` (of `TimestampGenerator`): `Spec => LaterCallsLater`, for any threads
  and any clock. The invariant: nothing returned exceeds `last` (`AtMostLast`), and a
  thread that left the critical section has raised `last` above all that was returned
  before its call began (`Raised`), also when other threads raise it again before this
  one reads it. The bounds of `TypeOK` play no part.
* `OrderTheorem`, `EndTheorem`, `LeakTheorem` (of `Prefetch`): `InOrder`, `NoEarlyEnd` and
  `NoRowLeaked` are one invariant: the number of the next row is given by the ranges that are
  done and the row within the range (`Position`), worker and consumer agree on
  `completed` and on what an abort has woken (`Handshake`), and each row is delivered,
  queued, in the worker's hand or freed (`Placed`).
* `DictTypeTheorem`, `CoherenceTheorem`, `StoredTheorem`, `GetItemTheorem`, `ContainsTheorem`
  (of `CacheTable` and `StorageDict`). The invariant `DictInv` follows a value from the
  client to Cassandra: write times grow along the dirty blocks, the queue and what is in
  flight (`Times`), the write with the highest time of a key is the last one the client made
  or an earlier one that a pending write or delete will replace (`StoredInv`), the cache holds
  no key twice and only such values (`CacheInv`), and so does the memory of Python (`MemInv`).
  The answer of a call is right because nothing changes between it and the next call
  (`OutcomeInv`).
* `RegistryTheorem`, `PersistentTheorem`, `AliveTheorem`, `SyncTheorem`, `ExitTheorem` (of
  `HecubaSession`). The invariant `SessionInv`: a call in progress is on a persistent
  variable of a running program (`CallInv`); an access belongs to the program of its users
  and writes with itself or with the static table of arrays (`AccessInv`), and a new one
  is new (`NumberInv`); from the look-up of the columns on a variable has its table with
  those names, and from its registration on its name (`OpenInv`); no write is lost while the program runs
  (`WriteInv`); the blocks of a synchronised array are stored (`LoadInv`); and the
  static objects end with the session, the `WriterThread` after its writes (`ExitInv`). Two
  lemmas carry the interleavings: a step of a program changes nothing of another
  (`LocalAction`, `LocalExit`), and what they share only grows (`GrowStep`).
* `DiscreteRangesTheorem`, `CppRangesTheorem`, `HostTheorem` (of `TokenRanges`), for any
  token space, nodes and number of tokens. The invariant `RingInv`: the tokens are in order
  after each insertion (`InsertInOrder`), and the C++ ranges are those over all tokens but
  the last. The Python ranges are proved for the tokens in any order, which `sort` puts into the
  order of the ring. `RangesCover` says of any ascending list of tokens that the ranges over it hold
  every token once; it is used with all tokens for Python and without the last one for C++,
  where the last token visited is below the greatest token.
* `PartitionsTheorem`, `LocalityTheorem` (of `TokenRanges`): the partitions of `split` hold
  every token once, and each one lies in ranges of one node. The pieces of a range begin where
  the one before ends, by whole steps (`PiecesCover`), so that they hold the tokens of the
  range once; and the sequence of all pieces, which a recursive function collects range by
  range, is the pieces of each range one after the other. The prover has no induction over a
  formula: that the recursive function exists and what it returns is shown with a least
  counterexample, a set of naturals that has no least element being empty (`Least`).
* `EndTheorem` (of `Streaming`): `Spec => []EndAfterAll`, for any processes, tables and rows:
  while nothing crashed or was repeated, who has polled the end of the stream left no event of
  that producer behind. The invariant `StreamInv`: each message of a process that did not
  crash is in the producer's queue or in the topic (`NothingLost`), what the topic gave
  to a consumer was polled (`GivenPolled`), and in the queue, in the topic and among the polled
  messages nothing comes before a message that the same process sent earlier (`QueueOrder`,
  `TopicOrder`, `PolledOrder`). What the messages hold plays no part.
* `ArrayTypeTheorem`, `ViewsTheorem` (of `StorageNumpy`): `Spec /\ ArrayCut => []ArrayTypeOK`
  and `[]ViewsAgree`, for arrays of any number of dimensions, any views and any index
  expressions. The invariant `TypeInv`: what is queued and stored are parts of blocks, and each
  view has a valid index expression whose axes are those that numpy selected (`ViewOK`). The
  main lemmas are about slices: a slice of a slice is the composed slice, element by element
  (`SliceOfSlice`), and the blocks computed from an expression are those of its elements.
* `ReadsTheorem`, `FullTheorem`, `StoredTheorem` (of `StorageNumpy`): `ReadsTruth`,
  `FullMeansLoaded` and `StoredWhole`, for programs that split an array before some of it is
  loaded (`~ SplitLoaded`) and hand over the array or its parts (`~ HandSlices`). The invariant
  `DataInv` says where the last value of an element is: a block is left to one process as a
  whole (`BlocksOwned`); the main process has all that it was left with in memory (`MainTrue`);
  of each block the last part in a queue is true (`QueueTrue`), and a block that nobody has queued
  is stored truly (`TableTrue`); and the blocks that a view takes for loaded are, as far as they
  are left to its process (`ViewTrue`). None of the properties is inductive without the others:
  a read is right because a block is in memory or merged from its own queue or from Cassandra,
  a store writes whole blocks from memory that a load filled before.

  `ArrayCut` is a hypothesis of these five theorems because it is about what the folds over
  dimensions and bits of `SpaceFillingCurve` compute; it is a predicate of the initial state
  (the array never changes) and the run `arrays` checks it for every array that it uses. The
  two other conditions are those of the run: `numpy_full` shows what happens without the first,
  and without the second two slices that share a block overwrite each other.

Only model-checked: liveness (the prover does not handle fairness); `StoredExact`,
`PolledExact` and `ReadYourSets` of `Streaming`, which are about the bytes that the folds of
`RowCodec` compute for each of its tables; and `ArrayCut`, which is about the folds of
`SpaceFillingCurve`: what they compute for every shape needs an induction over data that
the installed provers do not have.

## What the models show besides

Where a property has a condition, this is what lies outside it in the code.

* `StorageDict`: a value that the binding refuses stays in the Python memory
  (`hdict.py:845`). Text keys never hit the C++ cache, which compares addresses. After a
  delete that raised, a read may return the old value or none.
* `RowCodec`, stored rows: `tinyint` wraps and `bigint` overflows silently; a `blob` is
  read as the text of its length; a tuple with a `double` cannot be read and one with
  a `boolean` is rejected; times use the offset of 1970 on one way and today's on the other.
* `RowCodec`, messages: after a null column that is not the last, the consumer reads
  the values of the wrong columns; of nine columns and more the flags beyond the first
  byte are lost; dates, times, blobs, array descriptions and tuples cannot be streamed.
* `Streaming`: a polled row is cached under a key that no lookup finds (its null flags
  have another length), although `hdict.py:864` says that poll caches it; without the C++
  cache `poll` raises after it took the message; the end of a stream is recognised only with
  a single key and is seen by one consumer of the group; `close_stream` before any send
  raises.
* `HecubaSession`: the row of `hecuba.istorage` is that of the last class that was made
  persistent under a name. Attributes are set persistent before the table exists, a failing query
  leaves them so; an attribute, which `SO_Attribute.h` registers a second time, never leaves the
  session's list; with a
  single table for arrays the session's destructor uses the static table after its end.
* `StorageNumpy`: the composition of a negative position with a step larger than one is
  wrong, and a slice that stops at 0 is taken for one without end (`Supported` leaves both
  out); blocks are marked as loaded before the load that may fail.

## Abstractions and limits

* `tbb::concurrent_bounded_queue`, the Cassandra driver, Cassandra, librdkafka and the
  broker, numpy and the C library are external and modelled from how the code uses them.
  The driver may run a callback on the calling
  thread when the future is already set; the model runs every callback on an I/O thread.
* The driver's own timestamps grow with each execution (its default generator).
* Token `LONG_MAX` is in no range of the code; Cassandra does not assign it to a key
  of a row, and the cover properties leave it out.
* `StorageNumpy` and `Streaming` apply the writes of a process in order: `WriterThread` and
  `CacheTable` are about their order. In `HecubaSession` a write is the row it goes to.
* A topic has one partition and the consumers one group, as the code configures them.
* The arrays of the runs have keys below the width of the `int` that
  `SpaceFillingCurve.cpp:144` shifts (`INT_BITS`); beyond it keys collide.
* Logging, tracing, statement preparation and the text of errors and queries are left out.

## Not modelled

* Columnar access to arrays through Arrow files, Fortran order of three dimensions and
  streams of whole arrays (`hnumpy.py`, `HCache.cpp`, `CacheTable::poll(data, size)`):
  file and buffer I/O without further control.
* Iterators of `HCache` and of the C++ `StorageDict` above `Prefetch`; embedded sets and
  `StorageObj` of Python, which repeat the steps of `StorageDict`.
* The copy of a `Writer` or a `CacheTable`.
* Several hosts with clocks of their own: stamps then have no common order, and the code
  does nothing about it.
* Parsing of class descriptions and filters (text), configuration and connection (I/O),
  the Java interface, the Arrow server, scripts and containers.

## Plan

1. Done: write path, abstract pipeline, timestamps, cache, dict, prefetch, token ranges,
   arrays, session, rows and streams.
2. Done: the theorems of the write path, of `Prefetch`, of the cache and the dict, of the
   session, of the token ranges and of the arrays, which state every safety invariant of those
   runs but `ArrayCut`, and the end of a stream.
3. Next modules: iterators of `HCache` over `Prefetch`; Python `StorageObj`.

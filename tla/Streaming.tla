----------------------------- MODULE Streaming -----------------------------
(***************************************************************************)
(* Processes that share a StorageDict, which may be a stream: its rows are *)
(* then sent to a Kafka topic, too, from which the consumers poll them.    *)
(* hdict.py, HCache.cpp, CacheTable.cpp and Writer.cpp; librdkafka and the *)
(* broker are external.  A row is what RowCodec makes of it on its way.    *)
(*                                                                         *)
(* The topic has one partition.  The consumers are members of one group,   *)
(* "hecuba", so that a message goes to one of them; which one is up to the *)
(* broker.  Writes to Cassandra are queued and arrive in order.            *)
(***************************************************************************)
EXTENDS RowCodec, FiniteSets

CONSTANTS
  Producers, Consumers,   \* the processes
  Tables,                 \* tables: keys, cols, stream, raw, the rows put in them, and
                          \* calls, a bound on the reads, writes and sends of all processes
  MaxFaults               \* bound on crashes and on messages the broker gets twice or late

\* Streams are made of the types that encode and decode handle.
ASSUME StreamAssumption ==
  /\ Producers \cap Consumers = {}
  /\ \A t \in Tables : t.stream => \A c \in Range(t.keys \o t.cols) : Streamable(c)
  /\ MaxFaults \in Nat

VARIABLES
  table,      \* the table of the dict
  cached,     \* whether the C++ cache is enabled (max_cache_size # 0)
  dict,       \* the StorageDict of each process
  pending,    \* the writes it has queued
  queue,      \* the messages its Kafka producer has not delivered
  stored,     \* the rows of Cassandra, each with the lists it was made of
  topic,      \* the messages of the topic, each with the event it was made of
  given,      \* how many of them the group was given ...
  committed,  \* ... and how many at least it will not be given again
  sent,       \* history: the rows and end marks sent, and by whom
  polled,     \* history: the rows polled, each with the one it was sent as
  expected,   \* history: what each process set last, per key, and nobody else did
  result,     \* the outcome of the last d[k], and what was expected
  calls, crashed, faults

vars == <<table, cached, dict, pending, queue, stored, topic, given, committed, sent,
          polled, expected, result, calls, crashed, faults>>

Procs == Producers \cup Consumers

Closed == [live |-> FALSE, producer |-> FALSE, consumer |-> FALSE, cache |-> <<>>, memory |-> {}]

\* What is sent: a row, or the end of the stream.
Event(by, k, v) == [by |-> by, n |-> Len(sent) + 1, k |-> k, v |-> v]
Nones(cols) == [i \in DOMAIN cols |-> None]
EndOf(by) == Event(by, Nones(table.keys), Nones(table.cols))

Init ==
  /\ table \in Tables
  /\ cached \in BOOLEAN
  /\ dict = [p \in Procs |-> Closed]
  /\ pending = [p \in Procs |-> <<>>]
  /\ queue = [p \in Procs |-> <<>>]
  /\ stored = {}
  /\ topic = <<>> /\ given = 0 /\ committed = 0
  /\ sent = <<>> /\ polled = <<>>
  /\ expected = [p \in Procs |-> {}]
  /\ result = <<>>
  /\ calls = 0 /\ crashed = {} /\ faults = 0

Call == calls < table.calls /\ calls' = calls + 1
MayFail == Cardinality(crashed) + faults < MaxFaults

-----------------------------------------------------------------------------
(* The cache and the row of a key.                                         *)

\* The rows of a raw table are made in C++, of values that are C already.
RowOf(cols, list) == make_tuple(cols, IF table.raw THEN list ELSE Elements(cols, list))
KeyRow(k) == RowOf(table.keys, k)
ValueRow(v) == RowOf(table.cols, v)

\* The entry of a key in the cache, 0 if there is none.
Lookup(cache, key) == SelectInSeq(cache, LAMBDA e : SameRow(table.keys, e.key, key))

\* The few keys of a program fit into its cache: evictions are in CacheTable.
AddToCache(cache, key, val) ==
  LET i == Lookup(cache, key)
  IN IF ~cached THEN cache
     ELSE IF i = 0 THEN Append(cache, [key |-> key, val |-> val])
     ELSE [cache EXCEPT ![i].val = val]

\* dict.__setitem__ of Python's own dict.
SetPair(pairs, k, v) == {e \in pairs : e[1] # k} \cup {<<k, v>>}

\* What a process may no longer expect once somebody wrote or sent the row of k, and
\* whether a write of it by another process is on its way.
Forget(pairs, k) == {e \in pairs : KeyRow(e[1]).data # KeyRow(k).data}
Contested(p, k) == \E q \in Procs \ {p} : \E i \in DOMAIN pending[q] :
                     KeyRow(pending[q][i].k).data = KeyRow(k).data

\* A key None is refused, and a value that a parser refuses.
Accepts(k, v) ==
  /\ \A i \in DOMAIN k : k[i] # None
  /\ Parses(table.keys, k)
  /\ Parses(table.cols, v)

-----------------------------------------------------------------------------
(* Producers.                                                              *)

\* Opening the dict prepares the stream; producer and consumer are made when needed.
open(p) ==
  /\ ~dict[p].live
  /\ dict' = [dict EXCEPT ![p] = [Closed EXCEPT !.live = TRUE]]
  /\ result' = <<>>
  /\ UNCHANGED <<table, cached, pending, queue, stored, topic, given, committed, sent,
                 polled, expected, calls, crashed, faults>>

\* Writer::send_event: keys, then values, each with its null flags.
Message(key, val, event) ==
  [bytes |-> encode(table.keys, key) \o encode(table.cols, val), event |-> event]

\* send_event hands the row to the producer and caches it; nothing is written.
SendEvent(d, k, v) ==
  [d EXCEPT !.producer = TRUE, !.cache = AddToCache(@, KeyRow(k), ValueRow(v))]

\* d.send(k, v).  What the process set before for k may be hidden by the cached event.
send(p, k, v) ==
  /\ dict[p].live /\ table.stream
  /\ Call
  /\ IF Accepts(k, v)
     THEN /\ dict' = [dict EXCEPT ![p] = SendEvent(@, k, v)]
          /\ queue' = [queue EXCEPT ![p] = Append(@, Message(KeyRow(k), ValueRow(v), Event(p, k, v)))]
          /\ sent' = Append(sent, Event(p, k, v))
          /\ expected' = [expected EXCEPT ![p] = Forget(@, k)]
     ELSE /\ dict' = [dict EXCEPT ![p].producer = TRUE]
          /\ UNCHANGED <<queue, sent, expected>>
  /\ result' = <<>>
  /\ UNCHANGED <<table, cached, pending, stored, topic, given, committed, polled, crashed, faults>>

\* The statement that writes a row, and the lists the row was made of.
Write(k, v) == [key |-> bind(table.keys, KeyRow(k)), val |-> bind(table.cols, ValueRow(v)),
                k |-> k, v |-> v]

\* d[k] = v: Python's memory if the C++ cache is disabled, the stream, and put_row.  A value
\* that is refused stays in Python's memory.
__setitem__(p, k, v) ==
  LET memory == IF cached THEN dict[p].memory ELSE SetPair(dict[p].memory, k, v)
      opened == [dict[p] EXCEPT !.memory = memory, !.producer = @ \/ table.stream]
  IN /\ dict[p].live /\ ~table.raw
     /\ Call
     /\ IF Accepts(k, v)
        THEN /\ dict' = [dict EXCEPT ![p] = [opened EXCEPT !.cache = AddToCache(@, KeyRow(k), ValueRow(v))]]
             /\ IF table.stream
                THEN /\ queue' = [queue EXCEPT ![p] = Append(@, Message(KeyRow(k), ValueRow(v), Event(p, k, v)))]
                     /\ sent' = Append(sent, Event(p, k, v))
                ELSE UNCHANGED <<queue, sent>>
             /\ pending' = [pending EXCEPT ![p] = Append(@, Write(k, v))]
             /\ expected' = [q \in Procs |-> Forget(expected[q], k) \cup
                               IF q = p /\ ~Contested(p, k) THEN {<<k, v>>} ELSE {}]
        ELSE /\ dict' = [dict EXCEPT ![p] = opened]
             /\ expected' = IF cached THEN expected ELSE [expected EXCEPT ![p] = Forget(@, k)]
             /\ UNCHANGED <<queue, sent, pending>>
     /\ result' = <<>>
     /\ UNCHANGED <<table, cached, stored, topic, given, committed, polled, crashed, faults>>

\* The description of an array in hecuba.istorage: a writer of its own, no cache.
registerNumpy(p, k, v) ==
  /\ dict[p].live /\ table.raw
  /\ Call
  /\ pending' = [pending EXCEPT ![p] = Append(@, Write(k, v))]
  /\ result' = <<>>
  /\ UNCHANGED <<table, cached, dict, queue, stored, topic, given, committed, sent, polled,
                 expected, crashed, faults>>

\* d.close_stream(): a row of nulls.  Without a producer the send raises.
close_stream(p) ==
  /\ dict[p].live /\ table.stream
  /\ Call
  /\ IF dict[p].producer
     THEN LET key == make_tuple(table.keys, [i \in DOMAIN table.keys |-> Null])
              val == make_tuple(table.cols, [i \in DOMAIN table.cols |-> Null])
          IN /\ queue' = [queue EXCEPT ![p] = Append(@, Message(key, val, EndOf(p)))]
             /\ sent' = Append(sent, EndOf(p))
     ELSE UNCHANGED <<queue, sent>>
  /\ result' = <<>>
  /\ UNCHANGED <<table, cached, dict, pending, stored, topic, given, committed, polled,
                 expected, crashed, faults>>

-----------------------------------------------------------------------------
(* The asynchronous part: Cassandra, librdkafka and the broker.            *)

\* The rows of Cassandra after a write; one with a refused cell is not applied.
Applied(rows, w) ==
  IF Contains(w.key \o w.val, Raise) THEN rows ELSE {r \in rows : r.key # w.key} \cup {w}

write_arrives(p) ==
  /\ pending[p] # <<>>
  /\ stored' = Applied(stored, Head(pending[p]))
  /\ pending' = [pending EXCEPT ![p] = Tail(@)]
  /\ result' = <<>>
  /\ UNCHANGED <<table, cached, dict, queue, topic, given, committed, sent, polled,
                 expected, calls, crashed, faults>>

\* The broker appends the message; if the answer is lost it will be given it again.
deliver(p) ==
  /\ queue[p] # <<>>
  /\ topic' = Append(topic, Head(queue[p]))
  /\ \/ /\ queue' = [queue EXCEPT ![p] = Tail(@)]
        /\ UNCHANGED faults
     \/ /\ MayFail
        /\ faults' = faults + 1
        /\ UNCHANGED queue
  /\ result' = <<>>
  /\ UNCHANGED <<table, cached, dict, pending, stored, given, committed, sent, polled,
                 expected, calls, crashed>>

\* A message that failed is tried again after the one behind it.
reorder(p) ==
  /\ Len(queue[p]) > 1
  /\ MayFail
  /\ faults' = faults + 1
  /\ queue' = [queue EXCEPT ![p] = <<@[2], @[1]>> \o SubSeq(@, 3, Len(@))]
  /\ result' = <<>>
  /\ UNCHANGED <<table, cached, dict, pending, stored, topic, given, committed, sent,
                 polled, expected, calls, crashed>>

-----------------------------------------------------------------------------
(* Consumers and readers.                                                  *)

\* CacheTable::poll: the row of a message, made of its key and its values.
Row(k, v) ==
  [data |-> k.data \o v.data,
   nulls |-> k.nulls \cup {i + Len(table.keys) : i \in v.nulls},
   words |-> NullWords(items(table))]

KeyOf(bytes) == decode(table.keys, bytes)
\* A plausible bug: the null flags of the key are not skipped.
ValueOf_noflags(bytes) ==
  LET skip == get_content_size(table.keys, KeyOf(bytes))
  IN decode(table.cols, SubSeq(bytes, skip + 1, Len(bytes)))

ValueOf(bytes) ==
  LET k == KeyOf(bytes)
      skip == get_content_size(table.keys, k) + NullBytes(table.keys)
  IN decode(table.cols, SubSeq(bytes, skip + 1, Len(bytes)))

\* d.poll(), which waits for a message.  The row is cached unless its key is null; without
\* the C++ cache it is put in Python's dict, which refuses a key that is a list.
poll(c) ==
  /\ dict[c].live /\ table.stream
  /\ given < Len(topic)
  /\ LET message == topic[given + 1]
         key == KeyOf(message.bytes)
         val == ValueOf(message.bytes)
         list == make_pylist(items(table), Row(key, val))
         isEnd == Len(table.keys) = 1 /\ list[1] = None
     IN /\ dict' = [dict EXCEPT ![c].consumer = TRUE,
                                ![c].cache = IF key.nulls = DOMAIN table.keys THEN @
                                             ELSE AddToCache(@, key, val)]
        /\ polled' = Append(polled, [row |-> list, of |-> message.event, raised |-> ~cached /\ ~isEnd])
  /\ given' = given + 1
  /\ result' = <<>>
  /\ UNCHANGED <<table, cached, pending, queue, stored, topic, committed, sent, expected,
                 calls, crashed, faults>>

\* The row made of the cells of a result.
Fetched(cols, cells) == make_tuple(cols, [j \in DOMAIN cells |-> cass_to_c(cols[j], cells[j])])

\* A plausible bug: the query does not wait for the writes of its own process.
Flushed_not(p) == stored

\* The rows of Cassandra once the process has flushed its writes.
Flushed(p) == FoldLeft(Applied, stored, pending[p])

\* d[k]: Python's memory, the C++ cache, or a query after a flush; what was found is cached.
__getitem__(p, k) ==
  LET inMemory == {e \in dict[p].memory : e[1] = k}
      i == Lookup(dict[p].cache, KeyRow(k))
      rows == {r \in Flushed(p) : r.key = bind(table.keys, KeyRow(k))}
      wanted == {e[2] : e \in {x \in expected[p] : x[1] = k}}
      Outcome(v) == [k |-> k, v |-> v, wanted |-> wanted]
      Found(row) == Outcome(make_pylist(table.cols, row))
  IN /\ dict[p].live /\ ~table.raw
     /\ Call
     /\ Parses(table.keys, k)
     /\ CASE inMemory # {} ->
               /\ result' = Outcome((CHOOSE e \in inMemory : TRUE)[2])
               /\ UNCHANGED <<dict, stored, pending>>
          [] inMemory = {} /\ i # 0 ->
               /\ result' = Found(dict[p].cache[i].val)
               /\ UNCHANGED <<dict, stored, pending>>
          [] OTHER ->
               /\ stored' = Flushed(p)
               /\ pending' = [pending EXCEPT ![p] = <<>>]
               /\ IF rows = {} THEN result' = Outcome(<<>>) /\ UNCHANGED dict
                  ELSE LET row == Fetched(table.cols, (CHOOSE r \in rows : TRUE).val)
                       IN /\ result' = Found(row)
                          /\ dict' = [dict EXCEPT ![p].cache = AddToCache(@, KeyRow(k), row)]
     /\ UNCHANGED <<table, cached, queue, topic, given, committed, sent, polled, expected,
                    crashed, faults>>

-----------------------------------------------------------------------------
(* Processes end.                                                          *)

\* A plausible bug: the producer is destroyed with messages in its queue.
Drained_not(p) == pending[p] = <<>>

\* ~Writer waits for its writes and flushes the producer until it has no message left.
Drained(p) == pending[p] = <<>> /\ queue[p] = <<>>

\* Destroying a consumer closes it, which commits what it was given.
Committed(p) == IF dict[p].consumer THEN given ELSE committed

\* The dict is destroyed.
dealloc(p) ==
  /\ dict[p].live
  /\ Drained(p)
  /\ dict' = [dict EXCEPT ![p] = Closed]
  /\ queue' = [queue EXCEPT ![p] = <<>>]
  /\ expected' = [expected EXCEPT ![p] = {}]
  /\ committed' = Committed(p)
  /\ result' = <<>>
  /\ UNCHANGED <<table, cached, pending, stored, topic, given, sent, polled, calls,
                 crashed, faults>>

\* A process is killed.  What its consumer had polled and librdkafka (enable.auto.commit, in
\* the background) had not committed is given to the group again.
crash(p) ==
  /\ dict[p].live
  /\ MayFail
  /\ crashed' = crashed \cup {p}
  /\ dict' = [dict EXCEPT ![p] = Closed]
  /\ pending' = [pending EXCEPT ![p] = <<>>]
  /\ queue' = [queue EXCEPT ![p] = <<>>]
  /\ expected' = [expected EXCEPT ![p] = {}]
  /\ IF dict[p].consumer
     THEN committed' \in committed .. given /\ given' = committed'
     ELSE UNCHANGED <<committed, given>>
  /\ result' = <<>>
  /\ UNCHANGED <<table, cached, stored, topic, sent, polled, calls, faults>>

\* Any process writes a table that is no stream.
Writers == IF table.stream THEN Producers ELSE Procs

Next ==
  \/ \E p \in Writers : \E r \in table.rows :
       \/ __setitem__(p, r[1], r[2]) \/ send(p, r[1], r[2]) \/ registerNumpy(p, r[1], r[2])
       \/ __getitem__(p, r[1])
  \/ \E p \in Procs : write_arrives(p) \/ open(p) \/ dealloc(p) \/ crash(p)
  \/ \E p \in Producers : close_stream(p) \/ deliver(p) \/ reorder(p)
  \/ \E c \in Consumers : poll(c)

Spec == Init /\ [][Next]_vars

-----------------------------------------------------------------------------
(* Properties.                                                             *)

\* Every variable has its type, and the group's offsets stay within the topic and in order:
\* destroying a consumer commits no message that was not polled.
StreamTypeOK ==
  /\ table \in Tables /\ cached \in BOOLEAN
  /\ DOMAIN dict = Procs /\ DOMAIN pending = Procs /\ DOMAIN queue = Procs
  /\ \A p \in Procs : ~dict[p].live => dict[p] = Closed /\ queue[p] = <<>>
  /\ committed <= given /\ given <= Len(topic)
  /\ \A i \in DOMAIN topic : topic[i].event \in Range(sent)
  /\ crashed \subseteq Procs
  /\ calls \in 0 .. table.calls /\ faults \in 0 .. MaxFaults

\* The values that the types of Cassandra and the conversions can represent: integers within
\* the column's width, text without NUL, single precision in a float, whole seconds, no blob,
\* in a tuple neither boolean nor double, and dates when the offset of local time is that of 1970.
ExactScalar(type, v) ==
  CASE v = None -> TRUE
    [] type \in DOMAIN Bits -> v[1] = "int" /\ Fits(v[2], type)
    [] type = "float" -> v[1] = "float" /\ v[2] % Unit = 0
    [] type = "double" -> v[1] = "float"
    [] type = "text" -> v[1] = "str" /\ ~Contains(v[2], NUL)
    [] type = "timestamp" -> v[1] = "datetime" /\ v[3] = 0 /\ ZoneNow = ZoneEpoch
    [] type = "date" -> ZoneNow = ZoneEpoch
    [] OTHER -> type # "blob"

Exact(cols, list) ==
  \A i \in DOMAIN cols :
    IF cols[i].type = "tuple"
    THEN \A j \in DOMAIN cols[i].pointer :
           LET type == cols[i].pointer[j].type
           IN type \notin {"boolean", "double"} /\ ExactScalar(type, list[i][2][j])
    ELSE table.raw \/ ExactScalar(cols[i].type, list[i])

\* What is stored is what was set: reading the cells of a row of Cassandra gives back the
\* Python values (or, for the description of an array, the C ones) it was written from.
StoredExact ==
  \A r \in stored :
    LET Same(cols, cells, list) ==
          Exact(cols, list) =>
            list = LET row == Fetched(cols, cells)
                   IN IF table.raw THEN [i \in DOMAIN cols |-> get_element(cols, row, i)]
                      ELSE make_pylist(cols, row)
    IN Same(table.keys, r.key, r.k) /\ Same(table.cols, r.val, r.v)

\* The null flags of a message reach the consumer, and no value is read from the place of
\* another, when the nulls are the last columns and start among the first eight.
NullsLast(list) ==
  \/ ~Contains(list, None)
  \/ \E m \in 1 .. 8 : \A i \in DOMAIN list : list[i] = None <=> i >= m

\* A polled row is the row that was sent, key and values, and the end mark is the end mark,
\* whatever the broker duplicates or reorders and whoever crashes.
PolledExact ==
  \A i \in DOMAIN polled :
    LET e == polled[i].of
    IN /\ Exact(table.keys, e.k) /\ Exact(table.cols, e.v)
       /\ NullsLast(e.k) /\ NullsLast(e.v)
       => polled[i].row = e.k \o e.v

\* Without faults of the broker, when the consumers are told that a producer closed its
\* stream they were given everything it had sent before, in this and in earlier dicts, even
\* if consumers crashed in between: ~Writer flushes, and offsets are committed after polls.
EndAfterAll ==
  \A i \in DOMAIN polled :
    LET e == polled[i].of
    IN /\ faults = 0 /\ e.by \notin crashed
       /\ e.k = Nones(table.keys)
       => \A m \in 1 .. (e.n - 1) :
            sent[m].by = e.by => \E j \in 1 .. (i - 1) : polled[j].of.n = m

\* A process reads what it set last: from Python's memory, the cache or Cassandra, unless it
\* sent an event for the key since, had a value refused or another process wrote it.
ReadYourSets ==
  result # <<>> /\ Exact(table.keys, result.k) =>
    \A v \in result.wanted : Exact(table.cols, v) => result.v = v
=============================================================================

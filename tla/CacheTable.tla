----------------------------- MODULE CacheTable -----------------------------
(***************************************************************************)
(* CacheTable (hecuba_core) as one client thread uses it: the LRU KVCache, *)
(* the Writer with its optional dirty blocks (lazy writes), reads that     *)
(* flush the Writer first, and synchronous deletes that race with the      *)
(* asynchronous writes.                                                    *)
(*                                                                         *)
(* The asynchronous path is reduced to what WriterThread shows of it:      *)
(* requests leave the queue in order, are applied by Cassandra in any      *)
(* order, and the highest write time wins.  A row has one value column; a  *)
(* value is named by the number of the operation that wrote it, 0 is "no   *)
(* row".                                                                   *)
(***************************************************************************)
EXTENDS Integers, Sequences, FiniteSets

CONSTANTS
  Keys,          \* the keys of the table
  Configs,       \* the configurations a table may be built with
  DirtyLimits,   \* what Writer::max_calls may hold: it is never initialised
  MaxOps,        \* bound: operations that change the table
  MaxFails       \* bound: failed queries

\* cache_size, where 0 means no cache; timestamped_writes; whether the table is one
\* of numpy blocks, for which Writer::enable_lazy_write is called.
Config == [cache_size : Nat, timestamped : BOOLEAN, lazy_write : BOOLEAN]

ASSUME CacheTableAssumption ==
  /\ Configs \subseteq Config
  /\ DirtyLimits \subseteq Nat
  /\ MaxOps \in Nat
  /\ MaxFails \in Nat

VARIABLES
  config,        \* the configuration of this table
  cache,         \* KVCache: the entries, most recently used first
  dirty,         \* Writer::dirty_blocks: value to write per key, 0 if none
  lazy,          \* Writer::lazy_write_enabled
  max_calls,     \* Writer::max_calls
  queue,         \* requests not yet handed to the driver, in order
  sent,          \* requests in the driver's hands
  rows,          \* the table: value and write time of each row
  time,          \* the write times given out so far
  ops,           \* number of writes and deletes so far
  call,          \* the call the client thread is in
  got,           \* the outcome of the last get_crow, until the next write or delete
  expected,      \* history: the values a reader may find, per key
  fails          \* number of failed queries (bounds the environment)

CacheSize == config.cache_size
Timestamped == config.timestamped
LazyWrites == config.lazy_write

pipe == <<queue, sent, rows, time>>
writerVars == <<dirty, lazy, max_calls>>
vars == <<config, cache, dirty, lazy, max_calls, queue, sent, rows, time, ops, call,
          got, expected, fails>>

Entry == [key : Keys, val : Nat]
NoCall == [pc |-> "none"]
NoResult == [key |-> "none"]
Calls == [pc : {"get", "delete"}, key : Keys] \cup [pc : {"flush", "none"}]

TypeOK ==
  /\ config \in Configs
  /\ cache \in Seq(Entry) /\ Len(cache) <= CacheSize
  /\ dirty \in [Keys -> Nat]
  /\ lazy \in BOOLEAN
  /\ max_calls \in DirtyLimits
  /\ queue \in Seq([key : Keys, val : Nat, stamp : Nat])
  /\ sent \in SUBSET [key : Keys, val : Nat, stamp : Nat]
  /\ rows \in [Keys -> [val : Nat, stamp : Nat]]
  /\ time \in Nat
  /\ ops \in Nat
  /\ call \in Calls
  /\ got \in Entry \cup {NoResult}
  /\ expected \in [Keys -> SUBSET Nat]
  /\ fails \in Nat

Init ==
  /\ config \in Configs
  /\ cache = <<>>
  /\ dirty = [k \in Keys |-> 0]
  /\ lazy = LazyWrites
  /\ max_calls \in DirtyLimits
  /\ queue = <<>>
  /\ sent = {}
  /\ rows = [k \in Keys |-> [val |-> 0, stamp |-> 0]]
  /\ time = 0
  /\ ops = 0
  /\ call = NoCall
  /\ got = NoResult
  /\ expected = [k \in Keys |-> {0}]
  /\ fails = 0

-----------------------------------------------------------------------------
(* KVCache: the list ordered by access; the map is its index. *)

Cached(k) == \E i \in DOMAIN cache : cache[i].key = k

\* cache_items_map: where the entry of a cached key is in the list.
Place(k) == CHOOSE i \in DOMAIN cache : cache[i].key = k
CachedValue(k) == cache[Place(k)].val

\* KVCache::remove
Without(k) ==
  IF Cached(k)
  THEN SubSeq(cache, 1, Place(k) - 1) \o SubSeq(cache, Place(k) + 1, Len(cache))
  ELSE cache

\* A plausible bug: the size is compared before the insertion is counted.
Add_one_too_many(k, v) ==
  IF CacheSize = 0 THEN cache
  ELSE <<[key |-> k, val |-> v]>>
         \o (IF Cached(k) \/ Len(cache) <= CacheSize THEN Without(k)
            ELSE SubSeq(cache, 1, Len(cache) - 1))

\* KVCache::add: replaces and moves to the front, or inserts at the front after
\* dropping the last element of a full list.  cache_size 0 means no cache.
Add(k, v) ==
  IF CacheSize = 0 THEN cache
  ELSE <<[key |-> k, val |-> v]>>
         \o (IF Cached(k) \/ Len(cache) < CacheSize THEN Without(k)
            ELSE SubSeq(cache, 1, Len(cache) - 1))

-----------------------------------------------------------------------------
(* Writer *)

Request(k, v, s) == [key |-> k, val |-> v, stamp |-> s]

\* Writer::queue_async_query: the write time is taken here.
queue_async_query(k, v) ==
  /\ time' = time + 1
  /\ queue' = Append(queue, Request(k, v, time + 1))

\* The orders in which flush_dirty_blocks may visit the dirty blocks of d.
Orders(d) ==
  LET D == {k \in Keys : d[k] # 0}
  IN  {f \in [1..Cardinality(D) -> D] : \A k \in D : \E i \in 1..Cardinality(D) : f[i] = k}

Clean == [k \in Keys |-> 0]

\* Writer::flush_dirty_blocks: every block is queued, then the map is cleared.
flush_dirty_blocks(d) ==
  IF ~lazy THEN dirty' = d /\ UNCHANGED <<queue, time>>
  ELSE \E f \in Orders(d) :
         /\ time' = time + Len(f)
         /\ queue' = queue \o [i \in DOMAIN f |-> Request(f[i], d[f[i]], time + i)]
         /\ dirty' = Clean

\* Writer::write_to_cassandra: a lazy write replaces the block of its key, and
\* too many dirty blocks are flushed.
write_to_cassandra(k, v) ==
  IF lazy
  THEN LET d == [dirty EXCEPT ![k] = v]
       IN  IF Cardinality({j \in Keys : d[j] # 0}) > max_calls
           THEN flush_dirty_blocks(d)
           ELSE dirty' = d /\ UNCHANGED <<queue, time>>
  ELSE queue_async_query(k, v) /\ UNCHANGED dirty

\* Writer::is_write_completed
is_write_completed == queue = <<>> /\ sent = {} /\ dirty = Clean

-----------------------------------------------------------------------------
(* The client's calls. *)

idle == call = NoCall

\* put_crow: writes, then caches.
put_crow(k) ==
  /\ idle
  /\ ops < MaxOps
  /\ ops' = ops + 1
  /\ write_to_cassandra(k, ops + 1)
  /\ cache' = Add(k, ops + 1)
  /\ expected' = [expected EXCEPT ![k] = {ops + 1}]
  /\ got' = NoResult
  /\ UNCHANGED <<lazy, max_calls, sent, rows, call, fails>>

\* Writer::write_to_cassandra of a single column (a StorageObject's attribute,
\* which is neither cached nor read through the cache): lazy writes are flushed
\* and disabled for good.
write_column(k) ==
  /\ idle
  /\ CacheSize = 0
  /\ ops < MaxOps
  /\ ops' = ops + 1
  /\ \E f \in Orders(dirty) :
       /\ time' = time + Len(f) + 1
       /\ queue' = queue \o ([i \in DOMAIN f |-> Request(f[i], dirty[f[i]], time + i)]
                         \o <<Request(k, ops + 1, time + Len(f) + 1)>>)
  /\ dirty' = Clean
  /\ lazy' = FALSE
  /\ expected' = [expected EXCEPT ![k] = {ops + 1}]
  /\ got' = NoResult
  /\ UNCHANGED <<cache, max_calls, sent, rows, call, fails>>

\* get_crow, found in the cache.
get_crow_hit(k) ==
  /\ idle
  /\ Cached(k)
  /\ got' = [key |-> k, val |-> CachedValue(k)]
  /\ cache' = <<[key |-> k, val |-> CachedValue(k)]>> \o Without(k)
  /\ UNCHANGED <<writerVars, pipe, ops, call, expected, fails>>

\* get_crow, not cached: retrieve_from_cassandra flushes the Writer first.
get_crow_miss(k) ==
  /\ idle
  /\ ~Cached(k)
  /\ flush_dirty_blocks(dirty)
  /\ call' = [pc |-> "get", key |-> k]
  /\ UNCHANGED <<cache, lazy, max_calls, sent, rows, ops, got, expected, fails>>

\* A plausible bug: the read does not wait for the pending writes.
retrieve_without_flush ==
  /\ call.pc = "get"
  /\ LET k == call.key IN
       /\ got' = [key |-> k, val |-> rows[k].val]
       /\ cache' = IF rows[k].val = 0 THEN cache ELSE Add(k, rows[k].val)
  /\ call' = NoCall
  /\ UNCHANGED <<writerVars, pipe, ops, expected, fails>>

\* retrieve_from_cassandra returns; a row that was found is cached.
retrieve_from_cassandra ==
  /\ call.pc = "get"
  /\ is_write_completed
  /\ LET k == call.key IN
       /\ got' = [key |-> k, val |-> rows[k].val]
       /\ cache' = IF rows[k].val = 0 THEN cache ELSE Add(k, rows[k].val)
  /\ call' = NoCall
  /\ UNCHANGED <<writerVars, pipe, ops, expected, fails>>

\* The SELECT fails: an exception, nothing is cached.
retrieve_fails ==
  /\ call.pc = "get"
  /\ is_write_completed
  /\ fails < MaxFails
  /\ fails' = fails + 1
  /\ call' = NoCall
  /\ UNCHANGED <<cache, writerVars, pipe, ops, got, expected>>

\* delete_crow: without timestamps the Writer is flushed first, else the delete
\* takes its write time now.  No numpy row is ever deleted (LazyWrites).
delete_crow(k) ==
  /\ idle
  /\ ~LazyWrites
  /\ ops < MaxOps
  /\ ops' = ops + 1
  /\ call' = [pc |-> "delete", key |-> k]
  /\ time' = IF Timestamped THEN time + 1 ELSE time
  /\ got' = NoResult
  /\ UNCHANGED <<cache, writerVars, queue, sent, rows, expected, fails>>

\* The write time of the delete: the client's, or the driver's when it is sent.
DeleteTime == IF Timestamped THEN time ELSE time + 1

\* A plausible bug: the cached entry survives the delete.
delete_keeps_cache ==
  /\ call.pc = "delete"
  /\ Timestamped \/ is_write_completed
  /\ time' = DeleteTime
  /\ rows' = [rows EXCEPT ![call.key] = IF DeleteTime >= @.stamp
                                        THEN [val |-> 0, stamp |-> DeleteTime] ELSE @]
  /\ expected' = [expected EXCEPT ![call.key] = {0}]
  /\ call' = NoCall
  /\ UNCHANGED <<cache, writerVars, queue, sent, ops, got, fails>>

\* A plausible bug: without timestamps the delete does not wait for the writes.
delete_without_flush ==
  /\ call.pc = "delete"
  /\ time' = DeleteTime
  /\ rows' = [rows EXCEPT ![call.key] = IF DeleteTime >= @.stamp
                                        THEN [val |-> 0, stamp |-> DeleteTime] ELSE @]
  /\ cache' = Without(call.key)
  /\ expected' = [expected EXCEPT ![call.key] = {0}]
  /\ call' = NoCall
  /\ UNCHANGED <<writerVars, queue, sent, ops, got, fails>>

\* The DELETE succeeds: the row goes unless a newer write is there already, and
\* the cached entry is removed.
delete_ok ==
  /\ call.pc = "delete"
  /\ Timestamped \/ is_write_completed
  /\ time' = DeleteTime
  /\ rows' = [rows EXCEPT ![call.key] = IF DeleteTime >= @.stamp
                                        THEN [val |-> 0, stamp |-> DeleteTime] ELSE @]
  /\ cache' = Without(call.key)
  /\ expected' = [expected EXCEPT ![call.key] = {0}]
  /\ call' = NoCall
  /\ UNCHANGED <<writerVars, queue, sent, ops, got, fails>>

\* The DELETE fails: an exception; it may have been applied all the same, and the
\* cache keeps its entry.
delete_fails ==
  /\ call.pc = "delete"
  /\ Timestamped \/ is_write_completed
  /\ fails < MaxFails
  /\ fails' = fails + 1
  /\ time' = DeleteTime
  /\ \/ UNCHANGED rows
     \/ rows' = [rows EXCEPT ![call.key] = IF DeleteTime >= @.stamp
                                           THEN [val |-> 0, stamp |-> DeleteTime] ELSE @]
  /\ expected' = [expected EXCEPT ![call.key] = @ \cup {0}]
  /\ call' = NoCall
  /\ UNCHANGED <<cache, writerVars, queue, sent, ops, got>>

\* flush_elements / wait_elements
flush_elements ==
  /\ idle
  /\ call' = [pc |-> "flush"]
  /\ flush_dirty_blocks(dirty)
  /\ UNCHANGED <<cache, lazy, max_calls, sent, rows, ops, got, expected, fails>>

flushed ==
  /\ call.pc = "flush"
  /\ is_write_completed
  /\ call' = NoCall
  /\ UNCHANGED <<cache, writerVars, pipe, ops, got, expected, fails>>

-----------------------------------------------------------------------------
(* The asynchronous write path (see WriterThread). *)

\* The next request goes to the driver; without timestamps its write time is the
\* driver's, taken now.
execute ==
  /\ queue # <<>>
  /\ LET r == Head(queue) IN
       IF Timestamped
       THEN sent' = sent \cup {r} /\ UNCHANGED time
       ELSE sent' = sent \cup {[r EXCEPT !.stamp = time + 1]} /\ time' = time + 1
  /\ queue' = Tail(queue)
  /\ UNCHANGED <<cache, writerVars, rows, ops, call, got, expected, fails>>

\* Cassandra applies a request, in any order; the highest write time wins.
apply(r) ==
  /\ sent' = sent \ {r}
  /\ rows' = [rows EXCEPT ![r.key] = IF r.stamp > @.stamp
                                     THEN [val |-> r.val, stamp |-> r.stamp] ELSE @]
  /\ UNCHANGED <<cache, writerVars, queue, time, ops, call, got, expected, fails>>

Next ==
  /\ \/ \E k \in Keys : \/ put_crow(k) \/ write_column(k)
                        \/ get_crow_hit(k) \/ get_crow_miss(k)
                        \/ delete_crow(k)
     \/ retrieve_from_cassandra \/ retrieve_fails
     \/ delete_ok \/ delete_fails
     \/ flush_elements \/ flushed
     \/ execute
     \/ \E r \in sent : apply(r)
  /\ UNCHANGED config

Spec == Init /\ [][Next]_vars

-----------------------------------------------------------------------------
(* Properties. *)

\* "To avoid consistency problems we flush the elements pending to be written":
\* get_crow returns what the client last wrote to the key, or nothing if it was
\* deleted, whether it comes from the cache or from Cassandra.
ReadYourWrites ==
  got # NoResult => got.val \in expected[got.key]

\* The cache never holds a value older than the client's last write, so a hit
\* and a miss cannot disagree.
CacheCoherent ==
  \A i \in DOMAIN cache :
    call.pc # "delete" \/ cache[i].key # call.key
      => cache[i].val \in expected[cache[i].key]

\* Once nothing is dirty, queued or in flight, Cassandra holds what was last
\* written: the dirty blocks and the deletes end up in the order of the calls.
StoredWhenFlushed ==
  is_write_completed /\ call.pc # "delete"
    => \A k \in Keys : rows[k].val \in expected[k]
=============================================================================

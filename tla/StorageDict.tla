---------------------------- MODULE StorageDict ----------------------------
(***************************************************************************)
(* The persistent Python StorageDict (hecuba_py/hecuba/hdict.py) on top of *)
(* its CacheTable, reached through the Hcache binding.  When the C++ cache *)
(* is disabled (max_cache_size = 0) the dict keeps the values it wrote in  *)
(* its own memory and answers from there.  A table with lazy writes is not *)
(* a dict's but an array's, and is used without the dict.                  *)
(***************************************************************************)
EXTENDS CacheTable

VARIABLES
  mem,           \* the Python dict's own items: value per key, 0 if absent
  asked,         \* the key 'in' asks for while get_row runs
  answer         \* the outcome of the last 'in', until the next write or delete

dictVars == <<mem, asked, answer>>
allVars == <<vars, dictVars>>

NoKey == [key |-> "none"]
NoAnswer == [key |-> "none"]

DictTypeOK ==
  /\ TypeOK
  /\ mem \in [Keys -> Nat]
  /\ CacheSize > 0 => mem = [k \in Keys |-> 0]
  /\ asked \in Keys \cup {NoKey}
  /\ answer \in [key : Keys, found : BOOLEAN] \cup {NoAnswer}

\* A new dict: its own items are empty.  make_persistent of a dict that has items sets them
\* one by one, which is setitem.
DictInit ==
  /\ Init
  /\ mem = [k \in Keys |-> 0]
  /\ asked = NoKey
  /\ answer = NoAnswer

-----------------------------------------------------------------------------
\* d[k] = v
setitem(k) ==
  /\ put_crow(k)
  /\ mem' = IF CacheSize = 0 THEN [mem EXCEPT ![k] = ops'] ELSE mem
  /\ answer' = NoAnswer
  /\ UNCHANGED asked

\* d[k], answered from the Python memory.
getitem_memory(k) ==
  /\ idle
  /\ CacheSize = 0
  /\ mem[k] # 0
  /\ got' = [key |-> k, val |-> mem[k]]
  /\ UNCHANGED <<cache, writerVars, pipe, ops, call, expected, fails, dictVars>>

\* d[k], answered by get_row.
getitem(k) ==
  /\ CacheSize = 0 => mem[k] = 0
  /\ get_crow_hit(k) \/ get_crow_miss(k)
  /\ UNCHANGED dictVars

\* del d[k]: only the row is deleted.
delitem(k) ==
  /\ delete_crow(k)
  /\ answer' = NoAnswer
  /\ UNCHANGED <<mem, asked>>

\* k in d, answered by the C++ cache ...
contains_hit(k) ==
  /\ get_crow_hit(k)
  /\ answer' = [key |-> k, found |-> TRUE]
  /\ UNCHANGED <<mem, asked>>

\* ... or by a query.
contains_miss(k) ==
  /\ get_crow_miss(k)
  /\ asked' = k
  /\ UNCHANGED <<mem, answer>>

\* A plausible bug: get_row returns an empty list instead of raising KeyError.
get_row_returns_empty ==
  /\ retrieve_from_cassandra
  /\ asked' = NoKey
  /\ answer' = IF asked = NoKey THEN answer ELSE [key |-> asked, found |-> TRUE]
  /\ UNCHANGED mem

\* get_row raises KeyError when there is no row; 'in' turns it into False.
get_row_returns ==
  /\ retrieve_from_cassandra
  /\ asked' = NoKey
  /\ answer' = IF asked = NoKey THEN answer
               ELSE [key |-> asked, found |-> got'.val # 0]
  /\ UNCHANGED mem

\* get_row raises RuntimeError; 'in' turns every exception into False.
get_row_raises ==
  /\ retrieve_fails
  /\ asked' = NoKey
  /\ answer' = IF asked = NoKey THEN answer ELSE [key |-> asked, found |-> FALSE]
  /\ UNCHANGED mem

\* sync() flushes the Hcache.
sync == (flush_elements \/ flushed) /\ UNCHANGED dictVars

\* The end of del d[k], and the asynchronous write path.
delete_row == (delete_ok \/ delete_fails) /\ UNCHANGED dictVars
background == (execute \/ \E r \in sent : apply(r)) /\ UNCHANGED dictVars

\* A table with lazy writes holds the blocks of an array: ArrayDataStore uses it directly.
array_table == LazyWrites /\ Next /\ UNCHANGED dictVars

dict_table ==
  /\ ~LazyWrites
  /\ \/ \E k \in Keys : \/ setitem(k) \/ getitem_memory(k) \/ getitem(k)
                        \/ delitem(k) \/ contains_hit(k) \/ contains_miss(k)
     \/ get_row_returns \/ get_row_raises
     \/ sync \/ delete_row \/ background
  /\ UNCHANGED config

DictNext == array_table \/ dict_table

DictSpec == DictInit /\ [][DictNext]_allVars

-----------------------------------------------------------------------------
(* Properties. *)

\* "Method to delete a specific entry in the dict in the key position": d[k] returns the
\* value last set, and raises KeyError once it was deleted, whichever of the two caches is
\* in use.
GetItemFresh == ReadYourWrites

\* "To avoid consistency problems we flush the elements pending to be written": a read
\* returns the value last set, from the cache, from Cassandra or from lazily written
\* blocks, also after a delete and a failure; with the Python memory, as long as the key
\* was set after its last delete.
GetItemSound ==
  got # NoResult /\ (CacheSize > 0 \/ LazyWrites \/ expected[got.key] # {0})
    => got.val \in expected[got.key]

\* "boolean (true - exists, false - doesn't exist)": k in d is False only for a key that is
\* not there.
ContainsExact ==
  answer # NoAnswer /\ ~answer.found => 0 \in expected[answer.key]

\* k in d is True only for a key that is there, also when queries fail.
ContainsSound ==
  answer # NoAnswer /\ answer.found => expected[answer.key] # {0}
=============================================================================

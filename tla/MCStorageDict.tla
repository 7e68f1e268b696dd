--------------------------- MODULE MCStorageDict ---------------------------
(* Small configurations of StorageDict for TLC. *)
EXTENDS StorageDict

\* A dict with and without the C++ cache, and a table of numpy blocks with lazy writes,
\* each with and without timestamps.
DictConfigs ==
  {[cache_size |-> c, timestamped |-> t, lazy_write |-> l] :
     c \in {0, 1}, t \in BOOLEAN, l \in BOOLEAN} \ [cache_size : {1}, timestamped : BOOLEAN, lazy_write : {TRUE}]
=============================================================================

--------------------------- MODULE HecubaSession ---------------------------
(***************************************************************************)
(* The C++ data model: objects that are made persistent or found by alias, *)
(* the session that keeps their tables alive, and the destruction of both  *)
(* at exit (IStorage.cpp, HecubaSession.cpp, StorageObject.cpp,            *)
(* StorageDict.h, StorageNumpy.h, the static objects of ArrayDataStore and *)
(* WriterThread).  Several programs share one Cassandra; a program has one *)
(* thread.  An object is a C++ variable of a class of the user.            *)
(*                                                                         *)
(* A storage id is the uuid5 of a name, so it is represented by the name.  *)
(* A write is the row it goes to; the values and their order are the       *)
(* subject of CacheTable and WriterThread.                                 *)
(***************************************************************************)
EXTENDS Naturals, Sequences, FiniteSets, SequencesExt

CONSTANTS Programs,     \* what runs together: programs and their objects (see Init)
          Objs,         \* C++ variables
          Owner,        \* the program of each variable
          Kind,         \* "dict", "obj" or "numpy", for each class
          Columns,      \* the columns of a class: its keys, and the type of every column by name
          Names,        \* names that users give
          Blocks,       \* blocks of an array
          Configs,      \* settings of the environment variables
          MaxCalls,     \* bound: calls of the API
          MaxFails,     \* bound: queries that fail
          None          \* no name, no table, no class

Classes == DOMAIN Kind
Procs == {Owner[o] : o \in Objs}
SINGLE_TABLE == "HECUBA_StorageNumpy"
Tables == Names \cup Classes \cup {SINGLE_TABLE}

\* The queries a call makes, in the order of the code: what a program is at.
Steps == {"create", "access", "metadata", "data", "open", "read", "sync"}

\* The columns of every array.
ArrayColumns ==
  [keys  |-> {"storage_id", "cluster_id", "block_id"},
   types |-> [storage_id |-> "uuid", cluster_id |-> "int", block_id |-> "int", payload |-> "blob"]]

ASSUME SessionAssumption ==
  /\ IsFiniteSet(Objs) /\ Owner \in [Objs -> Procs]
  /\ \A c \in Classes : Kind[c] \in {"dict", "obj", "numpy"} /\ Columns[c] # None
  /\ \A c \in Classes : Kind[c] = "numpy" => Columns[c] = ArrayColumns
  /\ Programs \subseteq [Objs -> Classes]
  /\ Configs \subseteq [single_table : BOOLEAN, lazy : BOOLEAN, create_schema : BOOLEAN]
  /\ None \notin Tables \cup Classes \cup Steps \cup (Procs \X Nat)
  /\ MaxCalls \in Nat /\ MaxFails \in Nat

VARIABLES
  config,         \* hecuba_sn_single_table, has_lazy_writes, create_schema
  class,          \* class of each variable
  keyspace,       \* Cassandra: does the keyspace exist
  schema,         \* Cassandra: columns of each table
  istorage,       \* Cassandra: class_name of each storage id in hecuba.istorage
  stored,         \* Cassandra: rows that are written
  phase,          \* "running", "exit" or "ended", for each program
  statics,        \* static objects of each program, in the order of construction
  gone,           \* static objects that were destroyed
  alive_objects,  \* the tables and array stores in the session's lists (each is there once)
  caches,         \* the CacheTables that exist
  obj,            \* the IStorage part of each variable
  loaded,         \* what an array found by alias read from Cassandra
  call,           \* the call in progress of each program
  returned,       \* variables whose last make_persistent or getByAlias returned
  written,        \* writes of each program
  published,      \* arrays that their program made persistent and then synchronised
  calls, fails    \* counted against the bounds

cassandra == <<keyspace, schema, istorage, stored>>
process == <<phase, statics, gone, alive_objects, caches, obj, loaded>>
ghosts == <<returned, written, published>>
vars == <<config, class, cassandra, process, call, ghosts, calls, fails>>

Volatile == [persistent |-> FALSE, sid |-> None, table |-> None, access |-> None]
Idle == [at |-> None]
Unread == [promised |-> FALSE, blocks |-> Blocks]

kind(o) == Kind[class[o]]

\* An array store of the single table uses the one static CacheTable of its program.
\* Accesses are numbered per program; number 0 is the static CacheTable.
StaticCache(p) == <<p, 0>>
WriteCache(a) == caches[a].cache
Accesses(p) == {a \in DOMAIN caches : a[1] = p}

\* Writes that a CacheTable has not seen acknowledged.
Pending(c) == caches[c].dirty \cup caches[c].flight
is_write_completed_queued(c) == caches[c].dirty = {}             \* plausible bug: queued is completed
is_write_completed(c) == Pending(c) = {}

-----------------------------------------------------------------------------
\* Of the environment: CREATE_SCHEMA, HECUBA_SN_SINGLE_TABLE and HECUBA_LAZY_WRITES.
parse_environment == config \in Configs
has_lazy_writes(o) == config.lazy /\ kind(o) = "numpy"

\* Run by the constructor of the session if CREATE_SCHEMA asks for it.
createSchema ==
  /\ keyspace = config.create_schema
  /\ schema = [t \in Tables |->
                 IF config.create_schema /\ config.single_table /\ t = SINGLE_TABLE
                 THEN ArrayColumns ELSE None]

Init ==
  /\ parse_environment
  /\ class \in Programs
  /\ createSchema
  /\ istorage = [n \in Names |-> None]
  /\ stored = {}
  /\ phase = [p \in Procs |-> "running"]
  /\ statics = [p \in Procs |-> <<"session">>]
  /\ gone = [p \in Procs |-> {}]
  /\ alive_objects = [p \in Procs |-> {}]
  /\ caches = << >>
  /\ obj = [o \in Objs |-> Volatile]
  /\ loaded = [o \in Objs |-> Unread]
  /\ call = [p \in Procs |-> Idle]
  /\ returned = {}
  /\ written = [p \in Procs |-> {}]
  /\ published = {}
  /\ calls = 0 /\ fails = 0

\* The table of an object: the name, the class or the table that all arrays share.
assignTableName(c, n) ==
  CASE Kind[c] = "dict"  -> n
    [] Kind[c] = "obj"   -> c
    [] Kind[c] = "numpy" -> IF config.single_table THEN SINGLE_TABLE ELSE n

\* A program calls one method at a time.
Starts(p) == phase[p] = "running" /\ call[p] = Idle /\ calls < MaxCalls /\ calls' = calls + 1

\* The call in progress of o's program is a call on o that has reached a step.
At(o, step) == call[Owner[o]].at = step /\ call[Owner[o]].obj = o
Goes(o, step) == call' = [call EXCEPT ![Owner[o]].at = step]
Returns(o) == call' = [call EXCEPT ![Owner[o]] = Idle]

\* An exception leaves the call; what it had changed stays changed.
Throws(o) == /\ Returns(o)
             /\ UNCHANGED <<cassandra, process, ghosts>>

-----------------------------------------------------------------------------
(* make_persistent: one step per query.                                    *)

init_persistent_attributes(o, n) ==
  obj' = [obj EXCEPT ![o].persistent = TRUE, ![o].sid = n, ![o].table = assignTableName(class[o], n)]

make_persistent(o, n) ==
  /\ Starts(Owner[o])
  /\ init_persistent_attributes(o, n)
  /\ call' = [call EXCEPT ![Owner[o]] = [at |-> "create", obj |-> o]]
  /\ returned' = returned \ {o}
  /\ UNCHANGED <<config, class, cassandra, phase, statics, gone, alive_objects, caches, loaded,
                 written, published, fails>>

\* CREATE TABLE: done, or the table exists already, or there is no keyspace.
create_table(o) ==
  /\ At(o, "create") /\ keyspace
  /\ schema' = [schema EXCEPT ![obj[o].table] = IF @ = None THEN Columns[class[o]] ELSE @]
  /\ Goes(o, "access")
  /\ UNCHANGED <<config, class, keyspace, istorage, stored, process, ghosts, calls, fails>>

create_keyspace(o) ==
  /\ At(o, "create") /\ ~keyspace
  /\ keyspace' = TRUE
  /\ UNCHANGED <<config, class, schema, istorage, stored, process, call, ghosts, calls, fails>>

\* Any query of a call may fail, but for those that a Writer repeats: the data of an array
\* and its row in hecuba.istorage.
query_fails(o) ==
  /\ \/ \E s \in {"create", "access", "open", "read"} : At(o, s)
     \/ At(o, "metadata") /\ kind(o) # "numpy"
  /\ fails < MaxFails /\ fails' = fails + 1
  /\ Throws(o)
  /\ UNCHANGED <<config, class, calls>>

\* setCache in front of registerObject in front of deallocateObjects: the variable lets go
\* of its former table, the new one enters the list, and every table leaves it that only
\* the list refers to and that has no pending write.
Users(a, objs) == {o \in Objs : objs[o].access = a}
use_count(a, objs) == Cardinality(Users(a, objs)) + 1
deallocateObjects_early(list, objs, tabs) ==                     \* plausible bug: pending writes ignored
  {a \in list : use_count(a, objs) > 1}
deallocateObjects(list, objs, tabs) ==
  {a \in list : ~(/\ use_count(a, objs) = 1
                  /\ LET w == tabs[tabs[a].cache]
                     IN w.dirty = {} /\ w.flight = {})}

Fresh(p) == <<p, 1 + Cardinality(Accesses(p) \ {StaticCache(p)})>>

Registered(o, objs, newCaches) ==
  LET list == alive_objects[Owner[o]] \cup {Fresh(Owner[o])}
  IN [alive_objects EXCEPT ![Owner[o]] = deallocateObjects(list, objs, newCaches)]

registerObject_keep(o, newCaches) ==                             \* plausible bug: setCache keeps a table
  LET objs == [obj EXCEPT ![o].access = IF @ = None THEN Fresh(Owner[o]) ELSE @]
  IN obj' = objs /\ alive_objects' = Registered(o, objs, newCaches) /\ caches' = newCaches
registerObject(o, newCaches) ==
  LET objs == [obj EXCEPT ![o].access = Fresh(Owner[o])]
  IN obj' = objs /\ alive_objects' = Registered(o, objs, newCaches) /\ caches' = newCaches

\* The statements of an object can be prepared: its columns are looked up by name, and Cassandra
\* accepts no other keys.  The types are taken from the table and further columns are ignored.
HasColumns(table, columns) ==
  /\ table # None
  /\ table.keys = columns.keys
  /\ DOMAIN columns.types \subseteq DOMAIN table.types
TableMatches_any(o) == schema[obj[o].table] # None               \* plausible bug: any table will do
TableMatches(o) == HasColumns(schema[obj[o].table], Columns[class[o]])

\* The access of an object, and the CacheTable it writes with: its own, or for the arrays of
\* the single table the static one, which is made when the first array needs it.
with(f, a, t) == [x \in DOMAIN f \cup {a} |-> IF x = a THEN t ELSE f[x]]
Table(o, c) == [cache |-> c, table |-> obj[o].table, dirty |-> {}, flight |-> {},
                lazy |-> has_lazy_writes(o)]
NeedsStatic(o) == kind(o) = "numpy" /\ config.single_table /\ StaticCache(Owner[o]) \notin DOMAIN caches
getStaticcache(o) ==
  IF NeedsStatic(o) THEN with(caches, StaticCache(Owner[o]), Table(o, StaticCache(Owner[o]))) ELSE caches
make_cache(o) == with(caches, Fresh(Owner[o]), Table(o, Fresh(Owner[o])))
ArrayDataStore(o) ==
  IF config.single_table THEN with(getStaticcache(o), Fresh(Owner[o]), Table(o, StaticCache(Owner[o])))
  ELSE make_cache(o)

\* Fails if the table lacks a column.
initialize_dataAcces(o) ==
  LET p == Owner[o]
  IN /\ At(o, "access") \/ At(o, "open")
     /\ TableMatches(o)
     /\ registerObject(o, IF kind(o) = "numpy" THEN ArrayDataStore(o) ELSE make_cache(o))
     /\ statics' = IF NeedsStatic(o) THEN [statics EXCEPT ![p] = Append(@, "staticCache")] ELSE statics
     /\ IF At(o, "access") THEN Goes(o, "metadata") /\ UNCHANGED returned
        ELSE IF kind(o) = "numpy" THEN Goes(o, "read") /\ UNCHANGED returned
        ELSE Returns(o) /\ returned' = returned \cup {o}
     /\ UNCHANGED <<config, class, cassandra, phase, gone, loaded, written, published, calls, fails>>

access_fails(o) ==
  /\ At(o, "access") \/ At(o, "open")
  /\ ~TableMatches(o)
  /\ Throws(o)
  /\ UNCHANGED <<config, class, calls, fails>>

\* The first write of a program makes its WriterThread.
StaticsOfWriter(p) ==
  statics' = IF "WriterThread" \in Range(statics[p]) THEN statics
             ELSE [statics EXCEPT ![p] = Append(@, "WriterThread")]

\* The row of hecuba.istorage, synchronously; an array writes it with a Writer and waits.
registerNumpy(o) ==
  /\ StaticsOfWriter(Owner[o])
  /\ istorage' = [istorage EXCEPT ![obj[o].sid] = class[o]]

persist_metadata(o) ==
  /\ At(o, "metadata")
  /\ IF kind(o) = "numpy" THEN registerNumpy(o)
     ELSE istorage' = [istorage EXCEPT ![obj[o].sid] = class[o]] /\ UNCHANGED statics
  /\ Goes(o, "data")
  /\ UNCHANGED <<config, class, keyspace, schema, stored, phase, gone, alive_objects, caches, obj,
                 loaded, ghosts, calls, fails>>

\* Writer::write_to_cassandra: a lazy writer keeps the rows, and queues all it has when
\* there are more than max_calls (never initialised: at any time); others queue them.
write_to_cassandra(o, rows) ==
  LET c == WriteCache(obj[o].access)
      new == {[cache |-> c, row |-> r, n |-> calls] : r \in rows}
  IN /\ \/ /\ caches[c].lazy
           /\ caches' = [caches EXCEPT ![c].dirty = @ \cup new]
        \/ caches' = [caches EXCEPT ![c].flight = @ \cup caches[c].dirty \cup new,
                                    ![c].dirty = {}]
     /\ written' = [written EXCEPT ![Owner[o]] = @ \cup new]
     /\ StaticsOfWriter(Owner[o])

\* Only an array has data to write: all its blocks, asynchronously.
persist_data(o) ==
  /\ At(o, "data")
  /\ IF kind(o) = "numpy"
     THEN write_to_cassandra(o, {<<obj[o].sid, b>> : b \in Blocks})
     ELSE UNCHANGED <<caches, written, statics>>
  /\ Returns(o)
  /\ returned' = returned \cup {o}
  /\ UNCHANGED <<config, class, cassandra, phase, gone, alive_objects, obj, loaded, published,
                 calls, fails>>

-----------------------------------------------------------------------------
(* getByAlias.                                                             *)

\* A dictionary and an array test the class that is registered, an object does not.
getMetaData(n) == istorage[n] # None
setPersistence(o, n) == kind(o) # "obj" => istorage[n] = class[o]

\* Throws if there is no such object, or if the lookup fails.
getByAlias(o, n) ==
  /\ Starts(Owner[o])
  /\ returned' = returned \ {o}
  /\ \/ /\ getMetaData(n) /\ setPersistence(o, n)
        /\ init_persistent_attributes(o, n)
        /\ call' = [call EXCEPT ![Owner[o]] = [at |-> "open", obj |-> o]]
        /\ loaded' = [loaded EXCEPT ![o] = [promised |-> n \in published, blocks |-> Blocks]]
        /\ UNCHANGED fails
     \/ /\ ~(getMetaData(n) /\ setPersistence(o, n))
        /\ UNCHANGED <<obj, call, loaded, fails>>
     \/ /\ fails < MaxFails /\ fails' = fails + 1
        /\ UNCHANGED <<obj, call, loaded>>
  /\ UNCHANGED <<config, class, cassandra, phase, statics, gone, alive_objects, caches,
                 written, published>>

\* The blocks are read once; the memory of those that are missing is not initialised,
\* and without any block the call throws.
read_numpy(o) ==
  /\ At(o, "read")
  /\ LET row(b) == \E w \in stored : caches[w.cache].table = obj[o].table /\ w.row = <<obj[o].sid, b>>
         found == {b \in Blocks : row(b)}
     IN /\ loaded' = [loaded EXCEPT ![o].blocks = found]
        /\ returned' = IF found = {} THEN returned ELSE returned \cup {o}
  /\ Returns(o)
  /\ UNCHANGED <<config, class, cassandra, phase, statics, gone, alive_objects, caches, obj,
                 written, published, calls, fails>>

-----------------------------------------------------------------------------
(* Use, copies and destruction of a variable.                              *)

\* d[k] = v and s.a = v: a row of the dictionary, or the row of the object in the table of its class.
Writes(o, row) ==
  /\ o \in returned
  /\ Starts(Owner[o])
  /\ write_to_cassandra(o, {row})
  /\ UNCHANGED <<config, class, cassandra, phase, gone, alive_objects, obj, loaded, call,
                 returned, published, fails>>
setItem(o) == kind(o) = "dict" /\ Writes(o, <<None, 0>>)
setAttr(o) == kind(o) = "obj" /\ Writes(o, <<obj[o].sid, 0>>)

\* Writer::flush_dirty_blocks in front of the wait for the callbacks.
flush_dirty_blocks(tabs, cs) ==
  [c \in DOMAIN tabs |->
     IF c \in cs THEN [tabs[c] EXCEPT !.flight = @ \cup tabs[c].dirty, !.dirty = {}] ELSE tabs[c]]

sync(o) ==
  /\ o \in returned
  /\ Starts(Owner[o])
  /\ caches' = flush_dirty_blocks(caches, {WriteCache(obj[o].access)})
  /\ call' = [call EXCEPT ![Owner[o]] = [at |-> "sync", obj |-> o]]
  /\ UNCHANGED <<config, class, cassandra, phase, statics, gone, alive_objects, obj, loaded,
                 ghosts, fails>>

sync_ends(o) ==
  /\ At(o, "sync")
  /\ is_write_completed(WriteCache(obj[o].access))
  /\ published' = published \cup
       {n \in {obj[o].sid} :
          kind(o) = "numpy" /\ \A b \in Blocks : \E w \in written[Owner[o]] :
            w.cache = WriteCache(obj[o].access) /\ w.row = <<n, b>>}
  /\ Returns(o)
  /\ UNCHANGED <<config, class, cassandra, process, returned, written, calls, fails>>

\* operator =: the copy shares the table.  An array copies its data but not its identity.
assign(o, src) ==
  /\ o # src /\ Owner[o] = Owner[src] /\ class[o] = class[src] /\ kind(o) # "numpy"
  /\ Starts(Owner[o])
  /\ obj' = [obj EXCEPT ![o] = obj[src]]
  /\ returned' = IF src \in returned THEN returned \cup {o} ELSE returned \ {o}
  /\ UNCHANGED <<config, class, cassandra, phase, statics, gone, alive_objects, caches, loaded,
                 call, written, published, fails>>

\* The destructor of a variable: its table stays in the session's list.
destroy(o) ==
  /\ obj[o] # Volatile
  /\ Starts(Owner[o])
  /\ obj' = [obj EXCEPT ![o] = Volatile]
  /\ loaded' = [loaded EXCEPT ![o] = Unread]
  /\ returned' = returned \ {o}
  /\ UNCHANGED <<config, class, cassandra, phase, statics, gone, alive_objects, caches, call,
                 written, published, fails>>

\* Cassandra acknowledges a write that was queued (external).
applied(c) ==
  /\ \E w \in caches[c].flight :
       /\ caches' = [caches EXCEPT ![c].flight = @ \ {w}]
       /\ stored' = stored \cup {w}
  /\ UNCHANGED <<config, class, keyspace, schema, istorage, phase, statics, gone,
                 alive_objects, obj, loaded, call, ghosts, calls, fails>>

-----------------------------------------------------------------------------
(* The end of a program: its variables, then its static objects in the     *)
(* reverse order of their construction.                                    *)

main_returns(p) ==
  /\ phase[p] = "running" /\ call[p] = Idle
  /\ phase' = [phase EXCEPT ![p] = "exit"]
  /\ obj' = [o \in Objs |-> IF Owner[o] = p THEN Volatile ELSE obj[o]]
  /\ loaded' = [o \in Objs |-> IF Owner[o] = p THEN Unread ELSE loaded[o]]
  /\ returned' = {o \in returned : Owner[o] # p}
  /\ UNCHANGED <<config, class, cassandra, statics, gone, alive_objects, caches, call,
                 written, published, calls, fails>>

\* What the destructor of a static object waits for: ~WriterThread for every queued write,
\* ~CacheTable for the writes of the table, ~HecubaSession for those of its list.
WaitsFor_nothing(p, s) == {}                                     \* plausible bug: no destructor waits
WaitsFor(p, s) ==
  CASE s = "WriterThread" -> Accesses(p)
    [] s = "staticCache"  -> {StaticCache(p)}
    [] s = "session"      -> {WriteCache(a) : a \in alive_objects[p]}

\* wait_writes_completion queues the dirty rows.  With a destroyed WriterThread this is
\* undefined: none is executed, and the wait for them ends without them or spins.
drop_dirty_blocks(tabs, cs) ==
  [c \in DOMAIN tabs |-> IF c \in cs THEN [tabs[c] EXCEPT !.dirty = {}] ELSE tabs[c]]
flush_at_exit(p, s) ==
  LET cs == {c \in WaitsFor(p, s) : caches[c].dirty # {}}
  IN /\ s # "WriterThread" /\ cs # {}
     /\ \/ "WriterThread" \notin gone[p] /\ caches' = flush_dirty_blocks(caches, cs)
        \/ "WriterThread" \in gone[p] /\ caches' = drop_dirty_blocks(caches, cs)
        \/ "WriterThread" \in gone[p] /\ UNCHANGED caches
     /\ UNCHANGED <<statics, gone, phase>>

destroyed(p, s) ==
  /\ \A c \in WaitsFor(p, s) : caches[c].flight = {} /\ (s # "WriterThread" => caches[c].dirty = {})
  /\ statics' = [statics EXCEPT ![p] = Front(@)]
  /\ gone' = [gone EXCEPT ![p] = @ \cup {s}]
  /\ phase' = IF s = "session" THEN [phase EXCEPT ![p] = "ended"] ELSE phase
  /\ UNCHANGED caches

exit(p) ==
  /\ phase[p] = "exit"
  /\ flush_at_exit(p, Last(statics[p])) \/ destroyed(p, Last(statics[p]))
  /\ UNCHANGED <<config, class, cassandra, alive_objects, obj, loaded, call, ghosts, calls, fails>>

Ended == (\A p \in Procs : phase[p] = "ended") /\ UNCHANGED vars

Next ==
  \/ \E o \in Objs, n \in Names : make_persistent(o, n) \/ getByAlias(o, n)
  \/ \E o \in Objs : \/ create_table(o) \/ create_keyspace(o) \/ query_fails(o)
                      \/ initialize_dataAcces(o) \/ access_fails(o)
                      \/ persist_metadata(o) \/ persist_data(o) \/ read_numpy(o)
                      \/ setItem(o) \/ setAttr(o) \/ sync(o) \/ sync_ends(o) \/ destroy(o)
  \/ \E o, src \in Objs : assign(o, src)
  \/ \E c \in DOMAIN caches : applied(c)
  \/ \E p \in Procs : main_returns(p) \/ exit(p)
  \/ Ended

Spec == Init /\ [][Next]_vars

-----------------------------------------------------------------------------
(* Properties.                                                             *)

\* Every variable has its type: a variable has a table of the schema and an access that
\* exists, and so have the session's list and the writer of every access.
Rows == [cache : Procs \X Nat, row : (Names \cup {None}) \X (Blocks \cup {0}), n : Nat]
Statics == {"session", "staticCache", "WriterThread"}
TypeOK ==
  /\ config \in Configs /\ class \in Programs /\ keyspace \in BOOLEAN
  /\ schema \in [Tables -> {Columns[c] : c \in Classes} \cup {None, ArrayColumns}]
  /\ istorage \in [Names -> Classes \cup {None}]
  /\ stored \subseteq Rows
  /\ phase \in [Procs -> {"running", "exit", "ended"}]
  /\ statics \in [Procs -> Seq(Statics)] /\ gone \in [Procs -> SUBSET Statics]
  /\ alive_objects \in [Procs -> SUBSET DOMAIN caches]
  /\ DOMAIN caches \subseteq Procs \X Nat
  /\ caches \in [DOMAIN caches -> [cache : DOMAIN caches, table : Tables, dirty : SUBSET Rows,
                                   flight : SUBSET Rows, lazy : BOOLEAN]]
  /\ obj \in [Objs -> [persistent : BOOLEAN, sid : Names \cup {None}, table : Tables \cup {None},
                       access : DOMAIN caches \cup {None}]]
  /\ loaded \in [Objs -> [promised : BOOLEAN, blocks : SUBSET Blocks]]
  /\ call \in [Procs -> {Idle} \cup [at : Steps, obj : Objs]]
  /\ returned \subseteq Objs /\ written \in [Procs -> SUBSET Rows] /\ published \subseteq Names
  /\ calls \in 0 .. MaxCalls /\ fails \in 0 .. MaxFails

\* What hecuba.istorage says of a name can be opened: the table is there and has every column
\* of the registered class, by name, also when programs of several classes race for the name,
\* or a call fails between its queries (the types may be others: SchemaMatches).
RegistrySound ==
  \A n \in Names : istorage[n] # None =>
    HasColumns(schema[assignTableName(istorage[n], n)], Columns[istorage[n]])

\* After make_persistent or getByAlias returned, the variable works on its own table, which
\* has its columns by name, and others find it under its name.
ReturnedPersistent ==
  \A o \in returned :
    /\ obj[o].access # None
    /\ caches[WriteCache(obj[o].access)].table = obj[o].table
    /\ TableMatches(o)
    /\ istorage[obj[o].sid] # None

\* "If the schema does not match, then the code of the user fails with an exception": a
\* variable whose make_persistent or getByAlias returned has a table with the types of its class.
SchemaMatches ==
  \A o \in returned : LET types == Columns[class[o]].types
                      IN \A x \in DOMAIN types : schema[obj[o].table].types[x] = types[x]

\* A table that is used, or that has writes in progress, is in the session's list: the
\* destructor of the session waits for it, and no callback finds its table destroyed.
AliveWhilePending ==
  \A p \in Procs : phase[p] = "running" =>
    \A a \in Accesses(p) \ {StaticCache(p)} :
      Users(a, obj) # {} \/ ~is_write_completed(a) => a \in alive_objects[p]

\* An array that its program made persistent and synchronised is read as a whole by
\* everyone who looks it up afterwards.
SyncedArrayIsWhole ==
  \A o \in Objs :
    loaded[o].promised /\ kind(o) = "numpy" /\ call[Owner[o]] = Idle => loaded[o].blocks = Blocks

\* When a program has ended, all its writes are in Cassandra, those of variables that
\* were destroyed, replaced or copied long before included (without lazy writes).
ExitStoresWrites ==
  ~config.lazy => \A p \in Procs : phase[p] = "ended" => written[p] \subseteq stored

\* "the cassandra access is delayed until the destruction of the object"
LazyWritesStored == \A p \in Procs : phase[p] = "ended" => written[p] \subseteq stored
=============================================================================

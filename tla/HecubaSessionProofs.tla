------------------------ MODULE HecubaSessionProofs ------------------------
(***************************************************************************)
(* Theorems about the C++ data model, for any programs, classes, names and *)
(* settings, any number of calls and any number of failing queries.        *)
(***************************************************************************)
EXTENDS HecubaSession, FiniteSetTheorems, SequenceTheorems, TLAPS

-----------------------------------------------------------------------------
(* The inductive invariant. *)

\* A variable that is persistent has the table of its class and name; a call is a call on a
\* persistent variable of the program.
Attrs(o) == obj[o].sid \in Names /\ obj[o].table = assignTableName(class[o], obj[o].sid)
CallOK(p) == call[p] # Idle =>
  /\ phase[p] = "running"
  /\ Owner[call[p].obj] = p /\ obj[call[p].obj].persistent
  /\ call[p].at \in {"data", "metadata", "read", "sync"} => obj[call[p].obj].access # None
  /\ call[p].at = "sync" => call[p].obj \in returned
  /\ call[p].at = "read" => kind(call[p].obj) = "numpy"
ObjOK(o) ==
  /\ obj[o].persistent => Attrs(o)
  /\ o \in returned => obj[o].persistent /\ obj[o].access # None
CallInv == (\A o \in Objs : ObjOK(o)) /\ (\A p \in Procs : CallOK(p))

\* An access belongs to the program of those who use it and writes with itself or with the
\* static table of its program, which is the single table.
UserOK(o) == obj[o].access # None => obj[o].access[1] = Owner[o] /\ obj[o].access[2] # 0
ListOK(p) == \A a \in alive_objects[p] : a[1] = p /\ a[2] # 0
TableOK(a) ==
  /\ a[2] = 0 => caches[a].cache = a /\ caches[a].table = SINGLE_TABLE
  /\ caches[a].cache # a =>
       caches[a].cache = StaticCache(a[1]) /\ caches[a].table = SINGLE_TABLE /\ Pending(a) = {}
  /\ ~config.lazy => caches[a].dirty = {} /\ ~caches[a].lazy
AccessInv ==
  /\ \A o \in Objs : UserOK(o)
  /\ \A p \in Procs : ListOK(p)
  /\ \A a \in DOMAIN caches : TableOK(a)

\* The accesses of a program are numbered from one.
Own(p) == Accesses(p) \ {StaticCache(p)}
NumberInv == \A p \in Procs : IsFiniteSet(Own(p)) /\ \A a \in Own(p) : a[2] <= Cardinality(Own(p))

\* From the check of the columns on a variable works on a table that has them by name, and from the
\* registration on it is found under its name.
Opened(o) == caches[obj[o].access].table = obj[o].table /\ TableMatches(o)
Found(o) == istorage[obj[o].sid] # None
OpenOK(o) ==
  /\ At(o, "metadata") \/ At(o, "data") \/ At(o, "read") \/ o \in returned => Opened(o)
  /\ At(o, "data") \/ At(o, "open") \/ At(o, "read") \/ o \in returned => Found(o)
OpenInv == \A o \in Objs : OpenOK(o)

\* No write is lost while its program runs, and without lazy writes never.
WriteInv ==
  \A p \in Procs : \A w \in written[p] :
    /\ w.cache \in DOMAIN caches /\ w.cache[1] = p
    /\ phase[p] = "running" => w \in stored \cup Pending(w.cache)
    /\ ~config.lazy => w \in stored \cup caches[w.cache].flight

\* All blocks of an array that was synchronised are stored in the table of the arrays.
ArrayTable(n) == IF config.single_table THEN SINGLE_TABLE ELSE n
StoredBlock(n, b) ==
  \E w \in stored :
    w.cache \in DOMAIN caches /\ caches[w.cache].table = ArrayTable(n) /\ w.row = <<n, b>>
LoadOK(o) ==
  loaded[o].promised =>
    /\ kind(o) = "numpy" => loaded[o].blocks = Blocks
    /\ At(o, "open") \/ At(o, "read") => obj[o].sid \in published
LoadInv ==
  /\ \A n \in published : \A b \in Blocks : StoredBlock(n, b)
  /\ \A o \in Objs : LoadOK(o)

\* The session is the first static object and the last to be destroyed; before it the thread
\* that writes, after everything it was given.
ExitOK(p) ==
  /\ phase[p] # "ended" => Len(statics[p]) > 0 /\ statics[p][1] = "session"
  /\ phase[p] = "ended" => Len(statics[p]) = 0
  /\ \A i \in DOMAIN statics[p] : statics[p][i] = "session" => i = 1
  /\ phase[p] = "running" => "WriterThread" \notin gone[p]
  /\ written[p] # {} => "WriterThread" \in Range(statics[p]) \cup gone[p]
  /\ "WriterThread" \in gone[p] => \A a \in Accesses(p) : caches[a].flight = {}
ExitInv == \A p \in Procs : ExitOK(p)

-----------------------------------------------------------------------------
(* Facts the steps keep using. *)

USE SessionAssumption

LEMMA TableNames ==
  ASSUME NEW c \in Classes, NEW n \in Names
  PROVE  assignTableName(c, n) \in Tables
  BY DEF assignTableName, Tables

LEMMA StepTypes ==
  ASSUME TypeOK, CallInv, NEW o \in Objs, NEW s \in Steps, At(o, s)
  PROVE  /\ Owner[o] \in Procs /\ call[Owner[o]] \in [at : Steps, obj : Objs]
         /\ call[Owner[o]] # Idle /\ call[Owner[o]].obj = o /\ call[Owner[o]].at = s
         /\ phase[Owner[o]] = "running" /\ obj[o].persistent /\ Attrs(o)
  <1>1. Owner[o] \in Procs /\ None \notin Steps
    OBVIOUS
  <1>2. call[Owner[o]] \in {Idle} \cup [at : Steps, obj : Objs]
    BY <1>1 DEF TypeOK
  <1>3. call[Owner[o]].at = s /\ call[Owner[o]].obj = o
    BY DEF At
  <1>4. call[Owner[o]] # Idle
    BY <1>1, <1>3 DEF Idle
  <1>5. phase[Owner[o]] = "running" /\ obj[o].persistent /\ Attrs(o)
    BY <1>1, <1>3, <1>4 DEF CallInv, CallOK, ObjOK
  <1> QED BY <1>1, <1>2, <1>3, <1>4, <1>5

LEMMA TypeInit == Init => TypeOK
  BY DEF Init, TypeOK, parse_environment, createSchema, Volatile, Unread, Idle, Statics


\* The access that a variable gets is new.
LEMMA FreshLemma ==
  ASSUME TypeOK, NumberInv, NEW p \in Procs
  PROVE  /\ Fresh(p) = <<p, 1 + Cardinality(Own(p))>> /\ Cardinality(Own(p)) \in Nat
         /\ Fresh(p) \in Procs \X Nat /\ Fresh(p)[1] = p /\ Fresh(p)[2] # 0
         /\ Fresh(p) # None /\ Fresh(p) # StaticCache(p)
         /\ Fresh(p) \notin DOMAIN caches
  <1>1. Fresh(p) = <<p, 1 + Cardinality(Own(p))>>
    BY DEF Fresh, Own
  <1>2. Cardinality(Own(p)) \in Nat
    BY FS_CardinalityType DEF NumberInv
  <1>3. /\ Fresh(p) \in Procs \X Nat /\ Fresh(p)[1] = p /\ Fresh(p)[2] # 0
        /\ Fresh(p) # None /\ Fresh(p) # StaticCache(p)
    BY <1>1, <1>2 DEF StaticCache
  <1>4. ASSUME Fresh(p) \in DOMAIN caches PROVE FALSE
    <2>1. Fresh(p) \in Own(p)
      BY <1>3, <1>4 DEF Own, Accesses
    <2>2. 1 + Cardinality(Own(p)) <= Cardinality(Own(p))
      BY <2>1, <1>1 DEF NumberInv
    <2> QED BY <2>2, <1>2
  <1> QED BY <1>1, <1>2, <1>3, <1>4

\* What the opening of a table adds: the access, and the static table when it is the first.
Added(o) == {Fresh(Owner[o])} \cup (IF NeedsStatic(o) THEN {StaticCache(Owner[o])} ELSE {})
WriterOf(o) ==
  IF kind(o) = "numpy" /\ config.single_table THEN StaticCache(Owner[o]) ELSE Fresh(Owner[o])

LEMMA OpenStep ==
  ASSUME TypeOK, CallInv, NumberInv, NEW o \in Objs, initialize_dataAcces(o)
  PROVE  /\ caches' = [a \in DOMAIN caches \cup Added(o) |->
                         IF a = Fresh(Owner[o]) THEN Table(o, WriterOf(o))
                         ELSE IF a \in DOMAIN caches THEN caches[a]
                         ELSE Table(o, StaticCache(Owner[o]))]
         /\ obj' = [obj EXCEPT ![o].access = Fresh(Owner[o])]
         /\ Added(o) \cap DOMAIN caches = {} /\ WriterOf(o) \in DOMAIN caches \cup Added(o)
         /\ At(o, "access") \/ At(o, "open")
         /\ Owner[o] \in Procs /\ Attrs(o) /\ obj[o].table \in Tables
         /\ call[Owner[o]] \in [at : Steps, obj : Objs]
  <1> DEFINE p == Owner[o]
  <1>0. p \in Procs
    OBVIOUS
  <1>1. Fresh(p) \notin DOMAIN caches /\ Fresh(p) # StaticCache(p)
    BY <1>0, FreshLemma
  <1>2. /\ caches' = IF kind(o) = "numpy" THEN ArrayDataStore(o) ELSE make_cache(o)
        /\ obj' = [obj EXCEPT ![o].access = Fresh(p)]
        /\ At(o, "access") \/ At(o, "open")
    BY DEF initialize_dataAcces, registerObject
  <1>3. Attrs(o) /\ call[Owner[o]] \in [at : Steps, obj : Objs]
    <2>1. "access" \in Steps /\ "open" \in Steps
      BY DEF Steps
    <2> QED BY <1>2, <2>1, StepTypes
  <1>4. class[o] \in Classes
    BY DEF TypeOK
  <1>5. obj[o].table \in Tables
    BY <1>3, <1>4, TableNames DEF Attrs
  <1>6. NeedsStatic(o) => StaticCache(p) \notin DOMAIN caches
    BY DEF NeedsStatic
  <1>7. Added(o) \cap DOMAIN caches = {}
    BY <1>1, <1>6 DEF Added
  <1>8. WriterOf(o) \in DOMAIN caches \cup Added(o)
    BY DEF WriterOf, Added, NeedsStatic
  <1>9. caches' = [a \in DOMAIN caches \cup Added(o) |->
                     IF a = Fresh(Owner[o]) THEN Table(o, WriterOf(o))
                     ELSE IF a \in DOMAIN caches THEN caches[a]
                     ELSE Table(o, StaticCache(Owner[o]))]
    <2>1. CASE kind(o) = "numpy" /\ config.single_table
      <3>1. caches' = with(getStaticcache(o), Fresh(p), Table(o, StaticCache(p))) /\ WriterOf(o) = StaticCache(p)
        BY <2>1, <1>2 DEF ArrayDataStore, WriterOf
      <3>2. CASE NeedsStatic(o)
        BY <3>1, <3>2, <1>1, <1>6 DEF with, getStaticcache, Added
      <3>3. CASE ~NeedsStatic(o)
        BY <3>1, <3>3, <1>1, <1>6 DEF with, getStaticcache, Added
      <3> QED BY <3>2, <3>3
    <2>2. CASE ~(kind(o) = "numpy" /\ config.single_table)
      <3>1. caches' = with(caches, Fresh(p), Table(o, Fresh(p))) /\ WriterOf(o) = Fresh(p)
        BY <2>2, <1>2 DEF ArrayDataStore, WriterOf, make_cache
      <3>2. ~NeedsStatic(o)
        BY <2>2 DEF NeedsStatic
      <3> QED BY <3>1, <3>2, <1>1 DEF with, Added
    <2> QED BY <2>1, <2>2
  <1> QED BY <1>0, <1>2, <1>3, <1>5, <1>7, <1>8, <1>9


-----------------------------------------------------------------------------
(* What the steps that write, flush and acknowledge do to the tables. *)

SameTable(a) ==
  /\ caches'[a].cache = caches[a].cache /\ caches'[a].table = caches[a].table
  /\ caches'[a].lazy = caches[a].lazy
SameTables == DOMAIN caches' = DOMAIN caches /\ \A a \in DOMAIN caches : SameTable(a)

AccessRecord == [cache : DOMAIN caches, table : Tables, dirty : SUBSET Rows,
                 flight : SUBSET Rows, lazy : BOOLEAN]

RowSets == SUBSET ((Names \cup {None}) \X (Blocks \cup {0}))

LEMMA DataStep ==
  ASSUME TypeOK, CallInv, NEW o \in Objs, persist_data(o)
  PROVE  /\ obj[o].access # None /\ {<<obj[o].sid, b>> : b \in Blocks} \in RowSets
         /\ At(o, "data") /\ "data" \in Steps
  <1>1. "data" \in Steps /\ At(o, "data")
    BY DEF persist_data, Steps
  <1>2. obj[o].access # None
    BY <1>1, StepTypes DEF CallInv, CallOK
  <1>3. obj[o].sid \in Names \cup {None}
    BY DEF TypeOK
  <1> QED BY <1>1, <1>2, <1>3 DEF RowSets

LEMMA SetStep ==
  ASSUME TypeOK, CallInv, NEW o \in Objs, setItem(o) \/ setAttr(o)
  PROVE  /\ obj[o].access # None
         /\ \E row \in (Names \cup {None}) \X (Blocks \cup {0}) : {row} \in RowSets /\ Writes(o, row)
  <1>1. obj[o].sid \in Names \cup {None}
    BY DEF TypeOK
  <1>2. PICK row \in (Names \cup {None}) \X (Blocks \cup {0}) : Writes(o, row)
    BY <1>1 DEF setItem, setAttr
  <1>3. obj[o].access # None
    BY <1>2 DEF Writes, CallInv, ObjOK
  <1>4. {row} \in RowSets
    BY DEF RowSets
  <1> QED BY <1>2, <1>3, <1>4

NewRows(o, rows) == {[cache |-> WriteCache(obj[o].access), row |-> r, n |-> calls] : r \in rows}

LEMMA NewRowsType ==
  ASSUME TypeOK, NEW o \in Objs, obj[o].access # None,
         NEW rows \in RowSets
  PROVE  /\ obj[o].access \in DOMAIN caches
         /\ WriteCache(obj[o].access) \in DOMAIN caches
         /\ NewRows(o, rows) \subseteq Rows
  <1>1. obj[o].access \in DOMAIN caches
    BY DEF TypeOK
  <1>2. WriteCache(obj[o].access) \in DOMAIN caches
    BY <1>1 DEF TypeOK, WriteCache
  <1>3. WriteCache(obj[o].access) \in Procs \X Nat /\ calls \in Nat
    BY <1>2 DEF TypeOK
  <1>4. ASSUME NEW r \in rows
        PROVE  [cache |-> WriteCache(obj[o].access), row |-> r, n |-> calls] \in Rows
    BY <1>3 DEF Rows, RowSets
  <1> QED BY <1>1, <1>2, <1>4 DEF NewRows

\* The new rows are pending with their writer c, queued unless it is lazy.
Wrote(o, rows, c) ==
  /\ SameTables /\ caches' \in [DOMAIN caches -> AccessRecord]
  /\ \A a \in DOMAIN caches : a # c => caches'[a] = caches[a]
  /\ caches'[c].dirty \cup caches'[c].flight = Pending(c) \cup NewRows(o, rows)
  /\ caches[c].flight \subseteq caches'[c].flight
  /\ ~caches[c].lazy => caches'[c].dirty = {}
  /\ written' = [written EXCEPT ![Owner[o]] = @ \cup NewRows(o, rows)]
  /\ StaticsOfWriter(Owner[o])

LEMMA WriteEffect ==
  ASSUME TypeOK, NEW o \in Objs, obj[o].access # None,
         NEW rows \in RowSets,
         write_to_cassandra(o, rows),
         NEW c, c = WriteCache(obj[o].access)
  PROVE  Wrote(o, rows, c)
  <1> DEFINE new == NewRows(o, rows)
  <1>1. c \in DOMAIN caches /\ new \subseteq Rows
    BY NewRowsType
  <1>2. /\ \/ /\ caches[c].lazy
              /\ caches' = [caches EXCEPT ![c].dirty = @ \cup new]
           \/ caches' = [caches EXCEPT ![c].flight = @ \cup caches[c].dirty \cup new,
                                       ![c].dirty = {}]
        /\ written' = [written EXCEPT ![Owner[o]] = @ \cup new]
        /\ StaticsOfWriter(Owner[o])
    BY DEF write_to_cassandra, NewRows
  <1>3. caches \in [DOMAIN caches -> AccessRecord]
    BY DEF TypeOK, AccessRecord
  <1>4. caches[c] \in AccessRecord
    BY <1>1, <1>3
  <1> HIDE DEF new
  <1>5. CASE caches[c].lazy /\ caches' = [caches EXCEPT ![c].dirty = @ \cup new]
    <2>1. caches' = [caches EXCEPT ![c] = [caches[c] EXCEPT !.dirty = @ \cup new]]
      BY <1>5
    <2>2. [caches[c] EXCEPT !.dirty = @ \cup new] \in AccessRecord
      BY <1>1, <1>4 DEF AccessRecord
    <2>3. caches' \in [DOMAIN caches -> AccessRecord]
      BY <2>1, <2>2, <1>1, <1>3
    <2>4. SameTables /\ \A a \in DOMAIN caches : a # c => caches'[a] = caches[a]
      BY <2>1, <1>1, <1>3, <1>4 DEF SameTables, SameTable, AccessRecord
    <2>5. caches'[c].dirty = caches[c].dirty \cup new /\ caches'[c].flight = caches[c].flight
      BY <2>1, <1>1, <1>4 DEF AccessRecord
    <2> QED BY <2>3, <2>4, <2>5, <1>2, <1>5 DEF Pending, new, Wrote
  <1>6. CASE caches' = [caches EXCEPT ![c].flight = @ \cup caches[c].dirty \cup new, ![c].dirty = {}]
    <2>1. caches' = [caches EXCEPT ![c] =
                       [caches[c] EXCEPT !.flight = @ \cup caches[c].dirty \cup new, !.dirty = {}]]
      BY <1>6
    <2>2. [caches[c] EXCEPT !.flight = @ \cup caches[c].dirty \cup new, !.dirty = {}] \in AccessRecord
      BY <1>1, <1>4 DEF AccessRecord
    <2>3. caches' \in [DOMAIN caches -> AccessRecord]
      BY <2>1, <2>2, <1>1, <1>3
    <2>4. SameTables /\ \A a \in DOMAIN caches : a # c => caches'[a] = caches[a]
      BY <2>1, <1>1, <1>3, <1>4 DEF SameTables, SameTable, AccessRecord
    <2>5. caches'[c].dirty = {} /\ caches'[c].flight = caches[c].flight \cup caches[c].dirty \cup new
      BY <2>1, <1>1, <1>4 DEF AccessRecord
    <2> QED BY <2>3, <2>4, <2>5, <1>2 DEF Pending, new, Wrote
  <1> QED BY <1>2, <1>5, <1>6

LEMMA FlushEffect ==
  ASSUME TypeOK, NEW cs, caches' = flush_dirty_blocks(caches, cs)
  PROVE  /\ SameTables /\ caches' \in [DOMAIN caches -> AccessRecord]
         /\ \A a \in DOMAIN caches :
              /\ caches'[a].dirty \cup caches'[a].flight = Pending(a)
              /\ caches[a].flight \subseteq caches'[a].flight
              /\ caches'[a].dirty \subseteq caches[a].dirty
  <1>1. caches \in [DOMAIN caches -> AccessRecord]
    BY DEF TypeOK, AccessRecord
  <1>2. DOMAIN caches' = DOMAIN caches
    BY DEF flush_dirty_blocks
  <1>3. ASSUME NEW a \in DOMAIN caches
        PROVE  /\ caches'[a] \in AccessRecord /\ SameTable(a)
               /\ caches'[a].dirty \cup caches'[a].flight = Pending(a)
               /\ caches[a].flight \subseteq caches'[a].flight
               /\ caches'[a].dirty \subseteq caches[a].dirty
    <2>1. caches[a] \in AccessRecord
      BY <1>1
    <2>2. CASE a \in cs
      <3>1. caches'[a] = [caches[a] EXCEPT !.flight = @ \cup caches[a].dirty, !.dirty = {}]
        BY <2>2 DEF flush_dirty_blocks
      <3> QED BY <3>1, <2>1 DEF AccessRecord, SameTable, Pending
    <2>3. CASE a \notin cs
      <3>1. caches'[a] = caches[a]
        BY <2>3 DEF flush_dirty_blocks
      <3> QED BY <3>1, <2>1 DEF AccessRecord, SameTable, Pending
    <2> QED BY <2>2, <2>3
  <1>4. caches' \in [DOMAIN caches -> AccessRecord]
    BY <1>3 DEF flush_dirty_blocks
  <1> QED BY <1>2, <1>3, <1>4 DEF SameTables

LEMMA DropEffect ==
  ASSUME TypeOK, NEW cs, caches' = drop_dirty_blocks(caches, cs)
  PROVE  /\ SameTables /\ caches' \in [DOMAIN caches -> AccessRecord]
         /\ \A a \in DOMAIN caches :
              caches'[a].flight = caches[a].flight /\ caches'[a].dirty \subseteq caches[a].dirty
  <1>1. caches \in [DOMAIN caches -> AccessRecord]
    BY DEF TypeOK, AccessRecord
  <1>2. DOMAIN caches' = DOMAIN caches
    BY DEF drop_dirty_blocks
  <1>3. ASSUME NEW a \in DOMAIN caches
        PROVE  /\ caches'[a] \in AccessRecord /\ SameTable(a)
               /\ caches'[a].flight = caches[a].flight /\ caches'[a].dirty \subseteq caches[a].dirty
    <2>1. caches[a] \in AccessRecord
      BY <1>1
    <2>2. caches'[a] = IF a \in cs THEN [caches[a] EXCEPT !.dirty = {}] ELSE caches[a]
      BY DEF drop_dirty_blocks
    <2> QED BY <2>1, <2>2 DEF AccessRecord, SameTable
  <1>4. caches' \in [DOMAIN caches -> AccessRecord]
    BY <1>3 DEF drop_dirty_blocks
  <1> QED BY <1>2, <1>3, <1>4 DEF SameTables

LEMMA AppliedEffect ==
  ASSUME TypeOK, NEW c \in DOMAIN caches, applied(c)
  PROVE  /\ SameTables /\ caches' \in [DOMAIN caches -> AccessRecord]
         /\ \A a \in DOMAIN caches : a # c => caches'[a] = caches[a]
         /\ caches'[c].dirty = caches[c].dirty
         /\ \E w \in caches[c].flight :
              /\ caches'[c].flight = caches[c].flight \ {w}
              /\ stored' = stored \cup {w}
  <1>1. caches \in [DOMAIN caches -> AccessRecord] /\ caches[c] \in AccessRecord
    BY DEF TypeOK, AccessRecord
  <1>2. PICK w \in caches[c].flight : /\ caches' = [caches EXCEPT ![c].flight = @ \ {w}]
                                      /\ stored' = stored \cup {w}
    BY DEF applied
  <1>3. caches' = [caches EXCEPT ![c] = [caches[c] EXCEPT !.flight = @ \ {w}]]
    BY <1>2
  <1>4. [caches[c] EXCEPT !.flight = @ \ {w}] \in AccessRecord
    BY <1>1 DEF AccessRecord
  <1>5. caches' \in [DOMAIN caches -> AccessRecord]
    BY <1>1, <1>3, <1>4
  <1>6. SameTables /\ \A a \in DOMAIN caches : a # c => caches'[a] = caches[a]
    BY <1>1, <1>3 DEF SameTables, SameTable, AccessRecord
  <1>7. caches'[c].dirty = caches[c].dirty /\ caches'[c].flight = caches[c].flight \ {w}
    BY <1>1, <1>3 DEF AccessRecord
  <1> QED BY <1>2, <1>5, <1>6, <1>7


-----------------------------------------------------------------------------
(* What the steps do to the variables and the calls. *)

ObjRecord == [persistent : BOOLEAN, sid : Names \cup {None}, table : Tables \cup {None},
              access : DOMAIN caches \cup {None}]
CallRecord == {Idle} \cup [at : Steps, obj : Objs]
LoadRecord == [promised : BOOLEAN, blocks : SUBSET Blocks]

\* TypeOK in named parts.
LEMMA TypeParts ==
  TypeOK <=>
    /\ config \in Configs /\ class \in Programs /\ keyspace \in BOOLEAN
    /\ schema \in [Tables -> {Columns[c] : c \in Classes} \cup {None, ArrayColumns}]
    /\ istorage \in [Names -> Classes \cup {None}]
    /\ stored \subseteq Rows
    /\ phase \in [Procs -> {"running", "exit", "ended"}]
    /\ statics \in [Procs -> Seq(Statics)] /\ gone \in [Procs -> SUBSET Statics]
    /\ alive_objects \in [Procs -> SUBSET DOMAIN caches]
    /\ DOMAIN caches \subseteq Procs \X Nat
    /\ caches \in [DOMAIN caches -> AccessRecord]
    /\ obj \in [Objs -> ObjRecord]
    /\ loaded \in [Objs -> LoadRecord]
    /\ call \in [Procs -> CallRecord]
    /\ returned \subseteq Objs /\ written \in [Procs -> SUBSET Rows] /\ published \subseteq Names
    /\ calls \in 0 .. MaxCalls /\ fails \in 0 .. MaxFails
  BY DEF TypeOK, ObjRecord, CallRecord, LoadRecord, AccessRecord

LEMMA AttrsEffect ==
  ASSUME obj \in [Objs -> ObjRecord], NEW o \in Objs, NEW n \in Names, class[o] \in Classes,
         init_persistent_attributes(o, n)
  PROVE  /\ obj' \in [Objs -> ObjRecord]
         /\ \A x \in Objs : x # o => obj'[x] = obj[x]
         /\ obj'[o].persistent /\ obj'[o].sid = n /\ obj'[o].table = assignTableName(class[o], n)
         /\ obj'[o].access = obj[o].access
  <1> DEFINE t == assignTableName(class[o], n)
             new == [obj[o] EXCEPT !.persistent = TRUE, !.sid = n, !.table = t]
  <1>1. t \in Tables
    BY TableNames
  <1>2. obj[o] \in ObjRecord
    OBVIOUS
  <1>3. obj' = [obj EXCEPT ![o] = new]
    BY DEF init_persistent_attributes
  <1> HIDE DEF t
  <1>4. new \in ObjRecord /\ new.persistent /\ new.sid = n /\ new.table = t /\ new.access = obj[o].access
    BY <1>1, <1>2 DEF ObjRecord
  <1> HIDE DEF new
  <1>5. obj'[o] = new /\ \A x \in Objs : x # o => obj'[x] = obj[x]
    BY <1>3
  <1>6. obj' \in [Objs -> ObjRecord]
    BY <1>3, <1>4
  <1> QED BY <1>4, <1>5, <1>6 DEF t

LEMMA GoesEffect ==
  ASSUME call \in [Procs -> CallRecord], NEW o \in Objs, NEW s \in Steps, Goes(o, s),
         call[Owner[o]] \in [at : Steps, obj : Objs]
  PROVE  /\ call' \in [Procs -> CallRecord]
         /\ call'[Owner[o]] = [at |-> s, obj |-> call[Owner[o]].obj]
         /\ \A q \in Procs : q # Owner[o] => call'[q] = call[q]
  <1> DEFINE new == [call[Owner[o]] EXCEPT !.at = s]
  <1>1. Owner[o] \in Procs
    OBVIOUS
  <1>2. call' = [call EXCEPT ![Owner[o]] = new]
    BY DEF Goes
  <1>3. new = [at |-> s, obj |-> call[Owner[o]].obj] /\ new \in CallRecord
    BY DEF CallRecord
  <1> HIDE DEF new
  <1> QED BY <1>1, <1>2, <1>3

LEMMA ReturnsEffect ==
  ASSUME call \in [Procs -> CallRecord], NEW o \in Objs, Returns(o)
  PROVE  /\ call' \in [Procs -> CallRecord] /\ call'[Owner[o]] = Idle
         /\ \A q \in Procs : q # Owner[o] => call'[q] = call[q]
  <1>1. Owner[o] \in Procs
    OBVIOUS
  <1> QED BY <1>1 DEF Returns, CallRecord

-----------------------------------------------------------------------------
(* Types. *)

LEMMA FrontLemma ==
  ASSUME NEW S, NEW q \in Seq(S), Len(q) > 0
  PROVE  /\ Last(q) = q[Len(q)] /\ Last(q) \in S
         /\ Front(q) \in Seq(S) /\ Len(Front(q)) = Len(q) - 1
         /\ \A i \in 1 .. Len(q) - 1 : Front(q)[i] = q[i]
  <1>1. Last(q) = q[Len(q)] /\ Last(q) \in S
    BY DEF Last
  <1> DEFINE n == Len(q) - 1
  <1>2. n \in Nat /\ \A i \in 1 .. n : q[i] \in S
    OBVIOUS
  <1> HIDE DEF n
  <1>3. /\ SubSeq(q, 1, n) \in Seq(S) /\ Len(SubSeq(q, 1, n)) = n
        /\ \A i \in 1 .. n - 1 + 1 : SubSeq(q, 1, n)[i] = q[1 + i - 1]
    BY <1>2, SubSeqProperties
  <1>4. \A i \in 1 .. n : SubSeq(q, 1, n)[i] = q[i]
    <2> TAKE i \in 1 .. n
    <2>1. i \in 1 .. n - 1 + 1 /\ 1 + i - 1 = i
      BY <1>2
    <2> QED BY <1>3, <2>1
  <1>5. Front(q) = SubSeq(q, 1, n)
    BY DEF Front, n
  <1>6. /\ Front(q) \in Seq(S) /\ Len(Front(q)) = n
        /\ \A i \in 1 .. n : Front(q)[i] = q[i]
    BY <1>3, <1>4, <1>5
  <1> QED BY <1>1, <1>6 DEF n

LEMMA TypeStep ==
  ASSUME TypeOK, CallInv, NumberInv, ExitInv, [Next]_vars
  PROVE  TypeOK'
  <1> USE DEF cassandra, process, ghosts
  <1>a. ASSUME NEW o \in Objs, NEW s \in Steps, At(o, s)
        PROVE  /\ call[Owner[o]] \in [at : Steps, obj : Objs]
               /\ obj[o].table \in Tables /\ obj[o].sid \in Names
    BY <1>a, StepTypes, TableNames DEF Attrs, TypeOK
  <1>b. /\ obj \in [Objs -> ObjRecord] /\ loaded \in [Objs -> LoadRecord]
        /\ call \in [Procs -> CallRecord] /\ caches \in [DOMAIN caches -> AccessRecord]
        /\ \A o \in Objs : class[o] \in Classes /\ Owner[o] \in Procs
    BY TypeParts
  <1>c. ASSUME NEW o \in Objs, Returns(o) PROVE call' \in [Procs -> CallRecord]
    BY <1>c, <1>b, ReturnsEffect
  <1>1. ASSUME NEW o \in Objs, NEW n \in Names, make_persistent(o, n) PROVE TypeOK'
    <2>1. call' \in [Procs -> CallRecord]
      BY <1>1, <1>b DEF make_persistent, Steps, CallRecord
    <2>2. obj' \in [Objs -> ObjRecord]
      BY <1>1, <1>b, AttrsEffect DEF make_persistent
    <2>3. calls' \in 0 .. MaxCalls
      BY <1>1 DEF TypeOK, make_persistent, Starts
    <2>4. /\ UNCHANGED <<config, class, cassandra, phase, statics, gone, alive_objects, caches, loaded,
                        written, published, fails>>
          /\ returned' \subseteq returned
      BY <1>1 DEF make_persistent
    <2> QED BY <2>1, <2>2, <2>3, <2>4 DEF TypeOK, Idle, ObjRecord, CallRecord
  <1>2. ASSUME NEW o \in Objs, NEW n \in Names, getByAlias(o, n) PROVE TypeOK'
    <2>1. call' \in [Procs -> CallRecord]
      BY <1>2, <1>b DEF getByAlias, Steps, CallRecord
    <2>2. obj' \in [Objs -> ObjRecord]
      <3>1. CASE init_persistent_attributes(o, n)
        BY <3>1, <1>b, AttrsEffect
      <3>2. CASE UNCHANGED obj
        BY <3>2, <1>b
      <3> QED BY <1>2, <3>1, <3>2 DEF getByAlias
    <2>3. loaded' \in [Objs -> LoadRecord]
      <3>1. [promised |-> n \in published, blocks |-> Blocks] \in LoadRecord
        BY DEF LoadRecord
      <3> QED BY <1>2, <1>b, <3>1 DEF getByAlias
    <2> QED
      BY <1>2, <2>1, <2>2, <2>3 DEF TypeOK, getByAlias, Starts, Idle, ObjRecord, CallRecord, LoadRecord
  <1>3. ASSUME NEW o \in Objs, create_table(o) PROVE TypeOK'
    <2>1. call[Owner[o]] \in [at : Steps, obj : Objs] /\ obj[o].table \in Tables /\ "access" \in Steps
      BY <1>a, <1>3 DEF create_table, Steps
    <2>2. call' \in [Procs -> CallRecord]
      BY <1>3, <1>b, <2>1, GoesEffect DEF create_table
    <2>3. schema' \in [Tables -> {Columns[c] : c \in Classes} \cup {None, ArrayColumns}]
      <3> DEFINE S == {Columns[c] : c \in Classes} \cup {None, ArrayColumns}
      <3>1. Columns[class[o]] \in S
        BY <1>b
      <3>2. schema \in [Tables -> S]
        BY DEF TypeOK
      <3> HIDE DEF S
      <3>3. schema' \in [Tables -> S]
        BY <1>3, <2>1, <3>1, <3>2 DEF create_table
      <3> QED BY <3>3 DEF S
    <2> QED BY <1>3, <2>2, <2>3 DEF TypeOK, create_table, Idle, CallRecord
  <1>4. ASSUME NEW o \in Objs, create_keyspace(o) PROVE TypeOK'
    BY <1>4 DEF TypeOK, create_keyspace, Idle
  <1>5. ASSUME NEW o \in Objs, query_fails(o) \/ access_fails(o) PROVE TypeOK'
    <2>1. Returns(o)
      BY <1>5 DEF query_fails, access_fails, Throws
    <2>2. call' \in [Procs -> CallRecord]
      BY <1>c, <2>1
    <2>3. CASE query_fails(o)
      BY <2>2, <2>3 DEF TypeOK, query_fails, Throws, Idle, CallRecord
    <2>4. CASE access_fails(o)
      BY <2>2, <2>4 DEF TypeOK, access_fails, Throws, Idle, CallRecord
    <2> QED BY <1>5, <2>3, <2>4
  <1>9. ASSUME NEW o \in Objs, read_numpy(o) PROVE TypeOK'
    <2>1. call' \in [Procs -> CallRecord]
      BY <1>c, <1>9 DEF read_numpy
    <2>2. loaded' \in [Objs -> LoadRecord]
      <3>1. PICK found \in SUBSET Blocks : loaded' = [loaded EXCEPT ![o].blocks = found]
        BY <1>9 DEF read_numpy
      <3>2. loaded' = [loaded EXCEPT ![o] = [loaded[o] EXCEPT !.blocks = found]]
        BY <3>1
      <3>3. [loaded[o] EXCEPT !.blocks = found] \in LoadRecord
        BY <1>b DEF LoadRecord
      <3> QED BY <3>2, <3>3, <1>b
    <2>3. returned' \subseteq Objs
      BY <1>9 DEF TypeOK, read_numpy
    <2> QED BY <1>9, <2>1, <2>2, <2>3 DEF TypeOK, read_numpy, Idle, CallRecord, LoadRecord
  <1>13. ASSUME NEW o \in Objs, destroy(o) PROVE TypeOK'
    BY <1>13 DEF TypeOK, destroy, Starts, Volatile, Unread, Idle
  <1>14. ASSUME NEW o \in Objs, NEW src \in Objs, assign(o, src) PROVE TypeOK'
    BY <1>14 DEF TypeOK, assign, Starts, Idle
  <1>16. ASSUME NEW p \in Procs, main_returns(p) PROVE TypeOK'
    BY <1>16 DEF TypeOK, main_returns, Volatile, Unread, Idle
  <1>18. CASE UNCHANGED vars
    BY <1>18 DEF TypeOK, vars, Idle
  <1>6. ASSUME NEW o \in Objs, initialize_dataAcces(o) PROVE TypeOK'
    <2>1. call[Owner[o]] \in [at : Steps, obj : Objs] /\ obj[o].table \in Tables
      BY <1>6, OpenStep
    <2>2. call' \in [Procs -> CallRecord]
      <3>1. "metadata" \in Steps /\ "read" \in Steps
        BY DEF Steps
      <3>2. Goes(o, "metadata") \/ Goes(o, "read") \/ Returns(o)
        BY <1>6 DEF initialize_dataAcces
      <3> QED BY <3>1, <3>2, <2>1, <1>b, <1>c, GoesEffect
    <2>3. DOMAIN caches' = DOMAIN caches \cup Added(o) /\ DOMAIN caches' \subseteq Procs \X Nat
      <3>1. DOMAIN caches' = DOMAIN caches \cup Added(o)
        BY <1>6, OpenStep
      <3>2. Added(o) \subseteq Procs \X Nat
        BY <1>b, FreshLemma DEF Added, StaticCache
      <3> QED BY <3>1, <3>2 DEF TypeOK
    <2>4. caches' \in [DOMAIN caches' -> AccessRecord']
      <3> DEFINE D == DOMAIN caches \cup Added(o)
      <3>1. ASSUME NEW c \in D PROVE Table(o, c) \in AccessRecord'
        <4>1. config.lazy \in BOOLEAN
          BY DEF TypeOK
        <4> QED BY <2>1, <2>3, <4>1 DEF Table, has_lazy_writes, AccessRecord
      <3>2. ASSUME NEW a \in DOMAIN caches PROVE caches[a] \in AccessRecord'
        <4>1. caches[a] \in AccessRecord
          BY <1>b
        <4> QED BY <4>1, <2>3 DEF AccessRecord
      <3>3. WriterOf(o) \in D /\ \A a \in D : a \in DOMAIN caches \/ a = Fresh(Owner[o]) \/ a = StaticCache(Owner[o])
        BY <1>6, OpenStep DEF Added
      <3>4. caches' = [a \in D |-> IF a = Fresh(Owner[o]) THEN Table(o, WriterOf(o))
                                   ELSE IF a \in DOMAIN caches THEN caches[a]
                                   ELSE Table(o, StaticCache(Owner[o]))]
        BY <1>6, OpenStep
      <3> HIDE DEF D
      <3>5. ASSUME NEW a \in D PROVE caches'[a] \in AccessRecord'
        BY <3>1, <3>2, <3>3, <3>4
      <3> QED BY <3>4, <3>5
    <2>5. obj' \in [Objs -> ObjRecord']
      <3> DEFINE new == [obj[o] EXCEPT !.access = Fresh(Owner[o])]
      <3>1. obj' = [obj EXCEPT ![o] = new]
        BY <1>6, OpenStep
      <3>2. Fresh(Owner[o]) \in DOMAIN caches'
        BY <2>3 DEF Added
      <3>3. \A x \in Objs : obj[x] \in ObjRecord'
        BY <1>b, <2>3 DEF ObjRecord
      <3>4. new \in ObjRecord'
        BY <3>2, <3>3 DEF ObjRecord
      <3> HIDE DEF new
      <3> QED BY <3>1, <3>3, <3>4, <1>b
    <2>6. alive_objects' \in [Procs -> SUBSET DOMAIN caches']
      <3>1. alive_objects' = Registered(o, obj', caches')
        BY <1>6 DEF initialize_dataAcces, registerObject
      <3>2. PICK kept \in SUBSET (alive_objects[Owner[o]] \cup {Fresh(Owner[o])}) :
              alive_objects' = [alive_objects EXCEPT ![Owner[o]] = kept]
        BY <3>1 DEF Registered, deallocateObjects
      <3>3. kept \subseteq DOMAIN caches'
        BY <1>b, <2>3, <3>2 DEF Added, TypeOK
      <3>4. \A p \in Procs : alive_objects[p] \subseteq DOMAIN caches'
        BY <2>3 DEF TypeOK
      <3>5. alive_objects \in [Procs -> SUBSET DOMAIN caches]
        BY DEF TypeOK
      <3>6. \A p \in Procs : alive_objects'[p] \subseteq DOMAIN caches'
        BY <1>b, <3>2, <3>3, <3>4, <3>5
      <3> QED BY <3>2, <3>5, <3>6
    <2>7. statics' \in [Procs -> Seq(Statics)]
      <3>1. Append(statics[Owner[o]], "staticCache") \in Seq(Statics)
        BY <1>b, AppendProperties DEF TypeOK, Statics
      <3> HIDE DEF Statics
      <3> QED BY <1>6, <1>b, <3>1 DEF TypeOK, initialize_dataAcces
    <2>8. returned' \subseteq Objs
      BY <1>6 DEF TypeOK, initialize_dataAcces
    <2> QED
      BY <1>6, <2>2, <2>3, <2>4, <2>5, <2>6, <2>7, <2>8
      DEF TypeOK, initialize_dataAcces, AccessRecord, ObjRecord, CallRecord, Idle
  <1>d. ASSUME NEW p \in Procs, StaticsOfWriter(p) PROVE statics' \in [Procs -> Seq(Statics)]
    <2>1. Append(statics[p], "WriterThread") \in Seq(Statics)
      BY AppendProperties DEF TypeOK, Statics
    <2> HIDE DEF Statics
    <2> QED BY <1>d, <2>1 DEF TypeOK, StaticsOfWriter
  <1>e. ASSUME SameTables, caches' \in [DOMAIN caches -> AccessRecord]
        PROVE  /\ DOMAIN caches' = DOMAIN caches
               /\ caches' \in [DOMAIN caches' -> AccessRecord']
    BY <1>e DEF SameTables, AccessRecord
  <1>f. ASSUME NEW o \in Objs, obj[o].access # None,
               NEW rows \in RowSets,
               write_to_cassandra(o, rows)
        PROVE  /\ DOMAIN caches' = DOMAIN caches
               /\ caches' \in [DOMAIN caches' -> AccessRecord']
               /\ written' \in [Procs -> SUBSET Rows]
               /\ statics' \in [Procs -> Seq(Statics)]
    <2>1. /\ SameTables /\ caches' \in [DOMAIN caches -> AccessRecord]
          /\ written' = [written EXCEPT ![Owner[o]] = @ \cup NewRows(o, rows)]
          /\ StaticsOfWriter(Owner[o])
      BY <1>f, WriteEffect DEF Wrote
    <2>2. NewRows(o, rows) \subseteq Rows
      BY <1>f, NewRowsType
    <2>3. written' \in [Procs -> SUBSET Rows]
      BY <1>b, <2>1, <2>2 DEF TypeOK
    <2> QED BY <1>b, <1>d, <1>e, <2>1, <2>3
  <1>7. ASSUME NEW o \in Objs, persist_metadata(o) PROVE TypeOK'
    <2>1. call[Owner[o]] \in [at : Steps, obj : Objs] /\ obj[o].sid \in Names /\ "data" \in Steps
      BY <1>a, <1>7 DEF persist_metadata, Steps
    <2>2. call' \in [Procs -> CallRecord]
      BY <1>7, <1>b, <2>1, GoesEffect DEF persist_metadata
    <2>3. istorage' \in [Names -> Classes \cup {None}]
      BY <1>7, <1>b, <2>1 DEF persist_metadata, registerNumpy, TypeOK
    <2>4. statics' \in [Procs -> Seq(Statics)]
      <3>1. CASE StaticsOfWriter(Owner[o])
        BY <3>1, <1>b, <1>d
      <3>2. CASE UNCHANGED statics
        BY <3>2 DEF TypeOK
      <3> QED BY <1>7, <3>1, <3>2 DEF persist_metadata, registerNumpy
    <2> QED BY <1>7, <2>2, <2>3, <2>4 DEF TypeOK, persist_metadata, Idle, CallRecord
  <1>8. ASSUME NEW o \in Objs, persist_data(o) PROVE TypeOK'
    <2>1. call' \in [Procs -> CallRecord]
      BY <1>c, <1>8 DEF persist_data
    <2>2. obj[o].access # None /\ {<<obj[o].sid, b>> : b \in Blocks} \in RowSets
      BY <1>8, DataStep
    <2>4. /\ DOMAIN caches' = DOMAIN caches
          /\ caches' \in [DOMAIN caches' -> AccessRecord']
          /\ written' \in [Procs -> SUBSET Rows]
          /\ statics' \in [Procs -> Seq(Statics)]
      <3>1. CASE write_to_cassandra(o, {<<obj[o].sid, b>> : b \in Blocks})
        BY <3>1, <2>2, <1>f
      <3>2. CASE UNCHANGED <<caches, written, statics>>
        BY <3>2 DEF TypeOK, AccessRecord
      <3> QED BY <1>8, <3>1, <3>2 DEF persist_data
    <2> QED BY <1>8, <2>1, <2>4 DEF TypeOK, persist_data, Idle, CallRecord, AccessRecord
  <1>10. ASSUME NEW o \in Objs, setItem(o) \/ setAttr(o) PROVE TypeOK'
    <2>1. PICK row \in (Names \cup {None}) \X (Blocks \cup {0}) : {row} \in RowSets /\ Writes(o, row)
      BY <1>10, SetStep
    <2>2. obj[o].access # None
      BY <1>10, SetStep
    <2>3. /\ DOMAIN caches' = DOMAIN caches
          /\ caches' \in [DOMAIN caches' -> AccessRecord']
          /\ written' \in [Procs -> SUBSET Rows]
          /\ statics' \in [Procs -> Seq(Statics)]
      BY <2>1, <2>2, <1>f DEF Writes
    <2> QED BY <2>1, <2>3 DEF TypeOK, Writes, Starts, Idle, AccessRecord
  <1>11. ASSUME NEW o \in Objs, sync(o) PROVE TypeOK'
    <2>1. DOMAIN caches' = DOMAIN caches /\ caches' \in [DOMAIN caches' -> AccessRecord']
      BY <1>11, <1>e, FlushEffect DEF sync
    <2>2. call' \in [Procs -> CallRecord]
      BY <1>11, <1>b DEF sync, Steps, CallRecord
    <2>3. /\ UNCHANGED <<config, class, cassandra, phase, statics, gone, alive_objects, obj, loaded,
                         ghosts, fails>>
          /\ calls' \in 0 .. MaxCalls
      BY <1>11 DEF TypeOK, sync, Starts
    <2> QED BY <2>1, <2>2, <2>3 DEF TypeOK, Idle, CallRecord, AccessRecord
  <1>12. ASSUME NEW o \in Objs, sync_ends(o) PROVE TypeOK'
    <2>1. call' \in [Procs -> CallRecord]
      BY <1>c, <1>12 DEF sync_ends
    <2>2. obj[o].sid \in Names
      BY <1>a, <1>12 DEF sync_ends, Steps
    <2>3. published' \subseteq Names
      BY <1>12, <2>2 DEF TypeOK, sync_ends
    <2> QED BY <1>12, <2>1, <2>3 DEF TypeOK, sync_ends, Idle, CallRecord
  <1>15. ASSUME NEW c \in DOMAIN caches, applied(c) PROVE TypeOK'
    <2>1. DOMAIN caches' = DOMAIN caches /\ caches' \in [DOMAIN caches' -> AccessRecord']
      BY <1>15, <1>e, AppliedEffect
    <2>2. stored' \subseteq Rows
      <3>1. caches[c].flight \subseteq Rows
        BY <1>b DEF AccessRecord
      <3> QED BY <1>15, <3>1 DEF TypeOK, applied
    <2> QED BY <1>15, <2>1, <2>2 DEF TypeOK, applied, Idle, AccessRecord
  <1>17. ASSUME NEW p \in Procs, exit(p) PROVE TypeOK'
    <2> DEFINE s == Last(statics[p])
    <2>1. CASE flush_at_exit(p, s)
      <3> DEFINE cs == {c \in WaitsFor(p, s) : caches[c].dirty # {}}
      <3>1. \/ caches' = flush_dirty_blocks(caches, cs)
            \/ caches' = drop_dirty_blocks(caches, cs)
            \/ UNCHANGED caches
        BY <2>1 DEF flush_at_exit
      <3> HIDE DEF cs
      <3>2. CASE UNCHANGED caches
        BY <1>17, <2>1, <3>2 DEF TypeOK, exit, flush_at_exit, Idle
      <3>4. CASE ~UNCHANGED caches
        <4>1. DOMAIN caches' = DOMAIN caches /\ caches' \in [DOMAIN caches' -> AccessRecord']
          BY <3>1, <3>4, <1>e, FlushEffect, DropEffect
        <4>2. UNCHANGED <<statics, gone, phase>>
          BY <2>1 DEF flush_at_exit
        <4> QED BY <1>17, <4>1, <4>2 DEF TypeOK, exit, Idle, AccessRecord
      <3> QED BY <3>2, <3>4
    <2>2. CASE destroyed(p, s)
      <3>1. statics[p] \in Seq(Statics) /\ Len(statics[p]) > 0
        BY <1>17 DEF TypeOK, ExitInv, ExitOK, exit
      <3>2. s \in Statics /\ Front(statics[p]) \in Seq(Statics)
        BY <3>1, FrontLemma
      <3> HIDE DEF s, Statics
      <3>3. statics' \in [Procs -> Seq(Statics)] /\ gone' \in [Procs -> SUBSET Statics]
        BY <2>2, <3>2 DEF TypeOK, destroyed
      <3>4. phase' \in [Procs -> {"running", "exit", "ended"}]
        BY <2>2 DEF TypeOK, destroyed
      <3>5. UNCHANGED <<config, class, cassandra, alive_objects, obj, loaded, call, ghosts, calls, fails, caches>>
        BY <1>17, <2>2 DEF exit, destroyed
      <3> QED BY <3>3, <3>4, <3>5 DEF TypeOK, Idle
    <2> QED BY <1>17, <2>1, <2>2 DEF exit
  <1> QED
    BY <1>1, <1>2, <1>3, <1>4, <1>5, <1>6, <1>7, <1>8, <1>9, <1>10, <1>11, <1>12, <1>13, <1>14,
       <1>15, <1>16, <1>17, <1>18 DEF Next, Ended


-----------------------------------------------------------------------------
(* A step of a program changes nothing that belongs to another one, and    *)
(* what all of them share only grows.                                      *)

LocalTables(p) ==
  /\ \A a \in DOMAIN caches' : a[1] # p => a \in DOMAIN caches
  /\ \A a \in DOMAIN caches : a[1] # p => a \in DOMAIN caches' /\ caches'[a] = caches[a]
Local(p) ==
  /\ \A q \in Procs \ {p} :
       /\ call'[q] = call[q] /\ phase'[q] = phase[q] /\ statics'[q] = statics[q]
       /\ gone'[q] = gone[q] /\ alive_objects'[q] = alive_objects[q] /\ written'[q] = written[q]
  /\ \A x \in Objs : Owner[x] # p =>
       obj'[x] = obj[x] /\ loaded'[x] = loaded[x] /\ (x \in returned' <=> x \in returned)
  /\ LocalTables(p)

Grows ==
  /\ UNCHANGED <<config, class>>
  /\ \A t \in Tables : schema[t] # None => schema'[t] = schema[t]
  /\ \A n \in Names : istorage[n] # None => istorage'[n] # None
  /\ stored \subseteq stored' /\ published \subseteq published'
  /\ \A a \in DOMAIN caches : a \in DOMAIN caches' /\ SameTable(a)

\* The writer of an access belongs to the same program.
LEMMA OwnWriter ==
  ASSUME TypeOK, AccessInv, NEW o \in Objs, obj[o].access # None
  PROVE  /\ obj[o].access \in DOMAIN caches /\ obj[o].access[1] = Owner[o] /\ obj[o].access[2] # 0
         /\ WriteCache(obj[o].access) \in DOMAIN caches
         /\ WriteCache(obj[o].access)[1] = Owner[o]
         /\ caches[WriteCache(obj[o].access)].table = caches[obj[o].access].table
         /\ caches[WriteCache(obj[o].access)].cache = WriteCache(obj[o].access)
  <1>1. obj[o].access \in DOMAIN caches /\ obj[o].access[1] = Owner[o] /\ obj[o].access[2] # 0
    BY DEF TypeOK, AccessInv, UserOK
  <1>2. WriteCache(obj[o].access) \in DOMAIN caches
    BY <1>1 DEF TypeOK, WriteCache
  <1>3. CASE WriteCache(obj[o].access) = obj[o].access
    BY <1>1, <1>2, <1>3 DEF WriteCache
  <1>4. CASE WriteCache(obj[o].access) # obj[o].access
    <2>1. WriteCache(obj[o].access) = StaticCache(Owner[o]) /\ caches[obj[o].access].table = SINGLE_TABLE
      BY <1>1, <1>4 DEF AccessInv, TableOK, WriteCache
    <2>2. StaticCache(Owner[o])[1] = Owner[o] /\ StaticCache(Owner[o])[2] = 0
      BY DEF StaticCache
    <2>3. /\ caches[StaticCache(Owner[o])].table = SINGLE_TABLE
          /\ caches[StaticCache(Owner[o])].cache = StaticCache(Owner[o])
      BY <1>2, <2>1, <2>2 DEF AccessInv, TableOK
    <2> QED BY <1>1, <1>2, <2>1, <2>2, <2>3
  <1> QED BY <1>3, <1>4

ActsOn(o) ==
  \/ \E n \in Names : make_persistent(o, n) \/ getByAlias(o, n)
  \/ create_table(o) \/ create_keyspace(o) \/ query_fails(o) \/ access_fails(o)
  \/ initialize_dataAcces(o) \/ persist_metadata(o) \/ persist_data(o) \/ read_numpy(o)
  \/ setItem(o) \/ setAttr(o) \/ sync(o) \/ sync_ends(o) \/ destroy(o)
  \/ \E src \in Objs : assign(o, src)

LEMMA NextCases ==
  [Next]_vars => \/ \E o \in Objs : ActsOn(o)
                 \/ \E c \in DOMAIN caches : applied(c)
                 \/ \E p \in Procs : main_returns(p) \/ exit(p)
                 \/ UNCHANGED vars
  BY DEF Next, ActsOn, Ended

LEMMA LocalWrite ==
  ASSUME TypeOK, AccessInv, NEW o \in Objs, obj[o].access # None,
         NEW rows \in RowSets, write_to_cassandra(o, rows)
  PROVE  /\ LocalTables(Owner[o])
         /\ \A q \in Procs \ {Owner[o]} : statics'[q] = statics[q] /\ written'[q] = written[q]
  <1> DEFINE c == WriteCache(obj[o].access)
  <1>1. c \in DOMAIN caches /\ c[1] = Owner[o]
    BY OwnWriter
  <1>2. /\ SameTables /\ \A a \in DOMAIN caches : a # c => caches'[a] = caches[a]
        /\ written' = [written EXCEPT ![Owner[o]] = @ \cup NewRows(o, rows)]
        /\ StaticsOfWriter(Owner[o])
    <2>1. Wrote(o, rows, c)
      BY WriteEffect
    <2> QED BY <2>1 DEF Wrote
  <1> HIDE DEF c
  <1>4. \A q \in Procs \ {Owner[o]} : statics'[q] = statics[q] /\ written'[q] = written[q]
    BY <1>2 DEF StaticsOfWriter, TypeOK
  <1> QED BY <1>1, <1>2, <1>4 DEF SameTables, LocalTables


LEMMA LocalOpen ==
  ASSUME TypeOK, CallInv, NumberInv, NEW o \in Objs, initialize_dataAcces(o)
  PROVE  LocalTables(Owner[o])
  <1>1. caches' = [a \in DOMAIN caches \cup Added(o) |->
                         IF a = Fresh(Owner[o]) THEN Table(o, WriterOf(o))
                         ELSE IF a \in DOMAIN caches THEN caches[a]
                         ELSE Table(o, StaticCache(Owner[o]))]
    BY OpenStep
  <1>2. Fresh(Owner[o])[1] = Owner[o] /\ StaticCache(Owner[o])[1] = Owner[o]
    BY FreshLemma DEF StaticCache
  <1>3. \A a \in Added(o) : a[1] = Owner[o]
    BY <1>2 DEF Added
  <1> QED BY <1>1, <1>2, <1>3 DEF LocalTables

LEMMA LocalAction ==
  ASSUME TypeOK, CallInv, AccessInv, NumberInv, NEW o \in Objs, ActsOn(o)
  PROVE  Local(Owner[o])
  <1> USE DEF cassandra, process, ghosts
  <1>0. Owner[o] \in Procs
    OBVIOUS
  <1>a. UNCHANGED caches => LocalTables(Owner[o])
    BY DEF LocalTables
  <1>1. ASSUME NEW n \in Names, make_persistent(o, n) PROVE Local(Owner[o])
    BY <1>0, <1>a, <1>1 DEF make_persistent, init_persistent_attributes, TypeOK, Local
  <1>2. ASSUME NEW n \in Names, getByAlias(o, n) PROVE Local(Owner[o])
    BY <1>0, <1>a, <1>2 DEF getByAlias, init_persistent_attributes, TypeOK, Local
  <1>3. CASE create_table(o)
    BY <1>0, <1>a, <1>3 DEF create_table, Goes, TypeOK, Local
  <1>4. CASE create_keyspace(o)
    BY <1>a, <1>4 DEF create_keyspace, Local
  <1>5. CASE query_fails(o)
    BY <1>0, <1>a, <1>5 DEF query_fails, Throws, Returns, TypeOK, Local
  <1>6. CASE access_fails(o)
    BY <1>0, <1>a, <1>6 DEF access_fails, Throws, Returns, TypeOK, Local
  <1>7. CASE initialize_dataAcces(o)
    <2>1. LocalTables(Owner[o])
      BY <1>7, LocalOpen
    <2>2. obj' = [obj EXCEPT ![o].access = Fresh(Owner[o])]
      BY <1>7, OpenStep
    <2>3. \A q \in Procs \ {Owner[o]} : alive_objects'[q] = alive_objects[q]
      BY <1>0, <1>7 DEF initialize_dataAcces, registerObject, Registered, TypeOK
    <2>4. \A q \in Procs \ {Owner[o]} : call'[q] = call[q]
      BY <1>0, <1>7 DEF initialize_dataAcces, Goes, Returns, TypeOK
    <2>5. \A q \in Procs \ {Owner[o]} : statics'[q] = statics[q]
      BY <1>0, <1>7 DEF initialize_dataAcces, TypeOK
    <2>6. \A x \in Objs : Owner[x] # Owner[o] => (x \in returned' <=> x \in returned)
      BY <1>7 DEF initialize_dataAcces
    <2>7. UNCHANGED <<phase, gone, written, loaded>>
      BY <1>7 DEF initialize_dataAcces
    <2>8. \A x \in Objs : Owner[x] # Owner[o] => obj'[x] = obj[x]
      BY <2>2 DEF TypeOK
    <2> QED BY <2>1, <2>3, <2>4, <2>5, <2>6, <2>7, <2>8 DEF Local
  <1>8. CASE persist_metadata(o)
    BY <1>0, <1>a, <1>8 DEF persist_metadata, registerNumpy, StaticsOfWriter, Goes, TypeOK, Local
  <1>9. CASE persist_data(o)
    <2>2. obj[o].access # None /\ {<<obj[o].sid, b>> : b \in Blocks} \in RowSets
      BY <1>9, DataStep
    <2>4. /\ LocalTables(Owner[o])
          /\ \A q \in Procs \ {Owner[o]} : statics'[q] = statics[q] /\ written'[q] = written[q]
      BY <1>9, <1>a, <2>2, LocalWrite DEF persist_data
    <2> QED BY <1>0, <1>9, <2>4 DEF persist_data, Returns, TypeOK, Local
  <1>10. CASE read_numpy(o)
    BY <1>0, <1>a, <1>10 DEF read_numpy, Returns, TypeOK, Local
  <1>11. CASE setItem(o) \/ setAttr(o)
    <2>1. PICK row \in (Names \cup {None}) \X (Blocks \cup {0}) : {row} \in RowSets /\ Writes(o, row)
      BY <1>11, SetStep
    <2>2. obj[o].access # None
      BY <1>11, SetStep
    <2>3. /\ LocalTables(Owner[o])
          /\ \A q \in Procs \ {Owner[o]} : statics'[q] = statics[q] /\ written'[q] = written[q]
      BY <2>1, <2>2, LocalWrite DEF Writes
    <2> QED BY <2>1, <2>3 DEF Writes, Local
  <1>12. CASE sync(o)
    <2>1. obj[o].access # None
      BY <1>12 DEF sync, CallInv, ObjOK
    <2>2. WriteCache(obj[o].access)[1] = Owner[o]
      BY <2>1, OwnWriter
    <2>3. LocalTables(Owner[o])
      BY <1>12, <2>2 DEF sync, flush_dirty_blocks, LocalTables
    <2> QED BY <1>0, <1>12, <2>3 DEF sync, TypeOK, Local
  <1>13. CASE sync_ends(o)
    BY <1>0, <1>a, <1>13 DEF sync_ends, Returns, TypeOK, Local
  <1>14. CASE destroy(o)
    BY <1>0, <1>a, <1>14 DEF destroy, TypeOK, Local
  <1>15. ASSUME NEW src \in Objs, assign(o, src) PROVE Local(Owner[o])
    BY <1>0, <1>a, <1>15 DEF assign, TypeOK, Local
  <1> QED
    BY <1>1, <1>2, <1>3, <1>4, <1>5, <1>6, <1>7, <1>8, <1>9, <1>10, <1>11, <1>12, <1>13, <1>14, <1>15
    DEF ActsOn

LEMMA LocalApplied ==
  ASSUME TypeOK, NEW c \in DOMAIN caches, applied(c)
  PROVE  Local(c[1]) /\ UNCHANGED <<call, phase, statics, gone, alive_objects, written, obj, loaded, returned>>
  <1>1. LocalTables(c[1])
    BY AppliedEffect DEF SameTables, LocalTables
  <1> QED BY <1>1 DEF applied, ghosts, Local


LEMMA WaitsOwn ==
  ASSUME TypeOK, AccessInv, NEW p \in Procs, NEW s \in Statics
  PROVE  \A c \in WaitsFor(p, s) : c[1] = p
  <1>1. CASE s = "WriterThread"
    BY <1>1 DEF WaitsFor, Accesses
  <1>2. CASE s = "staticCache"
    BY <1>2 DEF WaitsFor, StaticCache
  <1>3. CASE s = "session"
    <2>1. WaitsFor(p, s) = {WriteCache(a) : a \in alive_objects[p]}
      BY <1>3 DEF WaitsFor
    <2>2. ASSUME NEW a \in alive_objects[p] PROVE WriteCache(a)[1] = p
      <3>1. a \in DOMAIN caches /\ a[1] = p
        BY DEF TypeOK, AccessInv, ListOK
      <3>2. StaticCache(p)[1] = p
        BY DEF StaticCache
      <3> QED BY <3>1, <3>2 DEF AccessInv, TableOK, WriteCache
    <2> QED BY <2>1, <2>2
  <1> QED BY <1>1, <1>2, <1>3 DEF Statics

LEMMA LastStatic ==
  ASSUME TypeOK, ExitInv, NEW p \in Procs, exit(p)
  PROVE  /\ statics[p] \in Seq(Statics) /\ Len(statics[p]) > 0
         /\ Last(statics[p]) \in Statics /\ Last(statics[p]) = statics[p][Len(statics[p])]
         /\ phase[p] = "exit" /\ statics[p][1] = "session"
  <1>1. statics[p] \in Seq(Statics) /\ Len(statics[p]) > 0 /\ phase[p] = "exit" /\ statics[p][1] = "session"
    BY DEF TypeOK, ExitInv, ExitOK, exit
  <1> QED BY <1>1, FrontLemma

\* What an exit step does to the tables: it queues dirty rows, drops them or does nothing.
LEMMA ExitEffect ==
  ASSUME TypeOK, AccessInv, ExitInv, NEW p \in Procs, exit(p)
  PROVE  /\ SameTables /\ LocalTables(p)
         /\ \A a \in DOMAIN caches :
              /\ caches[a].flight \subseteq caches'[a].flight
              /\ caches'[a].dirty \subseteq caches[a].dirty
              /\ caches'[a].dirty \cup caches'[a].flight \subseteq Pending(a)
              /\ "WriterThread" \in gone[p] => caches'[a].flight = caches[a].flight
         /\ UNCHANGED <<config, class, cassandra, alive_objects, obj, loaded, call, ghosts, calls, fails>>
  <1> DEFINE s == Last(statics[p])
  <1>0. s \in Statics
    BY LastStatic
  <1>1. \A c \in WaitsFor(p, s) : c[1] = p
    BY <1>0, WaitsOwn
  <1>2. UNCHANGED <<config, class, cassandra, alive_objects, obj, loaded, call, ghosts, calls, fails>>
    BY DEF exit
  <1>3. CASE flush_at_exit(p, s)
    <2> DEFINE cs == {c \in WaitsFor(p, s) : caches[c].dirty # {}}
    <2>1. \/ "WriterThread" \notin gone[p] /\ caches' = flush_dirty_blocks(caches, cs)
          \/ "WriterThread" \in gone[p] /\ caches' = drop_dirty_blocks(caches, cs)
          \/ "WriterThread" \in gone[p] /\ UNCHANGED caches
      BY <1>3 DEF flush_at_exit
    <2>2. \A c \in cs : c[1] = p
      BY <1>1
    <2> HIDE DEF cs, s
    <2>5. CASE UNCHANGED caches
      BY <1>2, <2>5 DEF SameTables, SameTable, LocalTables, Pending
    <2>3. CASE "WriterThread" \in gone[p] /\ ~UNCHANGED caches
      <3>1. /\ SameTables
            /\ \A a \in DOMAIN caches :
                 caches'[a].flight = caches[a].flight /\ caches'[a].dirty \subseteq caches[a].dirty
        BY <2>1, <2>3, DropEffect
      <3>2. LocalTables(p)
        BY <2>1, <2>2, <2>3 DEF LocalTables, drop_dirty_blocks
      <3> QED BY <1>2, <3>1, <3>2 DEF Pending
    <2>4. CASE "WriterThread" \notin gone[p]
      <3>1. /\ SameTables
            /\ \A a \in DOMAIN caches :
                 /\ caches'[a].dirty \cup caches'[a].flight = Pending(a)
                 /\ caches[a].flight \subseteq caches'[a].flight
                 /\ caches'[a].dirty \subseteq caches[a].dirty
        BY <2>1, <2>4, FlushEffect
      <3>2. LocalTables(p)
        BY <2>1, <2>2, <2>4 DEF LocalTables, flush_dirty_blocks
      <3> QED BY <1>2, <2>4, <3>1, <3>2
    <2> QED BY <2>3, <2>4, <2>5
  <1>4. CASE destroyed(p, s)
    <2>1. UNCHANGED caches
      BY <1>4 DEF destroyed
    <2> QED BY <1>2, <2>1 DEF SameTables, SameTable, LocalTables, Pending
  <1> QED BY <1>3, <1>4 DEF exit

LEMMA LocalExit ==
  ASSUME TypeOK, AccessInv, ExitInv, NEW p \in Procs, main_returns(p) \/ exit(p)
  PROVE  Local(p)
  <1>1. CASE main_returns(p)
    BY <1>1 DEF main_returns, TypeOK, Local, LocalTables
  <1>2. CASE exit(p)
    <2>1. LocalTables(p) /\ UNCHANGED <<alive_objects, obj, loaded, call, ghosts>>
      BY <1>2, ExitEffect
    <2>2. CASE flush_at_exit(p, Last(statics[p]))
      BY <2>1, <2>2 DEF flush_at_exit, ghosts, Local
    <2>3. CASE destroyed(p, Last(statics[p]))
      BY <2>1, <2>3 DEF destroyed, ghosts, TypeOK, Local
    <2> QED BY <1>2, <2>2, <2>3 DEF exit
  <1> QED BY <1>1, <1>2

LEMMA GrowStep ==
  ASSUME TypeOK, CallInv, AccessInv, NumberInv, ExitInv, [Next]_vars
  PROVE  Grows
  <1> USE DEF cassandra, process, ghosts
  <1>1. ASSUME NEW o \in Objs, ActsOn(o) PROVE Grows
    <2>a. UNCHANGED caches => \A a \in DOMAIN caches : a \in DOMAIN caches' /\ SameTable(a)
      BY DEF SameTable
    <2>b. SameTables => \A a \in DOMAIN caches : a \in DOMAIN caches' /\ SameTable(a)
      BY DEF SameTables
    <2>1. ASSUME NEW n \in Names, make_persistent(o, n) PROVE Grows
      BY <2>1, <2>a DEF make_persistent, Grows
    <2>2. ASSUME NEW n \in Names, getByAlias(o, n) PROVE Grows
      BY <2>2, <2>a DEF getByAlias, Grows
    <2>3. CASE create_table(o)
      BY <2>3, <2>a DEF create_table, TypeOK, Grows
    <2>4. CASE create_keyspace(o)
      BY <2>4, <2>a DEF create_keyspace, Grows
    <2>5. CASE query_fails(o)
      BY <2>5, <2>a DEF query_fails, Throws, Grows
    <2>6. CASE access_fails(o)
      BY <2>6, <2>a DEF access_fails, Throws, Grows
    <2>7. CASE initialize_dataAcces(o)
      <3>1. \A a \in DOMAIN caches : a \in DOMAIN caches' /\ SameTable(a)
        <4>1. Fresh(Owner[o]) \notin DOMAIN caches
          BY FreshLemma
        <4>2. caches' = [a \in DOMAIN caches \cup Added(o) |->
                           IF a = Fresh(Owner[o]) THEN Table(o, WriterOf(o))
                           ELSE IF a \in DOMAIN caches THEN caches[a]
                           ELSE Table(o, StaticCache(Owner[o]))]
          BY <2>7, OpenStep
        <4>3. \A a \in DOMAIN caches : a \in DOMAIN caches' /\ caches'[a] = caches[a]
          BY <4>1, <4>2
        <4> QED BY <4>3 DEF SameTable
      <3> QED BY <2>7, <3>1 DEF initialize_dataAcces, Grows
    <2>8. CASE persist_metadata(o)
      <3>1. class[o] \in Classes /\ None \notin Classes
        BY DEF TypeOK
      <3>2. istorage' = [istorage EXCEPT ![obj[o].sid] = class[o]]
        BY <2>8 DEF persist_metadata, registerNumpy
      <3>3. \A n \in Names : istorage[n] # None => istorage'[n] # None
        BY <3>1, <3>2 DEF TypeOK
      <3> QED BY <2>8, <2>a, <3>3 DEF persist_metadata, Grows
    <2>9. CASE persist_data(o)
      <3>2. obj[o].access # None /\ {<<obj[o].sid, b>> : b \in Blocks} \in RowSets
        BY <2>9, DataStep
      <3>4. SameTables \/ UNCHANGED caches
        BY <2>9, <3>2, WriteEffect DEF persist_data, Wrote
      <3> QED BY <2>9, <2>a, <2>b, <3>4 DEF persist_data, Grows
    <2>10. CASE read_numpy(o)
      BY <2>10, <2>a DEF read_numpy, Grows
    <2>11. CASE setItem(o) \/ setAttr(o)
      <3>1. PICK row \in (Names \cup {None}) \X (Blocks \cup {0}) : {row} \in RowSets /\ Writes(o, row)
        BY <2>11, SetStep
      <3>2. obj[o].access # None
        BY <2>11, SetStep
      <3>3. SameTables
        BY <3>1, <3>2, WriteEffect DEF Writes, Wrote
      <3> QED BY <2>b, <3>1, <3>3 DEF Writes, Grows
    <2>12. CASE sync(o)
      <3>1. SameTables
        BY <2>12, FlushEffect DEF sync
      <3> QED BY <2>b, <2>12, <3>1 DEF sync, Grows
    <2>13. CASE sync_ends(o)
      BY <2>13, <2>a DEF sync_ends, Grows
    <2>14. CASE destroy(o)
      BY <2>14, <2>a DEF destroy, Grows
    <2>15. ASSUME NEW src \in Objs, assign(o, src) PROVE Grows
      BY <2>15, <2>a DEF assign, Grows
    <2> QED
      BY <1>1, <2>1, <2>2, <2>3, <2>4, <2>5, <2>6, <2>7, <2>8, <2>9, <2>10, <2>11, <2>12, <2>13,
         <2>14, <2>15 DEF ActsOn
  <1>2. ASSUME NEW c \in DOMAIN caches, applied(c) PROVE Grows
    <2>1. SameTables
      BY <1>2, AppliedEffect
    <2> QED BY <1>2, <2>1 DEF applied, SameTables, Grows
  <1>3. ASSUME NEW p \in Procs, main_returns(p) PROVE Grows
    BY <1>3 DEF main_returns, Grows, SameTable
  <1>4. ASSUME NEW p \in Procs, exit(p) PROVE Grows
    <2>1. SameTables /\ UNCHANGED <<config, class, cassandra, ghosts>>
      BY <1>4, ExitEffect
    <2> QED BY <2>1 DEF SameTables, Grows
  <1>5. CASE UNCHANGED vars
    BY <1>5 DEF vars, Grows, SameTable
  <1> QED BY <1>1, <1>2, <1>3, <1>4, <1>5, NextCases


-----------------------------------------------------------------------------
(* Calls and variables. *)

LEMMA CallFrame ==
  ASSUME TypeOK, CallInv, Grows, NEW p \in Procs, Local(p)
  PROVE  /\ \A q \in Procs \ {p} : CallOK(q)'
         /\ \A x \in Objs : Owner[x] # p => ObjOK(x)'
  <1>1. ASSUME NEW q \in Procs \ {p} PROVE CallOK(q)'
    <2>1. call[q] \in CallRecord /\ CallOK(q) /\ call'[q] = call[q] /\ phase'[q] = phase[q]
      BY TypeParts DEF CallInv, Local
    <2>2. SUFFICES ASSUME call[q] # Idle PROVE CallOK(q)'
      BY <2>1 DEF CallOK, Idle
    <2>3. PICK x \in Objs : x = call[q].obj /\ Owner[x] = q
      BY <2>1, <2>2 DEF CallRecord, CallOK
    <2>4. obj'[x] = obj[x] /\ (x \in returned' <=> x \in returned)
      BY <2>3 DEF Local
    <2>5. kind(x)' = kind(x)
      BY DEF kind, Grows
    <2>6. call'[q].obj = x /\ (kind(call[q].obj)' = kind(call[q].obj))
      BY <2>1, <2>3, <2>5 DEF kind
    <2> QED BY <2>1, <2>2, <2>3, <2>4, <2>6 DEF CallOK
  <1>2. ASSUME NEW x \in Objs, Owner[x] # p PROVE ObjOK(x)'
    <2>1. obj'[x] = obj[x] /\ (x \in returned' <=> x \in returned) /\ ObjOK(x)
      BY <1>2 DEF Local, CallInv
    <2>2. Attrs(x)' <=> Attrs(x)
      BY <2>1 DEF Attrs, Grows, assignTableName
    <2> QED BY <2>1, <2>2 DEF ObjOK
  <1> QED BY <1>1, <1>2

\* A step that only ends the call or takes it to the next query.
LEMMA CallGoes ==
  ASSUME TypeOK, CallInv, Grows, NEW o \in Objs, Local(Owner[o]), UNCHANGED <<obj, phase>>,
         NEW s \in Steps, At(o, s), returned \subseteq returned', returned' \subseteq returned \cup {o},
         \/ Returns(o)
         \/ \E t \in Steps : /\ Goes(o, t)
                             /\ t \in {"data", "metadata", "read", "sync"} => obj[o].access # None
                             /\ t \notin {"read", "sync"},
         o \in returned' => o \in returned \/ obj[o].access # None
  PROVE  CallInv'
  <1>1. /\ call \in [Procs -> CallRecord] /\ Owner[o] \in Procs
        /\ call[Owner[o]] \in [at : Steps, obj : Objs] /\ call[Owner[o]].obj = o
        /\ phase[Owner[o]] = "running" /\ obj[o].persistent /\ CallOK(Owner[o])
    BY StepTypes, TypeParts DEF CallInv
  <1>2. CallOK(Owner[o])'
    <2>1. CASE Returns(o)
      BY <2>1, <1>1, ReturnsEffect DEF CallOK, Idle
    <2>2. ASSUME NEW t \in Steps, Goes(o, t), t \notin {"read", "sync"},
                 t \in {"data", "metadata", "read", "sync"} => obj[o].access # None
          PROVE  CallOK(Owner[o])'
      <3>1. call'[Owner[o]] = [at |-> t, obj |-> o]
        BY <2>2, <1>1, GoesEffect
      <3> QED BY <1>1, <2>2, <3>1 DEF CallOK
    <2> QED BY <2>1, <2>2
  <1>3. ASSUME NEW x \in Objs PROVE ObjOK(x)'
    <2>1. ObjOK(x) /\ (Attrs(x)' <=> Attrs(x))
      BY DEF CallInv, Attrs, Grows, assignTableName
    <2>2. x \in returned' => x \in returned \/ (x = o /\ obj[o].access # None)
      OBVIOUS
    <2> QED BY <1>1, <2>1, <2>2 DEF ObjOK
  <1> QED BY <1>2, <1>3, CallFrame, <1>1 DEF CallInv


LEMMA CallSame ==
  ASSUME CallInv, Grows, UNCHANGED <<obj, call, returned>>,
         \A p \in Procs : call[p] # Idle => phase'[p] = phase[p]
  PROVE  CallInv'
  <1>1. ASSUME NEW x \in Objs PROVE ObjOK(x)'
    <2>1. ObjOK(x) /\ (Attrs(x)' <=> Attrs(x))
      BY DEF CallInv, Attrs, Grows, assignTableName
    <2> QED BY <2>1 DEF ObjOK
  <1>2. ASSUME NEW q \in Procs PROVE CallOK(q)'
    <2>1. CallOK(q) /\ (kind(call[q].obj)' = kind(call[q].obj)) /\ (call[q] # Idle => phase'[q] = phase[q])
      BY DEF CallInv, Grows, kind
    <2> QED BY <2>1 DEF CallOK, Idle
  <1> QED BY <1>1, <1>2 DEF CallInv

LEMMA CallStep ==
  ASSUME TypeOK, CallInv, AccessInv, NumberInv, ExitInv, [Next]_vars
  PROVE  CallInv'
  <1> USE DEF cassandra, process, ghosts
  <1>g. Grows
    BY GrowStep
  <1>1. ASSUME NEW o \in Objs, ActsOn(o) PROVE CallInv'
    <2>0. Local(Owner[o]) /\ Owner[o] \in Procs /\ class[o] \in Classes
      BY <1>1, LocalAction DEF TypeOK
    <2>a. /\ \A q \in Procs \ {Owner[o]} : CallOK(q)'
          /\ \A x \in Objs : Owner[x] # Owner[o] => ObjOK(x)'
      BY <1>g, <2>0, CallFrame
    <2>c. ASSUME CallOK(Owner[o])', \A x \in Objs : Owner[x] = Owner[o] => ObjOK(x)' PROVE CallInv'
      BY <2>a, <2>c DEF CallInv
    <2>d. ASSUME NEW x \in Objs, obj'[x] = obj[x], x \in returned' => x \in returned PROVE ObjOK(x)'
      <3>1. ObjOK(x) /\ (Attrs(x)' <=> Attrs(x))
        BY <1>g, <2>d DEF CallInv, Attrs, Grows, assignTableName
      <3> QED BY <2>d, <3>1 DEF ObjOK
    <2>e. /\ obj \in [Objs -> ObjRecord] /\ call \in [Procs -> CallRecord]
      BY TypeParts
    <2>f. {"create", "access", "metadata", "data", "open", "read", "sync"} = Steps
      BY DEF Steps
    <2>g. Starts(Owner[o]) => phase[Owner[o]] = "running" /\ call[Owner[o]] = Idle
      BY DEF Starts
    <2>1. ASSUME NEW n \in Names, init_persistent_attributes(o, n), phase'[Owner[o]] = "running",
                 NEW s \in {"create", "open"},
                 call' = [call EXCEPT ![Owner[o]] = [at |-> s, obj |-> o]], returned' = returned \ {o}
          PROVE  CallInv'
      <3>1. /\ \A x \in Objs : x # o => obj'[x] = obj[x]
            /\ obj'[o].persistent /\ obj'[o].sid = n /\ obj'[o].table = assignTableName(class[o], n)
        BY <2>0, <2>1, <2>e, AttrsEffect
      <3>2. call'[Owner[o]] = [at |-> s, obj |-> o]
        BY <2>0, <2>1, <2>e
      <3>3. CallOK(Owner[o])'
        BY <2>1, <3>1, <3>2 DEF CallOK
      <3>4. Attrs(o)'
        BY <1>g, <3>1 DEF Attrs, Grows, assignTableName
      <3>5. ObjOK(o)'
        BY <2>1, <3>4 DEF ObjOK
      <3>6. \A x \in Objs : x # o => ObjOK(x)'
        BY <2>1, <2>d, <3>1
      <3> QED BY <2>c, <3>3, <3>5, <3>6
    <2>2. ASSUME NEW n \in Names, make_persistent(o, n) PROVE CallInv'
      BY <2>1, <2>2, <2>g DEF make_persistent
    <2>3. ASSUME NEW n \in Names, getByAlias(o, n) PROVE CallInv'
      <3>1. CASE UNCHANGED <<obj, call>>
        <4>1. CallOK(Owner[o])'
          BY <2>3, <2>g, <3>1 DEF getByAlias, CallOK, Idle
        <4>2. \A x \in Objs : ObjOK(x)'
          BY <2>3, <2>d, <3>1 DEF getByAlias
        <4> QED BY <2>c, <4>1, <4>2
      <3> QED BY <2>1, <2>3, <2>g, <3>1 DEF getByAlias
    <2>4. CASE create_table(o)
      BY <1>g, <2>0, <2>4, <2>f, CallGoes DEF create_table
    <2>5. CASE create_keyspace(o) \/ setItem(o) \/ setAttr(o)
      BY <1>g, <2>5, CallSame DEF create_keyspace, setItem, setAttr, Writes
    <2>6. CASE query_fails(o)
      BY <1>g, <2>0, <2>6, <2>f, CallGoes DEF query_fails, Throws
    <2>7. CASE access_fails(o)
      BY <1>g, <2>0, <2>7, <2>f, CallGoes DEF access_fails, Throws
    <2>8. CASE persist_metadata(o)
      <3>1. At(o, "metadata") /\ obj[o].access # None
        BY <2>8, <2>f, StepTypes, <2>0 DEF persist_metadata, CallInv, CallOK
      <3> QED BY <1>g, <2>0, <2>8, <2>f, <3>1, CallGoes DEF persist_metadata
    <2>9. CASE persist_data(o)
      <3>1. obj[o].access # None
        BY <2>9, DataStep
      <3> QED BY <1>g, <2>0, <2>9, <2>f, <3>1, CallGoes DEF persist_data
    <2>10. CASE read_numpy(o)
      <3>1. At(o, "read") /\ obj[o].access # None
        BY <2>10, <2>f, StepTypes, <2>0 DEF read_numpy, CallInv, CallOK
      <3>2. returned \subseteq returned' /\ returned' \subseteq returned \cup {o} /\ Returns(o) /\ UNCHANGED <<obj, phase>>
        BY <2>10 DEF read_numpy
      <3> QED BY <1>g, <2>0, <2>f, <3>1, <3>2, CallGoes
    <2>11. CASE sync(o)
      <3>1. call'[Owner[o]] = [at |-> "sync", obj |-> o] /\ o \in returned' /\ UNCHANGED <<obj, phase, returned>>
        BY <2>0, <2>11, <2>e DEF sync
      <3>2. ObjOK(o)
        BY DEF CallInv
      <3>3. CallOK(Owner[o])'
        BY <2>11, <2>g, <3>1, <3>2 DEF CallOK, ObjOK, sync
      <3> QED BY <2>c, <2>d, <3>1, <3>3
    <2>12. CASE sync_ends(o)
      BY <1>g, <2>0, <2>12, <2>f, CallGoes DEF sync_ends
    <2>13. CASE destroy(o)
      <3>1. CallOK(Owner[o])'
        BY <2>13, <2>g DEF destroy, CallOK, Idle
      <3>2. obj'[o] = Volatile /\ (\A x \in Objs : x # o => obj'[x] = obj[x]) /\ returned' = returned \ {o}
        BY <2>13, <2>e DEF destroy
      <3>3. ObjOK(o)'
        BY <3>2 DEF ObjOK, Volatile
      <3> QED BY <2>c, <2>d, <3>1, <3>2, <3>3
    <2>14. ASSUME NEW src \in Objs, assign(o, src) PROVE CallInv'
      <3>1. CallOK(Owner[o])'
        BY <2>14, <2>g DEF assign, CallOK, Idle
      <3>2. /\ obj'[o] = obj[src] /\ class[o] = class[src] /\ (\A x \in Objs : x # o => obj'[x] = obj[x])
            /\ o \in returned' => src \in returned
            /\ \A x \in Objs : x # o /\ x \in returned' => x \in returned
        BY <2>14, <2>e DEF assign
      <3>3. ObjOK(o)'
        <4>1. ObjOK(src)
          BY DEF CallInv
        <4>2. Attrs(o)' <=> Attrs(src)
          BY <1>g, <3>2 DEF Attrs, Grows, assignTableName
        <4> QED BY <3>2, <4>1, <4>2 DEF ObjOK
      <3> QED BY <2>c, <2>d, <3>1, <3>2, <3>3
    <2>15. CASE initialize_dataAcces(o)
      <3>1. /\ At(o, "access") \/ At(o, "open")
            /\ obj' = [obj EXCEPT ![o].access = Fresh(Owner[o])] /\ Attrs(o)
            /\ call[Owner[o]] \in [at : Steps, obj : Objs]
        BY <2>15, OpenStep
      <3>2. /\ call[Owner[o]].obj = o /\ phase[Owner[o]] = "running" /\ obj[o].persistent
        BY <2>f, <3>1, StepTypes
      <3>3. Fresh(Owner[o]) # None
        BY <2>0, FreshLemma
      <3>4. /\ obj'[o].persistent /\ obj'[o].sid = obj[o].sid /\ obj'[o].table = obj[o].table
            /\ obj'[o].access # None /\ \A x \in Objs : x # o => obj'[x] = obj[x]
        <4> DEFINE new == [obj[o] EXCEPT !.access = Fresh(Owner[o])]
        <4>1. obj' = [obj EXCEPT ![o] = new]
          BY <3>1
        <4>2. new.persistent = obj[o].persistent /\ new.sid = obj[o].sid /\ new.table = obj[o].table /\ new.access # None
          BY <2>e, <3>3 DEF ObjRecord
        <4> HIDE DEF new
        <4>3. obj'[o] = new /\ \A x \in Objs : x # o => obj'[x] = obj[x]
          BY <2>e, <4>1
        <4> QED BY <3>2, <4>2, <4>3
      <3>5. ObjOK(o)'
        <4>1. Attrs(o)'
          BY <1>g, <3>1, <3>4 DEF Attrs, Grows, assignTableName
        <4> QED BY <3>4, <4>1 DEF ObjOK
      <3>6. CallOK(Owner[o])'
        <4>1. UNCHANGED phase
          BY <2>15 DEF initialize_dataAcces
        <4>2. CASE Returns(o)
          BY <4>2, <2>e, ReturnsEffect DEF CallOK, Idle
        <4>3. CASE Goes(o, "metadata")
          <5>1. call'[Owner[o]] = [at |-> "metadata", obj |-> o]
            BY <4>3, <2>e, <2>f, <3>1, <3>2, GoesEffect
          <5> QED BY <3>2, <3>4, <4>1, <5>1 DEF CallOK
        <4>4. CASE Goes(o, "read") /\ kind(o) = "numpy"
          <5>1. call'[Owner[o]] = [at |-> "read", obj |-> o]
            BY <4>4, <2>e, <2>f, <3>1, <3>2, GoesEffect
          <5>2. kind(o)' = kind(o)
            BY <1>g DEF Grows, kind
          <5>3. kind(call[Owner[o]].obj)' = "numpy"
            BY <4>4, <5>1, <5>2 DEF kind
          <5> QED BY <3>2, <3>4, <4>1, <5>1, <5>3 DEF CallOK
        <4> QED BY <2>15, <4>2, <4>3, <4>4 DEF initialize_dataAcces
      <3>7. \A x \in Objs : x # o => ObjOK(x)'
        <4>1. \A x \in Objs : x # o /\ x \in returned' => x \in returned
          BY <2>15 DEF initialize_dataAcces
        <4> QED BY <2>d, <3>4, <4>1
      <3> QED BY <2>c, <3>5, <3>6, <3>7
    <2> QED
      BY <1>1, <2>2, <2>3, <2>4, <2>5, <2>6, <2>7, <2>8, <2>9, <2>10, <2>11, <2>12, <2>13,
         <2>14, <2>15 DEF ActsOn
  <1>2. ASSUME NEW c \in DOMAIN caches, applied(c) PROVE CallInv'
    BY <1>g, <1>2, CallSame DEF applied
  <1>3. ASSUME NEW p \in Procs, main_returns(p) PROVE CallInv'
    <2>1. /\ \A q \in Procs \ {p} : CallOK(q)'
          /\ \A x \in Objs : Owner[x] # p => ObjOK(x)'
      BY <1>g, <1>3, LocalExit, CallFrame
    <2>2. CallOK(p)'
      BY <1>3 DEF main_returns, CallOK, Idle
    <2>3. ASSUME NEW x \in Objs, Owner[x] = p PROVE ObjOK(x)'
      <3>1. obj'[x] = Volatile /\ x \notin returned'
        BY <1>3, <2>3 DEF main_returns
      <3> QED BY <3>1 DEF ObjOK, Volatile
    <2> QED BY <2>1, <2>2, <2>3 DEF CallInv
  <1>4. ASSUME NEW p \in Procs, exit(p) PROVE CallInv'
    <2>1. UNCHANGED <<obj, call, ghosts>> /\ phase[p] = "exit"
      BY <1>4, ExitEffect, LastStatic
    <2>2. \A q \in Procs : call[q] # Idle => phase'[q] = phase[q]
      <3>1. Local(p)
        BY <1>4, LocalExit
      <3>2. call[p] = Idle
        BY <2>1 DEF CallInv, CallOK
      <3> QED BY <3>1, <3>2 DEF Local
    <2> QED BY <1>g, <2>1, <2>2, CallSame
  <1>5. CASE UNCHANGED vars
    BY <1>g, <1>5, CallSame DEF vars
  <1> QED BY <1>1, <1>2, <1>3, <1>4, <1>5, NextCases


-----------------------------------------------------------------------------
(* Accesses. *)

LEMMA AccessFrame ==
  ASSUME TypeOK, AccessInv, Grows, NEW p \in Procs, Local(p)
  PROVE  /\ \A a \in DOMAIN caches : a[1] # p => TableOK(a)'
         /\ \A x \in Objs : Owner[x] # p => UserOK(x)'
         /\ \A q \in Procs \ {p} : ListOK(q)'
  <1>1. ASSUME NEW a \in DOMAIN caches, a[1] # p PROVE TableOK(a)'
    <2>1. TableOK(a) /\ caches'[a] = caches[a]
      BY <1>1 DEF AccessInv, Local, LocalTables
    <2> QED BY <2>1 DEF TableOK, Grows, Pending, StaticCache
  <1>2. ASSUME NEW x \in Objs, Owner[x] # p PROVE UserOK(x)'
    BY <1>2 DEF AccessInv, Local, UserOK
  <1>3. ASSUME NEW q \in Procs \ {p} PROVE ListOK(q)'
    BY <1>3 DEF AccessInv, Local, ListOK
  <1> QED BY <1>1, <1>2, <1>3

\* The tables are the same, and what is pending stays with the writers.
LEMMA AccessSame ==
  ASSUME TypeOK, AccessInv, Grows, SameTables,
         \A a \in DOMAIN caches : caches[a].cache # a /\ Pending(a) = {} =>
           caches'[a].dirty = {} /\ caches'[a].flight = {},
         \A a \in DOMAIN caches : ~caches[a].lazy /\ caches[a].dirty = {} => caches'[a].dirty = {},
         \A x \in Objs : obj'[x].access # None => UserOK(x)',
         UNCHANGED alive_objects
  PROVE  AccessInv'
  <1>1. ASSUME NEW a \in DOMAIN caches PROVE TableOK(a)'
    <2>1. TableOK(a) /\ SameTable(a)
      BY DEF AccessInv, SameTables
    <2> QED BY <2>1 DEF TableOK, SameTable, Grows, Pending, StaticCache
  <1>2. \A x \in Objs : UserOK(x)'
    BY DEF UserOK
  <1>3. \A q \in Procs : ListOK(q)'
    BY DEF AccessInv, ListOK
  <1> QED BY <1>1, <1>2, <1>3 DEF AccessInv, SameTables


LEMMA AccessWrite ==
  ASSUME TypeOK, AccessInv, Grows, NEW o \in Objs, obj[o].access # None, NEW rows \in RowSets,
         write_to_cassandra(o, rows), UNCHANGED <<obj, alive_objects>>
  PROVE  AccessInv'
  <1> DEFINE c == WriteCache(obj[o].access)
  <1>2. c \in DOMAIN caches /\ caches[c].cache = c
    BY OwnWriter
  <1>3. /\ SameTables /\ \A a \in DOMAIN caches : a # c => caches'[a] = caches[a]
        /\ ~caches[c].lazy => caches'[c].dirty = {}
    <2>1. Wrote(o, rows, c)
      BY WriteEffect
    <2> QED BY <2>1 DEF Wrote
  <1> HIDE DEF c
  <1>4. \A a \in DOMAIN caches :
          /\ caches[a].cache # a /\ Pending(a) = {} => caches'[a].dirty = {} /\ caches'[a].flight = {}
          /\ ~caches[a].lazy /\ caches[a].dirty = {} => caches'[a].dirty = {}
    BY <1>2, <1>3 DEF Pending
  <1>5. \A x \in Objs : UserOK(x)'
    BY DEF AccessInv, UserOK
  <1> QED BY <1>3, <1>4, <1>5, AccessSame

LEMMA AccessOpen ==
  ASSUME TypeOK, CallInv, AccessInv, NumberInv, Grows, NEW o \in Objs, initialize_dataAcces(o)
  PROVE  AccessInv'
  <1> DEFINE p == Owner[o]
             f == Fresh(Owner[o])
             st == StaticCache(Owner[o])
  <1>1. /\ caches' = [a \in DOMAIN caches \cup Added(o) |->
                        IF a = f THEN Table(o, WriterOf(o))
                        ELSE IF a \in DOMAIN caches THEN caches[a] ELSE Table(o, st)]
        /\ obj' = [obj EXCEPT ![o].access = f]
        /\ Added(o) \cap DOMAIN caches = {} /\ Attrs(o) /\ p \in Procs
    BY OpenStep
  <1>2. f \notin DOMAIN caches /\ f[1] = p /\ f[2] # 0 /\ f # None /\ f # st
    BY <1>1, FreshLemma
  <1>3. st[1] = p /\ st[2] = 0
    BY DEF StaticCache
  <1>a. StaticCache(p) = st /\ f = Fresh(p)
    OBVIOUS
  <1>4. kind(o) = "numpy" /\ config.single_table => obj[o].table = SINGLE_TABLE
    BY <1>1 DEF Attrs, assignTableName, kind
  <1>5. /\ WriterOf(o) # f => kind(o) = "numpy" /\ config.single_table /\ WriterOf(o) = st
        /\ \A a \in Added(o) : a = f \/ (a = st /\ kind(o) = "numpy" /\ config.single_table)
    BY DEF WriterOf, Added, NeedsStatic
  <1>6. ASSUME NEW c
        PROVE  /\ Table(o, c).cache = c /\ Table(o, c).table = obj[o].table
               /\ Table(o, c).dirty = {} /\ Table(o, c).flight = {}
               /\ ~config.lazy => ~Table(o, c).lazy
    BY DEF Table, has_lazy_writes
  <1>7. PICK ff, ss, pp : ff = f /\ ss = st /\ pp = p
    OBVIOUS
  <1>8. ASSUME NEW a \in DOMAIN caches PROVE TableOK(a)'
    <2>1. caches'[a] = caches[a] /\ TableOK(a)
      BY <1>1, <1>2 DEF AccessInv
    <2> QED BY <2>1 DEF TableOK, Grows, Pending, StaticCache
  <1>9. TableOK(ff)'
    <2>1. caches'[ff] = Table(o, WriterOf(o))
      BY <1>1, <1>7 DEF Added
    <2>2. /\ caches'[ff].cache # ff => caches'[ff].cache = StaticCache(ff[1]) /\ caches'[ff].table = SINGLE_TABLE
          /\ caches'[ff].dirty = {} /\ caches'[ff].flight = {} /\ (~config.lazy => ~caches'[ff].lazy)
      BY <1>2, <1>4, <1>5, <1>6, <1>7, <1>a, <2>1
    <2>3. ff[2] # 0
      BY <1>2, <1>7
    <2> QED BY <2>2, <2>3 DEF TableOK, Pending, Grows, StaticCache
  <1>10. ASSUME ss \in Added(o) PROVE TableOK(ss)'
    <2>1. caches'[ss] = Table(o, ss)
      BY <1>1, <1>2, <1>7, <1>10
    <2>2. /\ caches'[ss].cache = ss /\ caches'[ss].table = SINGLE_TABLE
          /\ caches'[ss].dirty = {} /\ caches'[ss].flight = {} /\ (~config.lazy => ~caches'[ss].lazy)
      BY <1>2, <1>4, <1>5, <1>6, <1>7, <1>10, <2>1
    <2> QED BY <2>2 DEF TableOK, Pending, Grows
  <1>11. \A a \in DOMAIN caches' : TableOK(a)'
    <2>1. \A a \in DOMAIN caches' : a \in DOMAIN caches \/ a = ff \/ (a = ss /\ ss \in Added(o))
      BY <1>1, <1>5, <1>7
    <2> QED BY <1>8, <1>9, <1>10, <2>1
  <1>12. \A x \in Objs : UserOK(x)'
    <2>1. obj'[o].access = ff /\ \A x \in Objs : x # o => obj'[x] = obj[x]
      BY <1>1, <1>7 DEF TypeOK
    <2>2. ff[1] = Owner[o] /\ ff[2] # 0
      BY <1>2, <1>7
    <2> QED BY <2>1, <2>2 DEF AccessInv, UserOK
  <1>13. \A q \in Procs : ListOK(q)'
    <2>1. PICK kept \in SUBSET (alive_objects[p] \cup {f}) : alive_objects' = [alive_objects EXCEPT ![p] = kept]
      BY DEF initialize_dataAcces, registerObject, Registered, deallocateObjects
    <2>2. \A a \in kept : a[1] = p /\ a[2] # 0
      BY <1>1, <1>2, <2>1 DEF AccessInv, ListOK
    <2>3. \A a \in kept : a[1] = pp /\ a[2] # 0
      BY <1>7, <2>2
    <2>4. alive_objects'[pp] = kept /\ \A q \in Procs : q # pp => alive_objects'[q] = alive_objects[q]
      BY <1>1, <1>7, <2>1 DEF TypeOK
    <2> QED BY <2>3, <2>4 DEF AccessInv, ListOK
  <1> QED BY <1>11, <1>12, <1>13 DEF AccessInv

LEMMA AccessStep ==
  ASSUME TypeOK, CallInv, AccessInv, NumberInv, ExitInv, [Next]_vars
  PROVE  AccessInv'
  <1> USE DEF cassandra, process, ghosts
  <1>g. Grows
    BY GrowStep
  <1>a. ASSUME UNCHANGED <<caches, alive_objects>>, \A x \in Objs : UserOK(x)' PROVE AccessInv'
    <2>1. SameTables
      BY <1>a DEF SameTables, SameTable
    <2>2. \A a \in DOMAIN caches :
            /\ caches[a].cache # a /\ Pending(a) = {} => caches'[a].dirty = {} /\ caches'[a].flight = {}
            /\ ~caches[a].lazy /\ caches[a].dirty = {} => caches'[a].dirty = {}
      BY <1>a DEF Pending
    <2> QED BY <1>a, <1>g, <2>1, <2>2, AccessSame
  <1>b. UNCHANGED obj => \A x \in Objs : UserOK(x)'
    BY DEF AccessInv, UserOK
  <1>c. obj \in [Objs -> ObjRecord] /\ \A x \in Objs : UserOK(x)
    BY TypeParts DEF AccessInv
  <1>1. ASSUME NEW o \in Objs, ActsOn(o) PROVE AccessInv'
    <2>0. Owner[o] \in Procs /\ class[o] \in Classes
      BY DEF TypeOK
    <2>1. ASSUME NEW n \in Names, init_persistent_attributes(o, n) PROVE \A x \in Objs : UserOK(x)'
      <3>1. obj'[o].access = obj[o].access /\ \A x \in Objs : x # o => obj'[x] = obj[x]
        BY <1>c, <2>0, <2>1, AttrsEffect
      <3> QED BY <1>c, <3>1 DEF UserOK
    <2>2. ASSUME NEW n \in Names, make_persistent(o, n) PROVE AccessInv'
      BY <1>a, <2>1, <2>2 DEF make_persistent
    <2>3. ASSUME NEW n \in Names, getByAlias(o, n) PROVE AccessInv'
      BY <1>a, <1>b, <2>1, <2>3 DEF getByAlias
    <2>4. CASE create_table(o) \/ create_keyspace(o) \/ persist_metadata(o) \/ read_numpy(o) \/ sync_ends(o)
      BY <1>a, <1>b, <2>4 DEF create_table, create_keyspace, persist_metadata, read_numpy, sync_ends
    <2>5. CASE query_fails(o) \/ access_fails(o)
      BY <1>a, <1>b, <2>5 DEF query_fails, access_fails, Throws
    <2>6. CASE initialize_dataAcces(o)
      BY <1>g, <2>6, AccessOpen
    <2>7. CASE persist_data(o)
      <3>1. CASE UNCHANGED caches
        BY <1>a, <1>b, <2>7, <3>1 DEF persist_data
      <3>2. CASE write_to_cassandra(o, {<<obj[o].sid, b>> : b \in Blocks})
        BY <1>g, <2>7, <3>2, DataStep, AccessWrite DEF persist_data
      <3> QED BY <2>7, <3>1, <3>2 DEF persist_data
    <2>8. CASE setItem(o) \/ setAttr(o)
      BY <1>g, <2>8, SetStep, AccessWrite DEF Writes
    <2>9. CASE sync(o)
      <3>1. /\ SameTables
            /\ \A a \in DOMAIN caches :
                 /\ caches'[a].dirty \cup caches'[a].flight = Pending(a)
                 /\ caches'[a].dirty \subseteq caches[a].dirty
        BY <2>9, FlushEffect DEF sync
      <3>2. UNCHANGED <<obj, alive_objects>>
        BY <2>9 DEF sync
      <3> QED BY <1>b, <1>g, <3>1, <3>2, AccessSame
    <2>10. CASE destroy(o)
      <3>1. obj'[o] = Volatile /\ \A x \in Objs : x # o => obj'[x] = obj[x]
        BY <1>c, <2>10 DEF destroy
      <3>2. \A x \in Objs : UserOK(x)'
        BY <1>c, <3>1 DEF UserOK, Volatile
      <3> QED BY <1>a, <2>10, <3>2 DEF destroy
    <2>11. ASSUME NEW src \in Objs, assign(o, src) PROVE AccessInv'
      <3>1. obj'[o] = obj[src] /\ Owner[o] = Owner[src] /\ \A x \in Objs : x # o => obj'[x] = obj[x]
        BY <1>c, <2>11 DEF assign
      <3>2. \A x \in Objs : UserOK(x)'
        BY <1>c, <3>1 DEF UserOK
      <3> QED BY <1>a, <2>11, <3>2 DEF assign
    <2> QED
      BY <1>1, <2>2, <2>3, <2>4, <2>5, <2>6, <2>7, <2>8, <2>9, <2>10, <2>11 DEF ActsOn
  <1>2. ASSUME NEW c \in DOMAIN caches, applied(c) PROVE AccessInv'
    <2>1. /\ SameTables /\ \A a \in DOMAIN caches : a # c => caches'[a] = caches[a]
          /\ caches'[c].dirty = caches[c].dirty
          /\ \E w \in caches[c].flight : caches'[c].flight = caches[c].flight \ {w}
      BY <1>2, AppliedEffect
    <2>2. UNCHANGED <<obj, alive_objects>>
      BY <1>2 DEF applied
    <2>3. \A a \in DOMAIN caches :
            /\ caches[a].cache # a /\ Pending(a) = {} => caches'[a].dirty = {} /\ caches'[a].flight = {}
            /\ ~caches[a].lazy /\ caches[a].dirty = {} => caches'[a].dirty = {}
      BY <2>1 DEF Pending
    <2> QED BY <1>b, <1>g, <2>1, <2>2, <2>3, AccessSame
  <1>3. ASSUME NEW p \in Procs, main_returns(p) PROVE AccessInv'
    <2>1. \A x \in Objs : obj'[x] = Volatile \/ obj'[x] = obj[x]
      BY <1>3 DEF main_returns
    <2>2. \A x \in Objs : UserOK(x)'
      BY <1>c, <2>1 DEF UserOK, Volatile
    <2> QED BY <1>a, <1>3, <2>2 DEF main_returns
  <1>4. ASSUME NEW p \in Procs, exit(p) PROVE AccessInv'
    <2>1. /\ SameTables /\ UNCHANGED <<obj, alive_objects>>
          /\ \A a \in DOMAIN caches :
               /\ caches'[a].dirty \subseteq caches[a].dirty
               /\ caches'[a].dirty \cup caches'[a].flight \subseteq Pending(a)
      BY <1>4, ExitEffect
    <2>2. \A a \in DOMAIN caches :
            /\ caches[a].cache # a /\ Pending(a) = {} => caches'[a].dirty = {} /\ caches'[a].flight = {}
            /\ ~caches[a].lazy /\ caches[a].dirty = {} => caches'[a].dirty = {}
      BY <2>1
    <2> QED BY <1>b, <1>g, <2>1, <2>2, AccessSame
  <1>5. CASE UNCHANGED vars
    BY <1>a, <1>b, <1>5 DEF vars
  <1> QED BY <1>1, <1>2, <1>3, <1>4, <1>5, NextCases

LEMMA DomainStep ==
  ASSUME TypeOK, CallInv, AccessInv, NumberInv, ExitInv, [Next]_vars
  PROVE  \/ DOMAIN caches' = DOMAIN caches
         \/ \E o \in Objs : initialize_dataAcces(o)
  <1> USE DEF cassandra, process, ghosts
  <1>1. ASSUME NEW o \in Objs, ActsOn(o), ~initialize_dataAcces(o) PROVE DOMAIN caches' = DOMAIN caches
    <2>1. CASE persist_data(o)
      <3>1. UNCHANGED caches \/ SameTables
        BY <2>1, DataStep, WriteEffect DEF persist_data, Wrote
      <3> QED BY <3>1 DEF SameTables
    <2>2. CASE setItem(o) \/ setAttr(o)
      <3>1. SameTables
        BY <2>2, SetStep, WriteEffect DEF Writes, Wrote
      <3> QED BY <3>1 DEF SameTables
    <2>3. CASE sync(o)
      BY <2>3 DEF sync, flush_dirty_blocks
    <2> QED
      BY <1>1, <2>1, <2>2, <2>3 DEF ActsOn, make_persistent, getByAlias, create_table,
         create_keyspace, query_fails, access_fails, Throws, persist_metadata, read_numpy,
         sync_ends, destroy, assign
  <1>2. ASSUME NEW c \in DOMAIN caches, applied(c) PROVE DOMAIN caches' = DOMAIN caches
    BY <1>2, AppliedEffect DEF SameTables
  <1>3. ASSUME NEW p \in Procs, main_returns(p) \/ exit(p) PROVE DOMAIN caches' = DOMAIN caches
    <2>1. CASE exit(p)
      BY <2>1, ExitEffect DEF SameTables
    <2> QED BY <1>3, <2>1 DEF main_returns
  <1>4. CASE UNCHANGED vars
    BY <1>4 DEF vars
  <1> QED BY <1>1, <1>2, <1>3, <1>4, NextCases

LEMMA NumberStep ==
  ASSUME TypeOK, CallInv, AccessInv, NumberInv, ExitInv, [Next]_vars
  PROVE  NumberInv'
  <1>1. CASE DOMAIN caches' = DOMAIN caches
    BY <1>1 DEF NumberInv, Own, Accesses, StaticCache
  <1>2. ASSUME NEW o \in Objs, initialize_dataAcces(o) PROVE NumberInv'
    <2>1. Owner[o] \in Procs /\ DOMAIN caches' = DOMAIN caches \cup Added(o)
      BY <1>2, OpenStep
    <2>2. PICK f \in Procs \X Nat :
            /\ f = Fresh(Owner[o]) /\ f[1] = Owner[o] /\ f # StaticCache(Owner[o])
            /\ f \notin DOMAIN caches /\ f[2] = 1 + Cardinality(Own(Owner[o]))
      BY <2>1, FreshLemma
    <2>3. Added(o) \ {StaticCache(Owner[o])} = {f} /\ StaticCache(Owner[o])[1] = Owner[o]
      BY <2>2 DEF Added, StaticCache
    <2>4. ASSUME NEW q \in Procs, q # Owner[o] PROVE Own(q)' = Own(q)
      BY <2>1, <2>2, <2>3, <2>4 DEF Own, Accesses, StaticCache
    <2>5. Own(Owner[o])' = Own(Owner[o]) \cup {f} /\ f \notin Own(Owner[o])
      BY <2>1, <2>2, <2>3 DEF Own, Accesses, StaticCache
    <2>6. IsFiniteSet(Own(Owner[o])) /\ \A a \in Own(Owner[o]) : a[2] <= Cardinality(Own(Owner[o]))
      BY <2>1 DEF NumberInv
    <2>7. /\ IsFiniteSet(Own(Owner[o]) \cup {f})
          /\ Cardinality(Own(Owner[o]) \cup {f}) = Cardinality(Own(Owner[o])) + 1
          /\ Cardinality(Own(Owner[o])) \in Nat
      BY <2>5, <2>6, FS_AddElement, FS_CardinalityType
    <2>8. \A a \in Own(Owner[o]) : a[2] \in Nat
      BY DEF TypeOK, Own, Accesses
    <2>9. PICK n \in Nat : n = Cardinality(Own(Owner[o]))
      BY <2>7
    <2>10. IsFiniteSet(Own(Owner[o])') /\ Cardinality(Own(Owner[o])') = n + 1
      BY <2>5, <2>7, <2>9
    <2>11. \A a \in Own(Owner[o]) : a[2] <= n + 1
      BY <2>6, <2>8, <2>9
    <2>12. f[2] <= n + 1
      BY <2>2, <2>9
    <2>13. \A a \in Own(Owner[o])' : a[2] <= n + 1
      BY <2>5, <2>11, <2>12
    <2>14. ASSUME NEW q \in Procs
           PROVE  IsFiniteSet(Own(q)') /\ \A a \in Own(q)' : a[2] <= Cardinality(Own(q)')
      <3>1. CASE q = Owner[o]
        BY <2>10, <2>13, <3>1
      <3>2. CASE q # Owner[o]
        BY <2>4, <3>2 DEF NumberInv
      <3> QED BY <3>1, <3>2
    <2> QED BY <2>14 DEF NumberInv
  <1> QED BY <1>1, <1>2, DomainStep


-----------------------------------------------------------------------------
(* Tables and the registry. *)

\* What a variable was promised of its table stays true.
LEMMA KeepsOpened ==
  ASSUME TypeOK, CallInv, Grows, NEW x \in Objs, NEW y \in Objs, obj[x].persistent, obj[x].access # None,
         obj'[y] = obj[x], class[y] = class[x], Opened(x)
  PROVE  Opened(y)'
  <1>1. obj[x].access \in DOMAIN caches
    BY DEF TypeOK
  <1>2. caches'[obj[x].access].table = caches[obj[x].access].table
    BY <1>1 DEF Grows, SameTable
  <1>3. class[x] \in Classes /\ schema[obj[x].table] # None
    BY DEF TypeOK, Opened, TableMatches, HasColumns
  <1>4. obj[x].table \in Tables
    BY <1>3, TableNames DEF CallInv, ObjOK, Attrs
  <1>5. schema'[obj[x].table] = schema[obj[x].table]
    BY <1>3, <1>4 DEF Grows
  <1> QED BY <1>2, <1>5 DEF Opened, TableMatches, Grows

LEMMA KeepsFound ==
  ASSUME TypeOK, CallInv, Grows, NEW x \in Objs, NEW y \in Objs, obj[x].persistent,
         obj'[y].sid = obj[x].sid, Found(x)
  PROVE  Found(y)'
  <1>1. obj[x].sid \in Names
    BY DEF CallInv, ObjOK, Attrs
  <1> QED BY <1>1 DEF Grows, Found

LEMMA OpenKeeps ==
  ASSUME TypeOK, CallInv, OpenInv, Grows, NEW x \in Objs, obj'[x] = obj[x],
         \A s \in Steps : At(x, s)' => At(x, s), x \in returned' => x \in returned
  PROVE  OpenOK(x)'
  <1>1. {"create", "access", "metadata", "data", "open", "read", "sync"} = Steps
    BY DEF Steps
  <1>2. class[x] = class[x] /\ OpenOK(x) /\ ObjOK(x) /\ CallOK(Owner[x])
    BY DEF OpenInv, CallInv
  <1>3. ASSUME At(x, "metadata")' \/ At(x, "data")' \/ At(x, "read")' \/ x \in returned' PROVE Opened(x)'
    <2>1. At(x, "metadata") \/ At(x, "data") \/ At(x, "read") \/ x \in returned
      BY <1>1, <1>3
    <2>2. obj[x].persistent /\ obj[x].access # None
      BY <1>1, <1>2, <2>1, StepTypes DEF ObjOK, CallOK
    <2>3. Opened(x)
      BY <1>2, <2>1 DEF OpenOK
    <2> QED BY <2>2, <2>3, KeepsOpened
  <1>4. ASSUME At(x, "data")' \/ At(x, "open")' \/ At(x, "read")' \/ x \in returned' PROVE Found(x)'
    <2>1. At(x, "data") \/ At(x, "open") \/ At(x, "read") \/ x \in returned
      BY <1>1, <1>4
    <2>2. obj[x].persistent
      BY <1>1, <1>2, <2>1, StepTypes DEF ObjOK
    <2>3. Found(x)
      BY <1>2, <2>1 DEF OpenOK
    <2> QED BY <2>2, <2>3, KeepsFound
  <1> QED BY <1>3, <1>4 DEF OpenOK

\* A program is at most at one step, and at none when it is idle.
LEMMA IdleAt ==
  ASSUME NEW x \in Objs, NEW s \in Steps
  PROVE  /\ call[Owner[x]] = Idle => ~At(x, s)
         /\ call'[Owner[x]] = Idle => ~At(x, s)'
         /\ \A y, t : call'[Owner[x]] = [at |-> t, obj |-> y] => (At(x, s)' <=> x = y /\ s = t)
         /\ call'[Owner[x]] = call[Owner[x]] => (At(x, s)' <=> At(x, s))
  BY DEF At, Idle

\* A step on a variable changes no other variable and starts no call on another one.
LEMMA ActsOther ==
  ASSUME TypeOK, CallInv, AccessInv, NumberInv, NEW o \in Objs, ActsOn(o)
  PROVE  /\ \A x \in Objs : x # o =>
              obj'[x] = obj[x] /\ loaded'[x] = loaded[x] /\ (x \in returned' <=> x \in returned)
         /\ \A x \in Objs, s \in Steps : x # o /\ At(x, s)' => At(x, s)
  <1> USE DEF cassandra, process, ghosts
  <1>0. Local(Owner[o]) /\ Owner[o] \in Procs /\ class[o] \in Classes
    BY LocalAction DEF TypeOK
  <1>a. /\ obj \in [Objs -> ObjRecord] /\ call \in [Procs -> CallRecord] /\ loaded \in [Objs -> LoadRecord]
    BY TypeParts
  <1>1. \A x \in Objs : x # o => obj'[x] = obj[x]
    <2>1. ASSUME NEW n \in Names, init_persistent_attributes(o, n) PROVE \A x \in Objs : x # o => obj'[x] = obj[x]
      BY <1>0, <1>a, <2>1, AttrsEffect
    <2>2. CASE initialize_dataAcces(o)
      <3>1. obj' = [obj EXCEPT ![o].access = Fresh(Owner[o])]
        BY <2>2, OpenStep
      <3> QED BY <1>a, <3>1
    <2>3. CASE destroy(o) \/ \E src \in Objs : assign(o, src)
      BY <1>a, <2>3 DEF destroy, assign
    <2>4. CASE UNCHANGED obj
      BY <2>4
    <2> QED
      BY <2>1, <2>2, <2>3, <2>4 DEF ActsOn, make_persistent, getByAlias, create_table, create_keyspace,
         query_fails, access_fails, Throws, persist_metadata, persist_data, read_numpy, setItem,
         setAttr, Writes, sync, sync_ends
  <1>2. \A x \in Objs : x # o => loaded'[x] = loaded[x]
    <2>1. CASE (\E n \in Names : getByAlias(o, n)) \/ read_numpy(o) \/ destroy(o)
      BY <1>a, <2>1 DEF getByAlias, read_numpy, destroy
    <2>2. CASE UNCHANGED loaded
      BY <2>2
    <2> QED
      BY <2>1, <2>2 DEF ActsOn, make_persistent, create_table, create_keyspace, initialize_dataAcces,
         query_fails, access_fails, Throws, persist_metadata, persist_data, setItem,
         setAttr, Writes, sync, sync_ends, assign
  <1>3. \A x \in Objs : x # o => (x \in returned' <=> x \in returned)
    BY DEF ActsOn, make_persistent, getByAlias, create_table, create_keyspace, initialize_dataAcces,
       query_fails, access_fails, Throws, persist_metadata, persist_data, read_numpy, setItem,
       setAttr, Writes, sync, sync_ends, destroy, assign
  <1>4. \/ call'[Owner[o]] = call[Owner[o]] \/ call'[Owner[o]] = Idle
        \/ \E t : call'[Owner[o]] = [at |-> t, obj |-> o]
    <2>1. ASSUME NEW s \in Steps, Goes(o, s), NEW t \in Steps, At(o, t)
          PROVE  call'[Owner[o]] = [at |-> s, obj |-> o]
      BY <1>a, <2>1, StepTypes, GoesEffect
    <2>2. CASE Returns(o)
      BY <1>a, <2>2, ReturnsEffect
    <2>3. CASE create_table(o) \/ initialize_dataAcces(o) \/ persist_metadata(o)
      <3>1. {"create", "access", "metadata", "data", "open", "read", "sync"} = Steps
        BY DEF Steps
      <3> QED BY <2>1, <2>2, <2>3, <3>1 DEF create_table, initialize_dataAcces, persist_metadata
    <2>4. CASE \E n \in Names : make_persistent(o, n) \/ getByAlias(o, n)
      <3>1. \/ UNCHANGED call
            \/ \E t \in {"create", "open"} : call' = [call EXCEPT ![Owner[o]] = [at |-> t, obj |-> o]]
        BY <2>4 DEF make_persistent, getByAlias
      <3>2. ASSUME NEW t, call' = [call EXCEPT ![Owner[o]] = [at |-> t, obj |-> o]]
            PROVE  call'[Owner[o]] = [at |-> t, obj |-> o]
        BY <1>0, <1>a, <3>2
      <3> QED BY <3>1, <3>2
    <2>5. CASE sync(o)
      BY <1>0, <1>a, <2>5 DEF sync
    <2>6. CASE UNCHANGED call
      BY <2>6
    <2> QED
      BY <2>2, <2>3, <2>4, <2>5, <2>6 DEF ActsOn, create_keyspace, query_fails, access_fails, Throws,
         persist_data, read_numpy, setItem, setAttr, Writes, sync_ends, destroy, assign
  <1>5. ASSUME NEW x \in Objs, NEW s \in Steps, x # o, At(x, s)' PROVE At(x, s)
    <2>1. CASE Owner[x] = Owner[o]
      <3>1. CASE call'[Owner[o]] = call[Owner[o]]
        BY <1>5, <2>1, <3>1, IdleAt
      <3>2. CASE call'[Owner[o]] = Idle
        BY <1>5, <2>1, <3>2, IdleAt
      <3>3. CASE \E t : call'[Owner[o]] = [at |-> t, obj |-> o]
        <4>1. PICK t : call'[Owner[x]] = [at |-> t, obj |-> o]
          BY <2>1, <3>3
        <4> QED BY <1>5, <4>1, IdleAt
      <3> QED BY <1>4, <3>1, <3>2, <3>3
    <2>2. CASE Owner[x] # Owner[o]
      <3>1. Owner[x] \in Procs
        OBVIOUS
      <3> QED BY <1>0, <1>5, <2>2, <3>1, IdleAt DEF Local
    <2> QED BY <2>1, <2>2
  <1> QED BY <1>1, <1>2, <1>3, <1>5

LEMMA OpenStepInv ==
  ASSUME TypeOK, CallInv, AccessInv, NumberInv, ExitInv, OpenInv, [Next]_vars
  PROVE  OpenInv'
  <1> USE DEF cassandra, process, ghosts
  <1>g. Grows
    BY GrowStep
  <1>s. {"create", "access", "metadata", "data", "open", "read", "sync"} = Steps
    BY DEF Steps
  <1>k. ASSUME UNCHANGED <<obj, call, returned>> PROVE OpenInv'
    BY <1>k, <1>g, IdleAt, OpenKeeps DEF OpenInv
  <1>1. ASSUME NEW o \in Objs, ActsOn(o) PROVE OpenInv'
    <2>0. Owner[o] \in Procs /\ class[o] \in Classes
      BY DEF TypeOK
    <2>a. /\ obj \in [Objs -> ObjRecord] /\ call \in [Procs -> CallRecord]
          /\ OpenOK(o) /\ ObjOK(o) /\ CallOK(Owner[o])
      BY <2>0, TypeParts DEF OpenInv, CallInv
    <2>b. ASSUME NEW x \in Objs, x # o PROVE OpenOK(x)'
      <3>1. obj'[x] = obj[x] /\ (x \in returned' => x \in returned) /\ \A s \in Steps : At(x, s)' => At(x, s)
        BY <1>1, <2>b, ActsOther
      <3> QED BY <1>g, <3>1, OpenKeeps
    <2>c. SUFFICES OpenOK(o)'
      BY <2>b DEF OpenInv
    <2>d. ASSUME NEW t \in Steps, At(o, t)
          PROVE  /\ call[Owner[o]] \in [at : Steps, obj : Objs] /\ call[Owner[o]].obj = o
                 /\ obj[o].persistent
                 /\ t \in {"data", "metadata", "read", "sync"} => obj[o].access # None
      BY <2>0, <2>a, <2>d, StepTypes DEF CallOK
    <2>e. Starts(Owner[o]) => call[Owner[o]] = Idle
      BY DEF Starts
    <2>k. ASSUME obj'[o] = obj[o], o \in returned' => o \in returned, call'[Owner[o]] = Idle PROVE OpenOK(o)'
      BY <1>g, <2>k, IdleAt, OpenKeeps
    <2>1. ASSUME NEW n \in Names, make_persistent(o, n) PROVE OpenOK(o)'
      <3>1. call'[Owner[o]] = [at |-> "create", obj |-> o] /\ o \notin returned'
        BY <2>0, <2>1, <2>a DEF make_persistent
      <3> QED BY <1>s, <3>1, IdleAt DEF OpenOK
    <2>2. ASSUME NEW n \in Names, getByAlias(o, n) PROVE OpenOK(o)'
      <3>1. CASE UNCHANGED <<obj, call>>
        BY <2>2, <2>e, <2>k, <3>1 DEF getByAlias
      <3>2. CASE getMetaData(n) /\ init_persistent_attributes(o, n)
                   /\ call' = [call EXCEPT ![Owner[o]] = [at |-> "open", obj |-> o]]
        <4>1. call'[Owner[o]] = [at |-> "open", obj |-> o] /\ o \notin returned' /\ UNCHANGED istorage
          BY <2>0, <2>2, <2>a, <3>2 DEF getByAlias
        <4>2. obj'[o].sid = n
          BY <2>0, <2>a, <3>2, AttrsEffect
        <4>3. Found(o)'
          BY <3>2, <4>1, <4>2 DEF getMetaData, Found
        <4> QED BY <1>s, <4>1, <4>3, IdleAt DEF OpenOK
      <3> QED BY <2>2, <3>1, <3>2 DEF getByAlias
    <2>3. CASE create_table(o)
      <3>1. call'[Owner[o]] = [at |-> "access", obj |-> o]
        BY <1>s, <2>3, <2>a, <2>d, GoesEffect DEF create_table
      <3>2. obj'[o] = obj[o] /\ o \in returned' => OpenOK(o)'
        <4>1. ASSUME obj'[o] = obj[o], o \in returned PROVE Opened(o)' /\ Found(o)'
          BY <1>g, <2>a, <4>1, KeepsOpened, KeepsFound DEF OpenOK, ObjOK
        <4> QED BY <2>3, <4>1 DEF create_table, OpenOK
      <3> QED BY <1>s, <2>3, <3>1, <3>2, IdleAt DEF create_table, OpenOK
    <2>4. CASE create_keyspace(o) \/ setItem(o) \/ setAttr(o)
      BY <1>k, <2>4 DEF create_keyspace, setItem, setAttr, Writes, OpenInv
    <2>5. CASE query_fails(o) \/ access_fails(o)
      BY <2>5, <2>a, <2>k, ReturnsEffect DEF query_fails, access_fails, Throws
    <2>6. CASE persist_metadata(o)
      <3>1. call'[Owner[o]] = [at |-> "data", obj |-> o] /\ At(o, "metadata")
        BY <1>s, <2>6, <2>a, <2>d, GoesEffect DEF persist_metadata
      <3>2. UNCHANGED obj /\ obj[o].persistent /\ obj[o].access # None /\ Opened(o)
        BY <1>s, <2>6, <2>a, <2>d, <3>1 DEF persist_metadata, OpenOK
      <3>3. Opened(o)'
        BY <1>g, <3>2, KeepsOpened
      <3>4. istorage' = [istorage EXCEPT ![obj[o].sid] = class[o]]
        BY <2>6 DEF persist_metadata, registerNumpy
      <3>5. obj[o].sid \in Names /\ class[o] # None
        BY <2>0, <2>a, <3>2 DEF ObjOK, Attrs
      <3>6. Found(o)'
        BY <3>2, <3>4, <3>5 DEF Found, TypeOK
      <3> QED BY <3>3, <3>6 DEF OpenOK
    <2>7. CASE persist_data(o) \/ read_numpy(o)
      <3>1. At(o, "data") \/ At(o, "read")
        BY <2>7 DEF persist_data, read_numpy
      <3>2. UNCHANGED obj /\ obj[o].persistent /\ obj[o].access # None /\ Opened(o) /\ Found(o)
        BY <1>s, <2>7, <2>a, <2>d, <3>1 DEF persist_data, read_numpy, OpenOK
      <3> QED BY <1>g, <3>2, KeepsOpened, KeepsFound DEF OpenOK
    <2>8. CASE sync(o)
      <3>1. UNCHANGED <<obj, returned>> /\ o \in returned
        BY <2>8 DEF sync
      <3> QED BY <1>g, <2>a, <3>1, KeepsOpened, KeepsFound DEF OpenOK, ObjOK
    <2>9. CASE sync_ends(o)
      BY <2>9, <2>a, <2>k, ReturnsEffect DEF sync_ends
    <2>10. CASE destroy(o)
      <3>1. call'[Owner[o]] = Idle /\ o \notin returned'
        BY <2>10, <2>e DEF destroy
      <3> QED BY <1>s, <3>1, IdleAt DEF OpenOK
    <2>11. ASSUME NEW src \in Objs, assign(o, src) PROVE OpenOK(o)'
      <3>1. /\ call'[Owner[o]] = Idle /\ obj'[o] = obj[src] /\ class[o] = class[src]
            /\ o \in returned' => src \in returned
        BY <2>11, <2>a, <2>e DEF assign
      <3>2. OpenOK(src) /\ ObjOK(src)
        BY DEF OpenInv, CallInv
      <3>3. o \in returned' => Opened(o)' /\ Found(o)'
        BY <1>g, <3>1, <3>2, KeepsOpened, KeepsFound DEF OpenOK, ObjOK
      <3> QED BY <1>s, <3>1, <3>3, IdleAt DEF OpenOK
    <2>12. CASE initialize_dataAcces(o)
      <3>1. /\ caches' = [a \in DOMAIN caches \cup Added(o) |->
                            IF a = Fresh(Owner[o]) THEN Table(o, WriterOf(o))
                            ELSE IF a \in DOMAIN caches THEN caches[a]
                            ELSE Table(o, StaticCache(Owner[o]))]
            /\ obj' = [obj EXCEPT ![o].access = Fresh(Owner[o])]
            /\ At(o, "access") \/ At(o, "open")
        BY <2>12, OpenStep
      <3>2. obj'[o].sid = obj[o].sid /\ obj'[o].table = obj[o].table /\ obj'[o].access = Fresh(Owner[o])
        <4>1. obj' = [obj EXCEPT ![o] = [obj[o] EXCEPT !.access = Fresh(Owner[o])]]
          BY <3>1
        <4>2. obj'[o] = [obj[o] EXCEPT !.access = Fresh(Owner[o])] /\ obj[o] \in ObjRecord
          BY <2>a, <4>1
        <4> QED BY <4>2 DEF ObjRecord
      <3>3. caches'[Fresh(Owner[o])].table = obj[o].table
        BY <3>1 DEF Added, Table
      <3>4. TableMatches(o) /\ UNCHANGED <<schema, class>>
        BY <2>12 DEF initialize_dataAcces
      <3>5. Opened(o)'
        BY <3>2, <3>3, <3>4 DEF Opened, TableMatches
      <3>6. CASE At(o, "open") \/ o \in returned
        <4>1. Found(o) /\ obj[o].persistent
          BY <1>s, <2>a, <2>d, <3>6 DEF OpenOK, ObjOK
        <4>2. Found(o)'
          BY <1>g, <3>2, <4>1, KeepsFound
        <4> QED BY <3>5, <4>2 DEF OpenOK
      <3>7. CASE At(o, "access") /\ o \notin returned
        <4>1. Goes(o, "metadata") /\ UNCHANGED returned
          BY <2>12, <3>7 DEF initialize_dataAcces
        <4>2. call'[Owner[o]] = [at |-> "metadata", obj |-> o]
          BY <1>s, <2>a, <2>d, <3>7, <4>1, GoesEffect
        <4> QED BY <1>s, <3>5, <3>7, <4>1, <4>2, IdleAt DEF OpenOK
      <3> QED BY <3>1, <3>6, <3>7
    <2> QED
      BY <1>1, <2>1, <2>2, <2>3, <2>4, <2>5, <2>6, <2>7, <2>8, <2>9, <2>10, <2>11, <2>12 DEF ActsOn
  <1>2. ASSUME NEW c \in DOMAIN caches, applied(c) PROVE OpenInv'
    BY <1>2, <1>k DEF applied
  <1>3. ASSUME NEW p \in Procs, main_returns(p) PROVE OpenInv'
    <2>1. ASSUME NEW x \in Objs PROVE OpenOK(x)'
      <3>1. CASE Owner[x] = p
        <4>1. call'[Owner[x]] = Idle /\ x \notin returned'
          BY <1>3, <3>1 DEF main_returns
        <4> QED BY <1>s, <4>1, IdleAt DEF OpenOK
      <3>2. CASE Owner[x] # p
        <4>1. obj'[x] = obj[x] /\ call'[Owner[x]] = call[Owner[x]] /\ (x \in returned' => x \in returned)
          BY <1>3, <3>2 DEF main_returns
        <4> QED BY <1>g, <4>1, IdleAt, OpenKeeps
      <3> QED BY <3>1, <3>2
    <2> QED BY <2>1 DEF OpenInv
  <1>4. ASSUME NEW p \in Procs, exit(p) PROVE OpenInv'
    BY <1>4, <1>k DEF exit
  <1>5. CASE UNCHANGED vars
    BY <1>5, <1>k DEF vars
  <1> QED BY <1>1, <1>2, <1>3, <1>4, <1>5, NextCases


LEMMA RegistryStep ==
  ASSUME TypeOK, CallInv, AccessInv, NumberInv, ExitInv, OpenInv, RegistrySound, [Next]_vars
  PROVE  RegistrySound'
  <1> USE DEF cassandra, process, ghosts
  <1>g. Grows
    BY GrowStep
  <1>1. ASSUME NEW n \in Names, istorage'[n] # None, istorage'[n] = istorage[n]
        PROVE  HasColumns(schema'[assignTableName(istorage[n], n)], Columns[istorage[n]])
    <2>1. istorage[n] \in Classes
      BY <1>1 DEF TypeOK
    <2>2. assignTableName(istorage[n], n) \in Tables
      BY <2>1, TableNames
    <2>3. HasColumns(schema[assignTableName(istorage[n], n)], Columns[istorage[n]])
      BY <1>1 DEF RegistrySound
    <2>4. schema'[assignTableName(istorage[n], n)] = schema[assignTableName(istorage[n], n)]
      BY <1>g, <2>2, <2>3 DEF Grows, HasColumns
    <2> QED BY <2>3, <2>4
  <1>a. ASSUME NEW n \in Names, NEW c PROVE assignTableName(c, n)' = assignTableName(c, n)
    BY <1>g DEF Grows, assignTableName
  <1>2. ASSUME UNCHANGED istorage PROVE RegistrySound'
    BY <1>1, <1>2, <1>a, <1>g DEF RegistrySound, Grows, assignTableName
  <1>3. ASSUME NEW o \in Objs, persist_metadata(o) PROVE RegistrySound'
    <2>1. At(o, "metadata") /\ "metadata" \in Steps /\ istorage' = [istorage EXCEPT ![obj[o].sid] = class[o]]
      BY <1>3 DEF persist_metadata, registerNumpy, Steps
    <2>2. Attrs(o) /\ Opened(o) /\ UNCHANGED schema
      BY <1>3, <2>1, StepTypes DEF OpenInv, OpenOK, persist_metadata
    <2>3. HasColumns(schema[assignTableName(class[o], obj[o].sid)], Columns[class[o]])
      BY <2>2 DEF Attrs, Opened, TableMatches
    <2>4. ASSUME NEW n \in Names, istorage'[n] # None
          PROVE  HasColumns(schema'[assignTableName(istorage'[n], n)], Columns[istorage'[n]])
      <3>1. CASE n = obj[o].sid
        <4>1. istorage'[n] = class[o]
          BY <2>1, <3>1 DEF TypeOK
        <4> QED BY <2>2, <2>3, <3>1, <4>1
      <3>2. CASE n # obj[o].sid
        <4>1. istorage'[n] = istorage[n]
          BY <2>1, <3>2 DEF TypeOK
        <4> QED BY <1>1, <2>4, <4>1
      <3> QED BY <3>1, <3>2
    <2> QED BY <1>g, <2>4 DEF RegistrySound, Grows, assignTableName
  <1>4. UNCHANGED istorage \/ \E o \in Objs : persist_metadata(o)
    <2>1. ASSUME NEW o \in Objs, ActsOn(o), ~persist_metadata(o) PROVE UNCHANGED istorage
      BY <2>1 DEF ActsOn, make_persistent, getByAlias, create_table, create_keyspace, initialize_dataAcces,
         query_fails, access_fails, Throws, persist_data, read_numpy, setItem,
         setAttr, Writes, sync, sync_ends, destroy, assign
    <2> QED BY <2>1, NextCases DEF applied, main_returns, exit, vars
  <1> QED BY <1>2, <1>3, <1>4


-----------------------------------------------------------------------------
(* The session's list. *)

Live(p) == phase[p] = "running" =>
  \A a \in Own(p) : Users(a, obj) # {} \/ Pending(a) # {} => a \in alive_objects[p]

LEMMA LiveMeans == AliveWhilePending <=> \A p \in Procs : Live(p)
  BY DEF AliveWhilePending, Live, Own, is_write_completed

LEMMA LiveKeeps ==
  ASSUME NEW p \in Procs, Live(p), alive_objects'[p] = alive_objects[p],
         phase'[p] = "running" => phase[p] = "running",
         \A a \in Own(p)' : /\ a \in Own(p)
                            /\ Users(a, obj)' # {} \/ Pending(a)' # {} => Users(a, obj) # {} \/ Pending(a) # {}
  PROVE  Live(p)'
  BY DEF Live

LEMMA LiveFrame ==
  ASSUME TypeOK, AccessInv, AccessInv', TypeOK', NEW p \in Procs, Local(p), NEW q \in Procs, q # p, Live(q)
  PROVE  Live(q)'
  <1>1. ASSUME NEW a \in Own(q)'
        PROVE  /\ a \in Own(q)
               /\ Users(a, obj)' # {} \/ Pending(a)' # {} => Users(a, obj) # {} \/ Pending(a) # {}
    <2>1. a \in DOMAIN caches' /\ a[1] = q /\ a # StaticCache(q)
      BY DEF Own, Accesses, StaticCache
    <2>2. a \in DOMAIN caches /\ caches'[a] = caches[a]
      BY <2>1 DEF Local, LocalTables
    <2>3. a \in Own(q)
      BY <2>1, <2>2 DEF Own, Accesses
    <2>4. a # None
      BY <2>2 DEF TypeOK
    <2>5. ASSUME NEW x \in Objs, obj'[x].access = a PROVE obj[x].access = a
      <3>1. Owner[x] = q
        BY <2>1, <2>4, <2>5 DEF AccessInv, UserOK
      <3> QED BY <2>5, <3>1 DEF Local
    <2>6. Users(a, obj)' \subseteq Users(a, obj)
      BY <2>5 DEF Users
    <2>7. Pending(a)' = Pending(a)
      BY <2>2 DEF Pending
    <2> QED BY <2>3, <2>6, <2>7
  <1>2. alive_objects'[q] = alive_objects[q] /\ phase'[q] = phase[q]
    BY DEF Local
  <1> QED BY <1>1, <1>2, LiveKeeps

LEMMA LiveOpen ==
  ASSUME TypeOK, CallInv, AccessInv, NumberInv, AccessInv', NEW o \in Objs, initialize_dataAcces(o),
         Live(Owner[o])
  PROVE  Live(Owner[o])'
  <1>0. Owner[o] \in Procs
    OBVIOUS
  <1>1. PICK f : f = Fresh(Owner[o]) /\ f \notin DOMAIN caches
    BY <1>0, FreshLemma
  <1>2. /\ caches' = [a \in DOMAIN caches \cup Added(o) |->
                        IF a = Fresh(Owner[o]) THEN Table(o, WriterOf(o))
                        ELSE IF a \in DOMAIN caches THEN caches[a]
                        ELSE Table(o, StaticCache(Owner[o]))]
        /\ obj' = [obj EXCEPT ![o].access = Fresh(Owner[o])]
    BY OpenStep
  <1>3. /\ alive_objects'[Owner[o]] =
             deallocateObjects(alive_objects[Owner[o]] \cup {f}, obj', caches')
        /\ UNCHANGED phase
    BY <1>0, <1>1 DEF initialize_dataAcces, registerObject, Registered, TypeOK
  <1>4. SUFFICES ASSUME phase[Owner[o]] = "running", NEW a \in Own(Owner[o])',
                        Users(a, obj)' # {} \/ Pending(a)' # {}
                 PROVE  a \in alive_objects'[Owner[o]]
    BY <1>3 DEF Live
  <1>5. a \in alive_objects[Owner[o]] \cup {f}
    <2>1. CASE a = f
      BY <2>1
    <2>2. CASE a # f
      <3>1. a \in DOMAIN caches' /\ a # StaticCache(Owner[o]) /\ a[1] = Owner[o]
        BY DEF Own, Accesses, StaticCache
      <3>2. a \in DOMAIN caches /\ caches'[a] = caches[a]
        BY <1>1, <1>2, <2>2, <3>1 DEF Added
      <3>3. a \in Own(Owner[o])
        BY <3>1, <3>2 DEF Own, Accesses
      <3>4. Users(a, obj)' \subseteq Users(a, obj)
        <4>1. obj'[o].access = f /\ \A x \in Objs : x # o => obj'[x] = obj[x]
          BY <1>1, <1>2 DEF TypeOK
        <4> QED BY <2>2, <4>1 DEF Users
      <3>5. Pending(a)' = Pending(a)
        BY <3>2 DEF Pending
      <3> QED BY <1>4, <3>3, <3>4, <3>5 DEF Live
    <2> QED BY <2>1, <2>2
  <1>6. ASSUME use_count(a, obj') = 1, caches'[caches'[a].cache].dirty = {}, caches'[caches'[a].cache].flight = {}
        PROVE  FALSE
    <2>1. CASE Users(a, obj') # {}
      <3>1. IsFiniteSet(Users(a, obj'))
        BY FS_Subset DEF Users
      <3>2. Cardinality(Users(a, obj')) \in Nat /\ Cardinality(Users(a, obj')) # 0
        BY <2>1, <3>1, FS_CardinalityType, FS_EmptySet
      <3> QED BY <1>6, <3>2 DEF use_count
    <2>2. CASE Pending(a)' # {}
      <3>1. a \in DOMAIN caches'
        BY DEF Own, Accesses
      <3>2. caches'[a].cache = a
        BY <2>2, <3>1 DEF AccessInv, TableOK
      <3> QED BY <1>6, <2>2, <3>2 DEF Pending
    <2>3. Users(a, obj)' = Users(a, obj')
      BY DEF Users
    <2> QED BY <1>4, <2>1, <2>2, <2>3
  <1> QED BY <1>3, <1>5, <1>6 DEF deallocateObjects

LEMMA LiveWrite ==
  ASSUME TypeOK, AccessInv, NEW o \in Objs, obj[o].access # None, NEW rows \in RowSets,
         write_to_cassandra(o, rows), UNCHANGED <<obj, alive_objects, phase>>, Live(Owner[o])
  PROVE  Live(Owner[o])'
  <1> DEFINE c == WriteCache(obj[o].access)
  <1>0. Owner[o] \in Procs
    OBVIOUS
  <1>1. /\ obj[o].access \in DOMAIN caches /\ obj[o].access[1] = Owner[o]
        /\ c # obj[o].access => c = StaticCache(Owner[o])
    <2>1. obj[o].access \in DOMAIN caches /\ obj[o].access[1] = Owner[o]
      BY OwnWriter
    <2> QED BY <2>1 DEF AccessInv, TableOK, WriteCache
  <1>2. SameTables /\ \A a \in DOMAIN caches : a # c => caches'[a] = caches[a]
    <2>1. Wrote(o, rows, c)
      BY WriteEffect
    <2> QED BY <2>1 DEF Wrote
  <1> HIDE DEF c
  <1>3. ASSUME NEW a \in Own(Owner[o])'
        PROVE  /\ a \in Own(Owner[o])
               /\ Users(a, obj)' # {} \/ Pending(a)' # {} => Users(a, obj) # {} \/ Pending(a) # {}
    <2>1. a \in DOMAIN caches /\ a[1] = Owner[o] /\ a # StaticCache(Owner[o])
      BY <1>2 DEF Own, Accesses, StaticCache, SameTables
    <2>2. a \in Own(Owner[o])
      BY <2>1 DEF Own, Accesses
    <2>3. Users(a, obj)' = Users(a, obj)
      BY DEF Users
    <2>4. CASE a = c
      <3>1. o \in Users(a, obj)
        BY <1>1, <2>1, <2>4 DEF Users
      <3> QED BY <2>2, <3>1
    <2>5. CASE a # c
      <3>1. Pending(a)' = Pending(a)
        BY <1>2, <2>1, <2>5 DEF Pending
      <3> QED BY <2>2, <2>3, <3>1
    <2> QED BY <2>4, <2>5
  <1> QED BY <1>0, <1>3, LiveKeeps

LEMMA LiveStep ==
  ASSUME TypeOK, TypeOK', CallInv, AccessInv, AccessInv', NumberInv, ExitInv, AliveWhilePending, [Next]_vars
  PROVE  \A q \in Procs : Live(q)'
  <1> USE DEF cassandra, process, ghosts
  <1>l. \A q \in Procs : Live(q)
    BY LiveMeans
  <1>o. obj \in [Objs -> ObjRecord]
    BY TypeParts
  \* Tables that are only flushed or acknowledged, variables that only let go of theirs.
  <1>a. ASSUME NEW p \in Procs, DOMAIN caches' = DOMAIN caches,
               \A a \in DOMAIN caches : caches'[a].dirty \cup caches'[a].flight \subseteq Pending(a),
               \A x \in Objs : obj'[x].access = None \/ \E y \in Objs : obj'[x].access = obj[y].access,
               UNCHANGED alive_objects, phase'[p] = "running" => phase[p] = "running"
        PROVE  Live(p)'
    <2>1. ASSUME NEW a \in Own(p)'
          PROVE  /\ a \in Own(p)
                 /\ Users(a, obj)' # {} \/ Pending(a)' # {} => Users(a, obj) # {} \/ Pending(a) # {}
      <3>1. a \in Own(p) /\ a \in DOMAIN caches
        BY <1>a DEF Own, Accesses, StaticCache
      <3>2. a # None
        BY <3>1 DEF TypeOK
      <3>3. Users(a, obj)' # {} => Users(a, obj) # {}
        BY <1>a, <3>2 DEF Users
      <3>4. Pending(a)' \subseteq Pending(a)
        BY <1>a, <3>1 DEF Pending
      <3> QED BY <3>1, <3>3, <3>4
    <2> QED BY <1>a, <1>l, <2>1, LiveKeeps
  <1>b. UNCHANGED caches => /\ DOMAIN caches' = DOMAIN caches
                            /\ \A a \in DOMAIN caches : caches'[a].dirty \cup caches'[a].flight \subseteq Pending(a)
    BY DEF Pending
  <1>c. UNCHANGED obj => \A x \in Objs : obj'[x].access = None \/ \E y \in Objs : obj'[x].access = obj[y].access
    OBVIOUS
  <1>1. ASSUME NEW o \in Objs, ActsOn(o) PROVE \A q \in Procs : Live(q)'
    <2>0. Local(Owner[o]) /\ Owner[o] \in Procs /\ class[o] \in Classes
      <3>1. Local(Owner[o])
        BY <1>1, LocalAction
      <3> QED BY <3>1 DEF TypeOK
    <2>a. SUFFICES Live(Owner[o])'
      BY <1>l, <2>0, LiveFrame
    <2>1. ASSUME NEW n \in Names, init_persistent_attributes(o, n)
          PROVE  \A x \in Objs : obj'[x].access = None \/ \E y \in Objs : obj'[x].access = obj[y].access
      <3>1. \A x \in Objs : obj'[x].access = obj[x].access
        BY <1>o, <2>0, <2>1, AttrsEffect
      <3> QED BY <3>1
    <2>2. ASSUME NEW n \in Names, make_persistent(o, n) PROVE Live(Owner[o])'
      BY <1>a, <1>b, <2>0, <2>1, <2>2 DEF make_persistent
    <2>3. ASSUME NEW n \in Names, getByAlias(o, n) PROVE Live(Owner[o])'
      BY <1>a, <1>b, <1>c, <2>0, <2>1, <2>3 DEF getByAlias
    <2>4. CASE create_table(o) \/ create_keyspace(o) \/ persist_metadata(o) \/ read_numpy(o) \/ sync_ends(o)
      BY <1>a, <1>b, <1>c, <2>0, <2>4 DEF create_table, create_keyspace, persist_metadata, read_numpy, sync_ends
    <2>5. CASE query_fails(o) \/ access_fails(o)
      BY <1>a, <1>b, <1>c, <2>0, <2>5 DEF query_fails, access_fails, Throws
    <2>6. CASE initialize_dataAcces(o)
      BY <1>l, <2>0, <2>6, LiveOpen
    <2>7. CASE persist_data(o)
      <3>1. CASE UNCHANGED caches
        BY <1>a, <1>b, <1>c, <2>0, <2>7, <3>1 DEF persist_data
      <3>2. CASE write_to_cassandra(o, {<<obj[o].sid, b>> : b \in Blocks})
        BY <1>l, <2>0, <2>7, <3>2, DataStep, LiveWrite DEF persist_data
      <3> QED BY <2>7, <3>1, <3>2 DEF persist_data
    <2>8. CASE setItem(o) \/ setAttr(o)
      BY <1>l, <2>0, <2>8, SetStep, LiveWrite DEF Writes
    <2>9. CASE sync(o)
      <3>1. /\ DOMAIN caches' = DOMAIN caches
            /\ \A a \in DOMAIN caches : caches'[a].dirty \cup caches'[a].flight \subseteq Pending(a)
        BY <2>9, FlushEffect DEF sync, SameTables
      <3> QED BY <1>a, <1>c, <2>0, <2>9, <3>1 DEF sync
    <2>10. CASE destroy(o)
      <3>1. \A x \in Objs : obj'[x].access = None \/ obj'[x] = obj[x]
        BY <1>o, <2>10 DEF destroy, Volatile
      <3> QED BY <1>a, <1>b, <2>0, <2>10, <3>1 DEF destroy
    <2>11. ASSUME NEW src \in Objs, assign(o, src) PROVE Live(Owner[o])'
      <3>1. \A x \in Objs : obj'[x] = obj[src] \/ obj'[x] = obj[x]
        BY <1>o, <2>11 DEF assign
      <3>2. \A x \in Objs : obj'[x].access = None \/ \E y \in Objs : obj'[x].access = obj[y].access
        BY <3>1
      <3> QED BY <1>a, <1>b, <2>0, <2>11, <3>2 DEF assign
    <2> QED
      BY <1>1, <2>2, <2>3, <2>4, <2>5, <2>6, <2>7, <2>8, <2>9, <2>10, <2>11 DEF ActsOn
  <1>2. ASSUME NEW c \in DOMAIN caches, applied(c) PROVE \A q \in Procs : Live(q)'
    <2>1. /\ DOMAIN caches' = DOMAIN caches
          /\ \A a \in DOMAIN caches : caches'[a].dirty \cup caches'[a].flight \subseteq Pending(a)
      BY <1>2, AppliedEffect DEF SameTables, Pending
    <2> QED BY <1>a, <1>c, <1>2, <2>1 DEF applied
  <1>3. ASSUME NEW p \in Procs, main_returns(p) PROVE \A q \in Procs : Live(q)'
    <2>1. \A x \in Objs : obj'[x].access = None \/ obj'[x] = obj[x]
      BY <1>3 DEF main_returns, Volatile
    <2>2. \A q \in Procs : phase'[q] = "running" => phase[q] = "running"
      BY <1>3 DEF main_returns, TypeOK
    <2> QED BY <1>a, <1>b, <1>3, <2>1, <2>2 DEF main_returns
  <1>4. ASSUME NEW p \in Procs, exit(p) PROVE \A q \in Procs : Live(q)'
    <2>1. /\ DOMAIN caches' = DOMAIN caches /\ UNCHANGED <<obj, alive_objects>>
          /\ \A a \in DOMAIN caches : caches'[a].dirty \cup caches'[a].flight \subseteq Pending(a)
      BY <1>4, ExitEffect DEF SameTables
    <2>2. \A q \in Procs : phase'[q] = "running" => phase[q] = "running"
      <3>1. UNCHANGED phase \/ phase' = [phase EXCEPT ![p] = "ended"]
        BY <1>4 DEF exit, flush_at_exit, destroyed
      <3>2. phase \in [Procs -> {"running", "exit", "ended"}]
        BY DEF TypeOK
      <3> QED BY <3>1, <3>2
    <2> QED BY <1>a, <1>c, <2>1, <2>2
  <1>5. CASE UNCHANGED vars
    BY <1>a, <1>b, <1>c, <1>5 DEF vars
  <1> QED BY <1>1, <1>2, <1>3, <1>4, <1>5, NextCases

-----------------------------------------------------------------------------
(* Writes. *)

\* A step that keeps the writes it finds.
LEMMA WriteFrame ==
  ASSUME TypeOK, WriteInv, Grows, UNCHANGED written,
         \A p \in Procs : phase'[p] = "running" => phase[p] = "running",
         \A a \in DOMAIN caches :
           /\ caches[a].flight \subseteq stored' \cup caches'[a].flight
           /\ phase'[a[1]] = "running" => Pending(a) \subseteq stored' \cup caches'[a].dirty \cup caches'[a].flight
  PROVE  WriteInv'
  <1>1. ASSUME NEW p \in Procs, NEW w \in written'[p]
        PROVE  /\ w.cache \in DOMAIN caches' /\ w.cache[1] = p
               /\ phase'[p] = "running" => w \in stored' \cup caches'[w.cache].dirty \cup caches'[w.cache].flight
               /\ ~config'.lazy => w \in stored' \cup caches'[w.cache].flight
    <2>1. /\ w.cache \in DOMAIN caches /\ w.cache[1] = p
          /\ phase[p] = "running" => w \in stored \cup Pending(w.cache)
          /\ ~config.lazy => w \in stored \cup caches[w.cache].flight
      BY DEF WriteInv
    <2>2. w.cache \in DOMAIN caches' /\ config' = config /\ stored \subseteq stored'
      BY <2>1 DEF Grows
    <2> QED BY <2>1, <2>2
  <1> QED BY <1>1 DEF WriteInv, Pending

LEMMA WriteWrite ==
  ASSUME TypeOK, AccessInv, WriteInv, Grows, NEW o \in Objs, obj[o].access # None, NEW rows \in RowSets,
         write_to_cassandra(o, rows), UNCHANGED phase
  PROVE  WriteInv'
  <1> DEFINE c == WriteCache(obj[o].access)
             new == NewRows(o, rows)
  <1>0. Owner[o] \in Procs
    OBVIOUS
  <1>1. c \in DOMAIN caches /\ c[1] = Owner[o]
    BY OwnWriter
  <1>2. /\ SameTables /\ \A a \in DOMAIN caches : a # c => caches'[a] = caches[a]
        /\ caches'[c].dirty \cup caches'[c].flight = Pending(c) \cup new
        /\ caches[c].flight \subseteq caches'[c].flight
        /\ ~caches[c].lazy => caches'[c].dirty = {}
        /\ written' = [written EXCEPT ![Owner[o]] = @ \cup new]
    <2>1. Wrote(o, rows, c)
      BY WriteEffect
    <2> QED BY <2>1 DEF Wrote
  <1>3. \A w \in new : w.cache = c
    BY DEF NewRows
  <1>4. ~config.lazy => ~caches[c].lazy
    BY <1>1 DEF AccessInv, TableOK
  <1> HIDE DEF c, new
  <1>5. \A p \in Procs : written'[p] \subseteq written[p] \cup (IF p = Owner[o] THEN new ELSE {})
    BY <1>0, <1>2 DEF TypeOK
  <1>6. \A a \in DOMAIN caches :
          /\ Pending(a) \subseteq caches'[a].dirty \cup caches'[a].flight
          /\ caches[a].flight \subseteq caches'[a].flight
    BY <1>2 DEF Pending
  <1>7. ASSUME NEW p \in Procs, NEW w \in written'[p]
        PROVE  /\ w.cache \in DOMAIN caches' /\ w.cache[1] = p
               /\ phase'[p] = "running" => w \in stored' \cup caches'[w.cache].dirty \cup caches'[w.cache].flight
               /\ ~config'.lazy => w \in stored' \cup caches'[w.cache].flight
    <2>0. DOMAIN caches' = DOMAIN caches /\ config' = config /\ stored \subseteq stored'
      BY <1>2 DEF Grows, SameTables
    <2>1. CASE w \in written[p]
      <3>1. /\ w.cache \in DOMAIN caches /\ w.cache[1] = p
            /\ phase[p] = "running" => w \in stored \cup Pending(w.cache)
            /\ ~config.lazy => w \in stored \cup caches[w.cache].flight
        BY <2>1 DEF WriteInv
      <3> QED BY <1>6, <2>0, <3>1
    <2>2. CASE p = Owner[o] /\ w \in new
      <3>1. w.cache = c /\ w \in caches'[c].dirty \cup caches'[c].flight
        BY <1>2, <1>3, <2>2
      <3>2. ~config.lazy => w \in caches'[c].flight
        BY <1>2, <1>4, <3>1
      <3> QED BY <1>1, <2>0, <2>2, <3>1, <3>2
    <2> QED BY <1>5, <2>1, <2>2
  <1> QED BY <1>7 DEF WriteInv, Pending

LEMMA WriteStep ==
  ASSUME TypeOK, CallInv, AccessInv, NumberInv, ExitInv, WriteInv, [Next]_vars
  PROVE  WriteInv'
  <1> USE DEF cassandra, process, ghosts
  <1>g. Grows
    BY GrowStep
  <1>a. ASSUME UNCHANGED <<caches, written>>, \A p \in Procs : phase'[p] = "running" => phase[p] = "running"
        PROVE  WriteInv'
    <2>1. \A a \in DOMAIN caches :
           /\ caches[a].flight \subseteq stored' \cup caches'[a].flight
           /\ Pending(a) \subseteq stored' \cup caches'[a].dirty \cup caches'[a].flight
      BY <1>a DEF Pending
    <2> QED BY <1>a, <1>g, <2>1, WriteFrame
  <1>1. ASSUME NEW o \in Objs, ActsOn(o) PROVE WriteInv'
    <2>1. CASE initialize_dataAcces(o)
      <3>1. Fresh(Owner[o]) \notin DOMAIN caches
        BY FreshLemma
      <3>2. caches' = [a \in DOMAIN caches \cup Added(o) |->
                         IF a = Fresh(Owner[o]) THEN Table(o, WriterOf(o))
                         ELSE IF a \in DOMAIN caches THEN caches[a]
                         ELSE Table(o, StaticCache(Owner[o]))]
        BY <2>1, OpenStep
      <3>3. \A a \in DOMAIN caches : caches'[a] = caches[a]
        BY <3>1, <3>2
      <3>4. \A a \in DOMAIN caches :
              /\ caches[a].flight \subseteq stored' \cup caches'[a].flight
              /\ Pending(a) \subseteq stored' \cup caches'[a].dirty \cup caches'[a].flight
        BY <3>3 DEF Pending
      <3>5. UNCHANGED <<written, phase>>
        BY <2>1 DEF initialize_dataAcces
      <3> QED BY <1>g, <3>4, <3>5, WriteFrame
    <2>2. CASE persist_data(o)
      <3>1. CASE UNCHANGED <<caches, written>>
        BY <1>a, <2>2, <3>1 DEF persist_data
      <3>2. CASE write_to_cassandra(o, {<<obj[o].sid, b>> : b \in Blocks})
        BY <1>g, <2>2, <3>2, DataStep, WriteWrite DEF persist_data
      <3> QED BY <2>2, <3>1, <3>2 DEF persist_data
    <2>3. CASE setItem(o) \/ setAttr(o)
      BY <1>g, <2>3, SetStep, WriteWrite DEF Writes
    <2>4. CASE sync(o)
      <3>1. \A a \in DOMAIN caches :
              /\ caches'[a].dirty \cup caches'[a].flight = Pending(a)
              /\ caches[a].flight \subseteq caches'[a].flight
        BY <2>4, FlushEffect DEF sync
      <3>2. UNCHANGED <<written, phase>>
        BY <2>4 DEF sync
      <3> QED BY <1>g, <3>1, <3>2, WriteFrame
    <2>5. CASE UNCHANGED <<caches, written, phase>>
      BY <1>a, <2>5
    <2> QED
      BY <1>1, <2>1, <2>2, <2>3, <2>4, <2>5 DEF ActsOn, make_persistent, getByAlias, create_table,
         create_keyspace, query_fails, access_fails, Throws, persist_metadata, read_numpy,
         sync_ends, destroy, assign
  <1>2. ASSUME NEW c \in DOMAIN caches, applied(c) PROVE WriteInv'
    <2>1. /\ \A a \in DOMAIN caches : a # c => caches'[a] = caches[a]
          /\ caches'[c].dirty = caches[c].dirty
          /\ \E w \in caches[c].flight :
               caches'[c].flight = caches[c].flight \ {w} /\ stored' = stored \cup {w}
      BY <1>2, AppliedEffect
    <2>2. UNCHANGED <<written, phase>>
      BY <1>2 DEF applied
    <2>3. \A a \in DOMAIN caches :
            /\ caches[a].flight \subseteq stored' \cup caches'[a].flight
            /\ Pending(a) \subseteq stored' \cup caches'[a].dirty \cup caches'[a].flight
      BY <2>1 DEF Pending
    <2> QED BY <1>g, <2>2, <2>3, WriteFrame
  <1>3. ASSUME NEW p \in Procs, main_returns(p) PROVE WriteInv'
    <2>1. \A q \in Procs : phase'[q] = "running" => phase[q] = "running"
      BY <1>3 DEF main_returns, TypeOK
    <2> QED BY <1>a, <1>3, <2>1 DEF main_returns
  <1>4. ASSUME NEW p \in Procs, exit(p) PROVE WriteInv'
    <2>1. /\ UNCHANGED written /\ LocalTables(p)
          /\ \A a \in DOMAIN caches : caches[a].flight \subseteq caches'[a].flight
      BY <1>4, ExitEffect
    <2>2. phase'[p] # "running" /\ \A q \in Procs : phase'[q] = "running" => phase[q] = "running"
      <3>1. phase[p] = "exit" /\ (UNCHANGED phase \/ phase' = [phase EXCEPT ![p] = "ended"])
        BY <1>4 DEF exit, flush_at_exit, destroyed
      <3>2. phase \in [Procs -> {"running", "exit", "ended"}]
        BY DEF TypeOK
      <3> QED BY <3>1, <3>2
    <2>3. \A a \in DOMAIN caches :
            /\ caches[a].flight \subseteq stored' \cup caches'[a].flight
            /\ phase'[a[1]] = "running" => Pending(a) \subseteq stored' \cup caches'[a].dirty \cup caches'[a].flight
      BY <2>1, <2>2 DEF LocalTables, Pending
    <2> QED BY <1>g, <2>1, <2>2, <2>3, WriteFrame
  <1>5. CASE UNCHANGED vars
    BY <1>a, <1>5 DEF vars
  <1> QED BY <1>1, <1>2, <1>3, <1>4, <1>5, NextCases

-----------------------------------------------------------------------------
(* Static objects. *)

LEMMA RangeLemma ==
  ASSUME NEW S, NEW q \in Seq(S), NEW e \in S
  PROVE  /\ Append(q, e) \in Seq(S) /\ Len(Append(q, e)) = Len(q) + 1
         /\ \A i \in 1 .. Len(q) : Append(q, e)[i] = q[i]
         /\ Append(q, e)[Len(q) + 1] = e
         /\ Range(q) \subseteq Range(Append(q, e)) /\ e \in Range(Append(q, e))
         /\ Len(q) > 0 => Range(q) \subseteq Range(Front(q)) \cup {Last(q)}
  <1>1. /\ Append(q, e) \in Seq(S) /\ Len(Append(q, e)) = Len(q) + 1
        /\ \A i \in 1 .. Len(q) : Append(q, e)[i] = q[i]
        /\ Append(q, e)[Len(q) + 1] = e
    BY AppendProperties
  <1>2. Len(q) \in Nat /\ DOMAIN q = 1 .. Len(q)
    BY LenProperties
  <1> DEFINE r == Append(q, e)
  <1>3. DOMAIN r = 1 .. Len(q) + 1
    BY <1>1, LenProperties
  <1> HIDE DEF r
  <1>4. /\ \A i \in 1 .. Len(q) : r[i] = q[i]
        /\ r[Len(q) + 1] = e
    BY <1>1 DEF r
  <1>5. Range(q) \subseteq Range(r) /\ e \in Range(r)
    BY <1>2, <1>3, <1>4 DEF Range
  <1>6. ASSUME Len(q) > 0 PROVE Range(q) \subseteq Range(Front(q)) \cup {Last(q)}
    <2> DEFINE f == Front(q)
               z == Last(q)
    <2>1. z = q[Len(q)] /\ f \in Seq(S) /\ Len(f) = Len(q) - 1 /\ \A i \in 1 .. Len(q) - 1 : f[i] = q[i]
      BY <1>6, FrontLemma
    <2>2. DOMAIN f = 1 .. Len(q) - 1
      BY <2>1, LenProperties
    <2> HIDE DEF f, z
    <2>3. ASSUME NEW i \in DOMAIN q PROVE q[i] \in Range(f) \cup {z}
      <3>1. i \in 1 .. Len(q) - 1 \/ i = Len(q)
        BY <1>2
      <3> QED BY <2>1, <2>2, <3>1 DEF Range
    <2>4. Range(q) \subseteq Range(f) \cup {z}
      BY <2>3 DEF Range
    <2> QED BY <2>4 DEF f, z
  <1> QED BY <1>1, <1>5, <1>6 DEF r

\* The static objects of a program that do not change, or get one more.
LEMMA StaticsGrow ==
  ASSUME TypeOK, ExitInv, NEW p \in Procs, phase[p] = "running", phase'[p] = "running",
         gone'[p] = gone[p],
         \/ statics'[p] = statics[p]
         \/ \E s \in {"staticCache", "WriterThread"} : statics'[p] = Append(statics[p], s),
         written'[p] = written[p] \/ "WriterThread" \in Range(statics'[p])
  PROVE  ExitOK(p)'
  <1>0. /\ statics[p] \in Seq(Statics) /\ Len(statics[p]) > 0 /\ statics[p][1] = "session"
        /\ \A i \in DOMAIN statics[p] : statics[p][i] = "session" => i = 1
        /\ "WriterThread" \notin gone[p]
        /\ written[p] # {} => "WriterThread" \in Range(statics[p])
    BY DEF TypeOK, ExitInv, ExitOK
  <1>1. /\ Len(statics'[p]) > 0 /\ statics'[p][1] = "session"
        /\ \A i \in DOMAIN statics'[p] : statics'[p][i] = "session" => i = 1
        /\ Range(statics[p]) \subseteq Range(statics'[p])
    <2>1. CASE statics'[p] = statics[p]
      BY <1>0, <2>1
    <2>2. ASSUME NEW s \in {"staticCache", "WriterThread"}, statics'[p] = Append(statics[p], s)
          PROVE  /\ Len(statics'[p]) > 0 /\ statics'[p][1] = "session"
                 /\ \A i \in DOMAIN statics'[p] : statics'[p][i] = "session" => i = 1
                 /\ Range(statics[p]) \subseteq Range(statics'[p])
      <3> DEFINE q == statics[p]
                 r == statics'[p]
      <3>1. q \in Seq(Statics) /\ s \in Statics /\ s # "session"
        BY <1>0 DEF Statics
      <3>2. /\ r \in Seq(Statics) /\ Len(r) = Len(q) + 1 /\ \A i \in 1 .. Len(q) : r[i] = q[i]
            /\ r[Len(q) + 1] = s /\ Range(q) \subseteq Range(r)
        BY <2>2, <3>1, RangeLemma
      <3>3. DOMAIN q = 1 .. Len(q) /\ DOMAIN r = 1 .. Len(q) + 1 /\ Len(q) \in Nat
        BY <3>1, <3>2, LenProperties
      <3>4. Len(q) > 0 /\ q[1] = "session" /\ \A i \in DOMAIN q : q[i] = "session" => i = 1
        BY <1>0
      <3> HIDE DEF q, r
      <3>5. Len(r) > 0 /\ r[1] = "session"
        BY <3>2, <3>3, <3>4
      <3>6. ASSUME NEW i \in DOMAIN r, r[i] = "session" PROVE i = 1
        <4>1. i \in 1 .. Len(q) \/ i = Len(q) + 1
          BY <3>3
        <4> QED BY <3>1, <3>2, <3>3, <3>4, <3>6, <4>1
      <3> QED BY <3>2, <3>5, <3>6 DEF q, r
    <2> QED BY <2>1, <2>2
  <1> QED BY <1>0, <1>1 DEF ExitOK

LEMMA ExitFrame ==
  ASSUME TypeOK, ExitInv, NEW p, Local(p), NEW q \in Procs, q # p
  PROVE  ExitOK(q)'
  <1>1. /\ phase'[q] = phase[q] /\ statics'[q] = statics[q] /\ gone'[q] = gone[q] /\ written'[q] = written[q]
    BY DEF Local
  <1>2. \A a \in Accesses(q)' : a \in Accesses(q) /\ caches'[a] = caches[a]
    BY DEF Local, LocalTables, Accesses
  <1> QED BY <1>1, <1>2 DEF ExitInv, ExitOK

LEMMA ActsRunning ==
  ASSUME TypeOK, CallInv, NEW o \in Objs, ActsOn(o)
  PROVE  phase[Owner[o]] = "running" /\ UNCHANGED <<phase, gone>>
  <1> USE DEF cassandra, process, ghosts
  <1>1. Starts(Owner[o]) \/ \E s \in Steps : At(o, s)
    BY DEF ActsOn, make_persistent, getByAlias, create_table, create_keyspace, initialize_dataAcces,
       query_fails, access_fails, persist_metadata, persist_data, read_numpy, setItem,
       setAttr, Writes, sync, sync_ends, destroy, assign, Steps
  <1>2. phase[Owner[o]] = "running"
    BY <1>1, StepTypes DEF Starts
  <1>3. UNCHANGED <<phase, gone>>
    BY DEF ActsOn, make_persistent, getByAlias, create_table, create_keyspace, initialize_dataAcces,
       query_fails, access_fails, Throws, persist_metadata, persist_data, read_numpy, setItem,
       setAttr, Writes, sync, sync_ends, destroy, assign
  <1> QED BY <1>2, <1>3

LEMMA ActsStatics ==
  ASSUME TypeOK, CallInv, NEW o \in Objs, ActsOn(o), NEW p, p = Owner[o]
  PROVE  /\ \/ statics'[p] = statics[p]
            \/ \E s \in {"staticCache", "WriterThread"} : statics'[p] = Append(statics[p], s)
         /\ written'[p] = written[p] \/ "WriterThread" \in Range(statics'[p])
  <1> USE DEF cassandra, process, ghosts
  <1>0. p \in Procs /\ statics[p] \in Seq(Statics) /\ "WriterThread" \in Statics
    BY DEF TypeOK, Statics
  <1>1. ASSUME StaticsOfWriter(p)
        PROVE  /\ statics'[p] = statics[p] \/ statics'[p] = Append(statics[p], "WriterThread")
               /\ "WriterThread" \in Range(statics'[p])
    <2>1. CASE "WriterThread" \in Range(statics[p])
      BY <1>1, <2>1 DEF StaticsOfWriter
    <2>2. CASE "WriterThread" \notin Range(statics[p])
      <3>1. statics'[p] = Append(statics[p], "WriterThread")
        BY <1>0, <1>1, <2>2 DEF StaticsOfWriter, TypeOK
      <3> QED BY <1>0, <3>1, RangeLemma
    <2> QED BY <2>1, <2>2
  <1>2. CASE initialize_dataAcces(o)
    BY <1>0, <1>2 DEF initialize_dataAcces, TypeOK
  <1>3. CASE persist_metadata(o)
    BY <1>1, <1>3 DEF persist_metadata, registerNumpy
  <1>4. CASE persist_data(o)
    BY <1>1, <1>4 DEF persist_data, write_to_cassandra
  <1>5. CASE setItem(o) \/ setAttr(o)
    BY <1>1, <1>5 DEF setItem, setAttr, Writes, write_to_cassandra
  <1>6. CASE UNCHANGED <<statics, written>>
    BY <1>6
  <1> QED
    BY <1>2, <1>3, <1>4, <1>5, <1>6 DEF ActsOn, make_persistent, getByAlias, create_table,
       create_keyspace, query_fails, access_fails, Throws, read_numpy, sync, sync_ends, destroy, assign

LEMMA ExitStep ==
  ASSUME TypeOK, CallInv, AccessInv, NumberInv, ExitInv, [Next]_vars
  PROVE  ExitInv'
  <1> USE DEF cassandra, process, ghosts
  <1>1. ASSUME NEW o \in Objs, ActsOn(o) PROVE ExitInv'
    <2> DEFINE p == Owner[o]
    <2>0. p \in Procs /\ Local(p)
      BY <1>1, LocalAction
    <2>1. phase[p] = "running" /\ phase'[p] = "running" /\ gone'[p] = gone[p]
      BY <1>1, ActsRunning
    <2>2. /\ \/ statics'[p] = statics[p]
             \/ \E s \in {"staticCache", "WriterThread"} : statics'[p] = Append(statics[p], s)
          /\ written'[p] = written[p] \/ "WriterThread" \in Range(statics'[p])
      BY <1>1, ActsStatics
    <2> HIDE DEF p
    <2>3. ExitOK(p)'
      BY <2>0, <2>1, <2>2, StaticsGrow
    <2>4. \A q \in Procs : q # p => ExitOK(q)'
      BY <2>0, ExitFrame
    <2> QED BY <2>3, <2>4 DEF ExitInv
  <1>2. ASSUME NEW c \in DOMAIN caches, applied(c) PROVE ExitInv'
    <2>1. /\ SameTables
          /\ \A a \in DOMAIN caches : a # c => caches'[a] = caches[a]
          /\ \E w \in caches[c].flight : caches'[c].flight = caches[c].flight \ {w}
      BY <1>2, AppliedEffect
    <2>2. UNCHANGED <<phase, statics, gone, written>>
      BY <1>2 DEF applied
    <2>3. DOMAIN caches' = DOMAIN caches /\ \A a \in DOMAIN caches : caches[a].flight = {} => caches'[a].flight = {}
      BY <2>1 DEF SameTables
    <2>4. ASSUME NEW p \in Procs PROVE ExitOK(p)'
      <3>1. ExitOK(p) /\ Accesses(p)' = Accesses(p) /\ Accesses(p) \subseteq DOMAIN caches
        BY <2>3 DEF ExitInv, Accesses
      <3> QED BY <2>2, <2>3, <3>1 DEF ExitOK
    <2> QED BY <2>4 DEF ExitInv
  <1>3. ASSUME NEW p \in Procs, main_returns(p) PROVE ExitInv'
    <2>1. Local(p)
      BY <1>3, LocalExit
    <2>2. /\ phase[p] = "running" /\ phase'[p] = "exit"
          /\ UNCHANGED <<statics, gone, written, caches>>
      BY <1>3 DEF main_returns, TypeOK
    <2>3. ExitOK(p) /\ Accesses(p)' = Accesses(p)
      BY <2>2 DEF ExitInv, Accesses
    <2>4. ExitOK(p)'
      BY <2>2, <2>3 DEF ExitOK
    <2> QED BY <2>1, <2>4, ExitFrame DEF ExitInv
  <1>4. ASSUME NEW p \in Procs, exit(p) PROVE ExitInv'
    <2>1. Local(p)
      BY <1>4, LocalExit
    <2>2. /\ SameTables /\ UNCHANGED written
          /\ \A a \in DOMAIN caches : "WriterThread" \in gone[p] => caches'[a].flight = caches[a].flight
      BY <1>4, ExitEffect
    <2>3. /\ statics[p] \in Seq(Statics) /\ Len(statics[p]) > 0
          /\ Last(statics[p]) \in Statics /\ Last(statics[p]) = statics[p][Len(statics[p])]
          /\ phase[p] = "exit" /\ statics[p][1] = "session"
      BY <1>4, LastStatic
    <2>4. ExitOK(p) /\ Accesses(p)' = Accesses(p) /\ Accesses(p) \subseteq DOMAIN caches
      BY <2>2 DEF ExitInv, Accesses, SameTables
    <2>5. CASE flush_at_exit(p, Last(statics[p]))
      <3>1. UNCHANGED <<statics, gone, phase>>
        BY <2>5 DEF flush_at_exit
      <3> QED BY <2>1, <2>2, <2>3, <2>4, <3>1, ExitFrame DEF ExitInv, ExitOK
    <2>6. CASE destroyed(p, Last(statics[p]))
      <3> DEFINE s == Last(statics[p])
                 q == statics[p]
                 r == statics'[p]
      <3>1. /\ \A c \in WaitsFor(p, s) : caches[c].flight = {}
            /\ r = Front(q) /\ gone'[p] = gone[p] \cup {s}
            /\ phase'[p] = IF s = "session" THEN "ended" ELSE phase[p]
            /\ UNCHANGED caches
        BY <2>6 DEF destroyed, TypeOK
      <3>2. /\ r \in Seq(Statics) /\ Len(r) = Len(q) - 1
            /\ \A i \in 1 .. Len(q) - 1 : r[i] = q[i]
            /\ Range(q) \subseteq Range(r) \cup {s}
        BY <2>3, <3>1, FrontLemma, RangeLemma
      <3>3. DOMAIN q = 1 .. Len(q) /\ Len(q) \in Nat /\ Len(q) > 0 /\ q[1] = "session" /\ s = q[Len(q)]
        BY <2>3, LenProperties
      <3>4. DOMAIN r = 1 .. Len(q) - 1
        BY <3>2, LenProperties
      <3>5. /\ \A i \in DOMAIN q : q[i] = "session" => i = 1
            /\ written[p] # {} => "WriterThread" \in Range(q) \cup gone[p]
            /\ "WriterThread" \in gone[p] => \A a \in Accesses(p) : caches[a].flight = {}
        BY <2>4 DEF ExitOK
      <3>6. s = "WriterThread" => \A a \in Accesses(p) : caches[a].flight = {}
        BY <3>1 DEF WaitsFor
      <3> HIDE DEF s, q, r
      <3>7. s = "session" <=> Len(q) = 1
        BY <3>3, <3>5
      <3>8. phase'[p] # "ended" => Len(r) > 0 /\ r[1] = "session"
        <4>1. ASSUME phase'[p] # "ended" PROVE Len(q) > 1
          BY <3>1, <3>3, <3>7, <4>1
        <4> QED BY <3>2, <3>3, <4>1
      <3>9. phase'[p] = "ended" => Len(r) = 0
        BY <2>3, <3>1, <3>2, <3>3, <3>7
      <3>10. \A i \in DOMAIN r : r[i] = "session" => i = 1
        BY <3>2, <3>3, <3>4, <3>5
      <3>11. phase'[p] # "running"
        BY <2>3, <3>1
      <3>12. written'[p] # {} => "WriterThread" \in Range(r) \cup gone'[p]
        BY <2>2, <3>1, <3>2, <3>5
      <3>13. "WriterThread" \in gone'[p] => \A a \in Accesses(p)' : caches'[a].flight = {}
        BY <2>4, <3>1, <3>5, <3>6
      <3>14. ExitOK(p)'
        BY <3>8, <3>9, <3>10, <3>11, <3>12, <3>13 DEF ExitOK, r
      <3> QED BY <2>1, <3>14, ExitFrame DEF ExitInv
    <2> QED BY <1>4, <2>5, <2>6 DEF exit
  <1>5. CASE UNCHANGED vars
    BY <1>5 DEF vars, ExitInv, ExitOK, Accesses
  <1> QED BY <1>1, <1>2, <1>3, <1>4, <1>5, NextCases

-----------------------------------------------------------------------------
(* Arrays. *)

\* A block that is stored stays stored.
LEMMA StoredStays ==
  ASSUME Grows, NEW n, NEW b, StoredBlock(n, b)
  PROVE  StoredBlock(n, b)'
  <1>1. PICK w \in stored : w.cache \in DOMAIN caches /\ caches[w.cache].table = ArrayTable(n) /\ w.row = <<n, b>>
    BY DEF StoredBlock
  <1>2. w \in stored' /\ w.cache \in DOMAIN caches' /\ caches'[w.cache].table = caches[w.cache].table
    BY <1>1 DEF Grows, SameTable
  <1>3. config' = config
    BY DEF Grows
  <1> QED BY <1>1, <1>2, <1>3 DEF StoredBlock, ArrayTable

\* What a synchronisation that ends has published is stored.
LEMMA PublishedStored ==
  ASSUME TypeOK, CallInv, AccessInv, OpenInv, WriteInv, NEW o \in Objs, sync_ends(o),
         NEW n \in published' \ published, NEW b \in Blocks
  PROVE  StoredBlock(n, b)
  <1> DEFINE c == WriteCache(obj[o].access)
  <1>1. "sync" \in Steps /\ At(o, "sync")
    BY DEF sync_ends, Steps
  <1>2. /\ Owner[o] \in Procs /\ phase[Owner[o]] = "running" /\ Attrs(o) /\ call[Owner[o]] # Idle
        /\ call[Owner[o]].obj = o /\ call[Owner[o]].at = "sync"
    BY <1>1, StepTypes
  <1>3. o \in returned /\ obj[o].access # None
    BY <1>2 DEF CallInv, CallOK
  <1>4. c \in DOMAIN caches /\ caches[c].table = caches[obj[o].access].table
    BY <1>3, OwnWriter
  <1>5. caches[obj[o].access].table = obj[o].table
    BY <1>3 DEF OpenInv, OpenOK, Opened
  <1>6. /\ n = obj[o].sid /\ kind(o) = "numpy" /\ Pending(c) = {}
        /\ \E w \in written[Owner[o]] : w.cache = c /\ w.row = <<n, b>>
    BY DEF sync_ends, is_write_completed
  <1>7. obj[o].table = ArrayTable(n)
    BY <1>2, <1>6 DEF Attrs, assignTableName, ArrayTable, kind
  <1> HIDE DEF c
  <1>8. PICK w \in written[Owner[o]] : w.cache = c /\ w.row = <<n, b>>
    BY <1>6
  <1>9. w \in stored
    BY <1>2, <1>6, <1>8 DEF WriteInv
  <1> QED BY <1>4, <1>5, <1>7, <1>8, <1>9 DEF StoredBlock

\* An array that is looked up after it was published is read as a whole.
LEMMA ReadWhole ==
  ASSUME TypeOK, CallInv, LoadInv, NEW o \in Objs, read_numpy(o), loaded[o].promised
  PROVE  loaded'[o].blocks = Blocks
  <1>1. "read" \in Steps /\ At(o, "read")
    BY DEF read_numpy, Steps
  <1>2. /\ Owner[o] \in Procs /\ Attrs(o) /\ call[Owner[o]] # Idle
        /\ call[Owner[o]].obj = o /\ call[Owner[o]].at = "read"
    BY <1>1, StepTypes
  <1>3. kind(o) = "numpy"
    BY <1>2 DEF CallInv, CallOK
  <1>4. obj[o].table = ArrayTable(obj[o].sid)
    BY <1>2, <1>3 DEF Attrs, assignTableName, ArrayTable, kind
  <1>5. obj[o].sid \in published
    BY <1>1 DEF LoadInv, LoadOK
  <1>6. \A b \in Blocks : \E w \in stored : caches[w.cache].table = obj[o].table /\ w.row = <<obj[o].sid, b>>
    <2>1. \A b \in Blocks : StoredBlock(obj[o].sid, b)
      BY <1>5 DEF LoadInv
    <2> QED BY <1>4, <2>1 DEF StoredBlock
  <1> DEFINE found == {b \in Blocks : \E w \in stored :
                         caches[w.cache].table = obj[o].table /\ w.row = <<obj[o].sid, b>>}
  <1>7. loaded' = [loaded EXCEPT ![o].blocks = found]
    BY DEF read_numpy
  <1>8. found = Blocks
    BY <1>6
  <1> HIDE DEF found
  <1> QED BY <1>7, <1>8 DEF TypeOK

LEMMA LoadStep ==
  ASSUME TypeOK, CallInv, AccessInv, NumberInv, ExitInv, OpenInv, WriteInv, LoadInv, [Next]_vars
  PROVE  LoadInv'
  <1> USE DEF cassandra, process, ghosts
  <1>g. Grows
    BY GrowStep
  <1>s. \A n \in published : \A b \in Blocks : StoredBlock(n, b)'
    BY <1>g, StoredStays DEF LoadInv
  \* A variable that keeps what it has loaded.
  <1>a. ASSUME NEW x \in Objs, loaded'[x] = loaded[x], ~At(x, "open")', ~At(x, "read")' PROVE LoadOK(x)'
    BY <1>a, <1>g DEF LoadInv, LoadOK, Grows, kind
  <1>b. ASSUME NEW x \in Objs, loaded'[x] = loaded[x], obj'[x].sid = obj[x].sid,
               At(x, "open")' \/ At(x, "read")' => At(x, "open") \/ At(x, "read")
        PROVE  LoadOK(x)'
    BY <1>b, <1>g DEF LoadInv, LoadOK, Grows, kind
  <1>st. {"create", "access", "metadata", "data", "open", "read", "sync"} = Steps
    BY DEF Steps
  <1>1. ASSUME NEW o \in Objs, ActsOn(o) PROVE LoadInv'
    <2>0. /\ Owner[o] \in Procs /\ class[o] \in Classes
          /\ obj \in [Objs -> ObjRecord] /\ call \in [Procs -> CallRecord] /\ loaded \in [Objs -> LoadRecord]
      BY TypeParts DEF TypeOK
    <2>1. ASSUME NEW x \in Objs, x # o PROVE LoadOK(x)'
      <3>1. obj'[x] = obj[x] /\ loaded'[x] = loaded[x] /\ \A s \in Steps : At(x, s)' => At(x, s)
        BY <1>1, <2>1, ActsOther
      <3> QED BY <1>b, <1>st, <3>1
    <2>2. ASSUME NEW n \in published', NEW b \in Blocks PROVE StoredBlock(n, b)'
      <3>1. CASE n \in published
        BY <1>s, <3>1
      <3>2. CASE sync_ends(o) /\ n \notin published
        BY <1>g, <3>2, PublishedStored, StoredStays
      <3>3. CASE UNCHANGED published
        BY <1>s, <3>3
      <3> QED
        BY <1>1, <3>1, <3>2, <3>3 DEF ActsOn, make_persistent, getByAlias, create_table, create_keyspace,
           initialize_dataAcces, query_fails, access_fails, Throws, persist_metadata, persist_data,
           read_numpy, setItem, setAttr, Writes, sync, destroy, assign
    <2>3. SUFFICES LoadOK(o)'
      BY <2>1, <2>2 DEF LoadInv
    \* Where the call on the variable gets to.
    <2>c. ASSUME NEW s \in Steps, Goes(o, s), NEW t \in Steps, At(o, t)
          PROVE  \A u \in Steps : At(o, u)' => u = s
      <3>1. call'[Owner[o]] = [at |-> s, obj |-> o]
        BY <2>0, <2>c, StepTypes, GoesEffect
      <3> QED BY <3>1, IdleAt
    <2>d. ASSUME Returns(o) PROVE \A u \in Steps : ~At(o, u)'
      BY <2>0, <2>d, ReturnsEffect, IdleAt
    <2>e. ASSUME NEW s \in Steps, call' = [call EXCEPT ![Owner[o]] = [at |-> s, obj |-> o]]
          PROVE  \A u \in Steps : At(o, u)' => u = s
      <3>1. call'[Owner[o]] = [at |-> s, obj |-> o]
        BY <2>0, <2>e
      <3> QED BY <3>1, IdleAt
    <2>f. ASSUME UNCHANGED call PROVE \A u \in Steps : At(o, u)' => At(o, u)
      BY <2>f DEF At
    <2>4. ASSUME NEW n \in Names, make_persistent(o, n) PROVE LoadOK(o)'
      BY <1>a, <1>st, <2>4, <2>e DEF make_persistent
    <2>5. ASSUME NEW n \in Names, getByAlias(o, n) PROVE LoadOK(o)'
      <3>1. CASE UNCHANGED <<obj, call, loaded>>
        BY <1>b, <1>st, <2>f, <3>1
      <3>2. CASE /\ init_persistent_attributes(o, n)
                 /\ loaded' = [loaded EXCEPT ![o] = [promised |-> n \in published, blocks |-> Blocks]]
        <4>1. obj'[o].sid = n
          BY <2>0, <3>2, AttrsEffect
        <4> DEFINE v == n \in published
        <4>2. loaded'[o] = [promised |-> v, blocks |-> Blocks]
          BY <2>0, <3>2
        <4>a. v => n \in published
          OBVIOUS
        <4> HIDE DEF v
        <4>b. loaded'[o].blocks = Blocks /\ loaded'[o].promised = v
          BY <4>2
        <4>3. loaded'[o].blocks = Blocks /\ (loaded'[o].promised => n \in published)
          BY <4>a, <4>b
        <4> QED BY <1>g, <4>1, <4>3 DEF LoadOK, Grows
      <3> QED BY <2>5, <3>1, <3>2 DEF getByAlias
    <2>6. CASE create_table(o)
      BY <1>a, <1>st, <2>6, <2>c DEF create_table
    <2>7. CASE create_keyspace(o) \/ setItem(o) \/ setAttr(o)
      BY <1>b, <1>st, <2>7, <2>f DEF create_keyspace, setItem, setAttr, Writes
    <2>8. CASE query_fails(o) \/ access_fails(o)
      BY <1>a, <1>st, <2>8, <2>d DEF query_fails, access_fails, Throws
    <2>9. CASE initialize_dataAcces(o)
      <3>1. obj' = [obj EXCEPT ![o].access = Fresh(Owner[o])]
        BY <2>9, OpenStep
      <3>2. obj'[o].sid = obj[o].sid
        BY <2>0, <3>1 DEF ObjRecord
      <3>3. loaded'[o] = loaded[o]
        BY <2>9 DEF initialize_dataAcces
      <3>4. At(o, "open")' \/ At(o, "read")' => At(o, "open") \/ At(o, "read")
        BY <1>st, <2>9, <2>c, <2>d DEF initialize_dataAcces
      <3> QED BY <1>b, <3>2, <3>3, <3>4
    <2>10. CASE persist_metadata(o)
      BY <1>a, <1>st, <2>10, <2>c DEF persist_metadata
    <2>11. CASE persist_data(o) \/ sync_ends(o)
      BY <1>a, <1>st, <2>11, <2>d DEF persist_data, sync_ends
    <2>12. CASE read_numpy(o)
      <3>1. \A u \in Steps : ~At(o, u)'
        BY <2>12, <2>d DEF read_numpy
      <3>2. loaded'[o].promised = loaded[o].promised
        BY <2>0, <2>12 DEF read_numpy, LoadRecord
      <3> QED BY <1>st, <2>12, <3>1, <3>2, ReadWhole DEF LoadOK
    <2>13. CASE sync(o)
      BY <1>a, <1>st, <2>13, <2>e DEF sync
    <2>14. CASE destroy(o)
      <3>1. ~loaded'[o].promised
        BY <2>0, <2>14 DEF destroy, Unread
      <3> QED BY <3>1 DEF LoadOK
    <2>15. ASSUME NEW src \in Objs, assign(o, src) PROVE LoadOK(o)'
      <3>1. call[Owner[o]] = Idle /\ UNCHANGED <<call, loaded>>
        BY <2>15 DEF assign, Starts
      <3> QED BY <1>a, <1>st, <3>1, IdleAt
    <2> QED
      BY <1>1, <2>4, <2>5, <2>6, <2>7, <2>8, <2>9, <2>10, <2>11, <2>12, <2>13, <2>14, <2>15 DEF ActsOn
  <1>2. ASSUME UNCHANGED <<obj, loaded, call, published>> PROVE LoadInv'
    <2>1. \A x \in Objs : At(x, "open")' \/ At(x, "read")' => At(x, "open") \/ At(x, "read")
      BY <1>2 DEF At
    <2> QED BY <1>b, <1>s, <1>2, <2>1 DEF LoadInv
  <1>3. ASSUME NEW c \in DOMAIN caches, applied(c) PROVE LoadInv'
    BY <1>2, <1>3 DEF applied
  <1>4. ASSUME NEW p \in Procs, main_returns(p) PROVE LoadInv'
    <2>1. UNCHANGED <<call, published>>
      BY <1>4 DEF main_returns
    <2>2. \A x \in Objs : loaded'[x] = Unread \/ (obj'[x] = obj[x] /\ loaded'[x] = loaded[x])
      BY <1>4 DEF main_returns
    <2>3. ASSUME NEW x \in Objs PROVE LoadOK(x)'
      <3>1. CASE loaded'[x] = Unread
        BY <3>1 DEF LoadOK, Unread
      <3>2. CASE obj'[x] = obj[x] /\ loaded'[x] = loaded[x]
        <4>1. At(x, "open")' \/ At(x, "read")' => At(x, "open") \/ At(x, "read")
          BY <2>1 DEF At
        <4> QED BY <1>b, <3>2, <4>1
      <3> QED BY <2>2, <3>1, <3>2
    <2> QED BY <1>s, <2>1, <2>3 DEF LoadInv
  <1>5. ASSUME NEW p \in Procs, exit(p) PROVE LoadInv'
    BY <1>2, <1>5 DEF exit
  <1>6. CASE UNCHANGED vars
    BY <1>2, <1>6 DEF vars
  <1> QED BY <1>1, <1>3, <1>4, <1>5, <1>6, NextCases

-----------------------------------------------------------------------------
(* The theorems. *)

\* The inductive invariant.
SessionInv ==
  /\ TypeOK /\ CallInv /\ AccessInv /\ NumberInv /\ ExitInv
  /\ OpenInv /\ RegistrySound /\ AliveWhilePending /\ WriteInv /\ LoadInv

LEMMA SessionInit == Init => SessionInv
  <1> SUFFICES ASSUME Init PROVE SessionInv
    OBVIOUS
  <1>1. TypeOK
    BY TypeInit
  <1>2. DOMAIN caches = {} /\ \A p \in Procs : Accesses(p) = {} /\ Own(p) = {}
    BY DEF Init, Accesses, Own
  <1>3. \A p \in Procs : call[p] = Idle /\ written[p] = {} /\ alive_objects[p] = {} /\ gone[p] = {}
    BY DEF Init
  <1>4. \A o \in Objs : obj[o] = Volatile /\ loaded[o] = Unread /\ Owner[o] \in Procs
    BY DEF Init
  <1>5. CallInv
    BY <1>3, <1>4 DEF CallInv, CallOK, ObjOK, Volatile, Init
  <1>6. AccessInv
    BY <1>2, <1>3, <1>4 DEF AccessInv, UserOK, ListOK, Volatile
  <1>7. NumberInv
    BY <1>2, FS_EmptySet DEF NumberInv
  <1>8. ExitInv
    <2>1. ASSUME NEW p \in Procs PROVE ExitOK(p)
      <3>1. statics[p] = <<"session">> /\ phase[p] = "running"
        BY DEF Init
      <3>2. Len(statics[p]) = 1 /\ DOMAIN statics[p] = 1 .. 1 /\ statics[p][1] = "session"
        BY <3>1
      <3> QED BY <1>3, <3>1, <3>2 DEF ExitOK
    <2> QED BY <2>1 DEF ExitInv
  <1>9. \A o \in Objs, s \in Steps : ~At(o, s)
    BY <1>3, <1>4, IdleAt
  <1>10. OpenInv
    <2>1. {"metadata", "data", "open", "read"} \subseteq Steps /\ returned = {}
      BY DEF Steps, Init
    <2> QED BY <1>9, <2>1 DEF OpenInv, OpenOK
  <1>11. RegistrySound
    BY DEF RegistrySound, Init
  <1>12. AliveWhilePending
    BY <1>2 DEF AliveWhilePending, Own
  <1>13. WriteInv
    BY <1>3 DEF WriteInv
  <1>14. LoadInv
    BY <1>4 DEF LoadInv, LoadOK, Unread, Init
  <1> QED BY <1>1, <1>5, <1>6, <1>7, <1>8, <1>10, <1>11, <1>12, <1>13, <1>14 DEF SessionInv

LEMMA SessionStep == SessionInv /\ [Next]_vars => SessionInv'
  <1> SUFFICES ASSUME SessionInv, [Next]_vars PROVE SessionInv'
    OBVIOUS
  <1>0. /\ TypeOK /\ CallInv /\ AccessInv /\ NumberInv /\ ExitInv
        /\ OpenInv /\ RegistrySound /\ AliveWhilePending /\ WriteInv /\ LoadInv
    BY DEF SessionInv
  <1>1. TypeOK' /\ AccessInv'
    BY <1>0, TypeStep, AccessStep
  <1>2. AliveWhilePending'
    <2>1. \A q \in Procs : Live(q)'
      BY <1>0, <1>1, LiveStep
    <2> QED BY <2>1 DEF AliveWhilePending, Live, Own, is_write_completed
  <1>3. CallInv' /\ NumberInv' /\ ExitInv'
    BY <1>0, CallStep, NumberStep, ExitStep
  <1>4. OpenInv' /\ RegistrySound'
    BY <1>0, OpenStepInv, RegistryStep
  <1>5. WriteInv' /\ LoadInv'
    BY <1>0, WriteStep, LoadStep
  <1> QED BY <1>1, <1>2, <1>3, <1>4, <1>5 DEF SessionInv

LEMMA SessionInvariant == Spec => []SessionInv
  BY SessionInit, SessionStep, PTL DEF Spec

\* Whatever programs race for a name and whichever query fails, a name that is registered in
\* hecuba.istorage can be opened: its table has every column of the registered class by name,
\* which is all that make_cache asks for (CREATE TABLE, initialize_dataAcces and
\* persist_metadata of make_persistent).
THEOREM RegistryTheorem == Spec => []RegistrySound
  <1>1. SessionInv => RegistrySound
    BY DEF SessionInv
  <1> QED BY <1>1, SessionInvariant, PTL

\* A variable whose make_persistent or getByAlias returned writes to its own table, which has
\* every column of its class by name, and is registered under its name, whatever was called on it,
\* copied to it or done by other programs since.
THEOREM PersistentTheorem == Spec => []ReturnedPersistent
  <1>1. SessionInv => ReturnedPersistent
    <2> SUFFICES ASSUME SessionInv, NEW o \in returned
                 PROVE  /\ obj[o].access # None
                        /\ caches[WriteCache(obj[o].access)].table = obj[o].table
                        /\ TableMatches(o)
                        /\ istorage[obj[o].sid] # None
      BY DEF ReturnedPersistent
    <2>1. TypeOK /\ CallInv /\ AccessInv /\ OpenInv
      BY DEF SessionInv
    <2>2. o \in Objs
      BY <2>1 DEF TypeOK
    <2>3. obj[o].access # None
      BY <2>1, <2>2 DEF CallInv, ObjOK
    <2>4. Opened(o) /\ Found(o)
      BY <2>1, <2>2 DEF OpenInv, OpenOK
    <2>5. caches[WriteCache(obj[o].access)].table = caches[obj[o].access].table
      BY <2>1, <2>2, <2>3, OwnWriter
    <2> QED BY <2>3, <2>4, <2>5 DEF Opened, Found
  <1> QED BY <1>1, SessionInvariant, PTL

\* deallocateObjects never lets go of a table that a variable uses or that has a write which
\* Cassandra has not acknowledged.
THEOREM AliveTheorem == Spec => []AliveWhilePending
  <1>1. SessionInv => AliveWhilePending
    BY DEF SessionInv
  <1> QED BY <1>1, SessionInvariant, PTL

\* An array is read as a whole by every program that looks it up after the program that
\* made it persistent has synchronised it.
THEOREM SyncTheorem == Spec => []SyncedArrayIsWhole
  <1>1. SessionInv => SyncedArrayIsWhole
    BY DEF SessionInv, LoadInv, LoadOK, SyncedArrayIsWhole
  <1> QED BY <1>1, SessionInvariant, PTL

\* Without lazy writes a program ends with all its writes stored: the WriterThread is
\* destroyed before the session, and only when nothing that was queued is left.
THEOREM ExitTheorem == Spec => []ExitStoresWrites
  <1>1. SessionInv => ExitStoresWrites
    <2> SUFFICES ASSUME SessionInv, ~config.lazy, NEW p \in Procs, phase[p] = "ended", NEW w \in written[p]
                 PROVE  w \in stored
      BY DEF ExitStoresWrites
    <2>1. TypeOK /\ ExitOK(p) /\ WriteInv
      BY DEF SessionInv, ExitInv
    <2>2. w.cache \in DOMAIN caches /\ w.cache[1] = p /\ w \in stored \cup caches[w.cache].flight
      BY <2>1 DEF WriteInv
    <2>3. Range(statics[p]) = {}
      <3>1. statics[p] \in Seq(Statics) /\ Len(statics[p]) = 0
        BY <2>1 DEF TypeOK, ExitOK
      <3>2. DOMAIN statics[p] = {}
        BY <3>1, LenProperties
      <3> QED BY <3>2 DEF Range
    <2>4. "WriterThread" \in gone[p]
      BY <2>1, <2>3 DEF ExitOK
    <2>5. caches[w.cache].flight = {}
      BY <2>1, <2>2, <2>4 DEF ExitOK, Accesses
    <2> QED BY <2>2, <2>5
  <1> QED BY <1>1, SessionInvariant, PTL

=============================================================================

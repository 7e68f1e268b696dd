---------------------------- MODULE StorageNumpy ----------------------------
(***************************************************************************)
(* Persistent arrays of Python (hnumpy.py over HCache.cpp, NumpyStorage.cpp*)
(* and ArrayDataStore.cpp): an array is cut into blocks, views of it load  *)
(* the blocks they need and write back the blocks they touch, and parts of *)
(* it are handed to other processes by storage id.                         *)
(*                                                                         *)
(* A process has one array: the memory of its base numpy and the blocks    *)
(* its writer has not stored yet.  Python code is atomic; a block is read  *)
(* and written as a whole, and blocks are independent of each other.       *)
(***************************************************************************)
EXTENDS SpaceFillingCurve

CONSTANTS Arrays,        \* shape, element size and partition type of the array
          Main,          \* the process that creates the array
          Workers,       \* processes that open it, or a part of it
          Indexes(_),    \* index expressions for an array of some dimensions
          SplitLoaded,   \* may an array be split after some of it was loaded
          HandSlices,    \* may any view go to a task, or only the array and its split parts
          MaxViews(_),   \* bound: views of a process, for an array of some shape
          MaxOps(_)      \* bound: reads, writes and ufuncs

Procs == {Main} \cup Workers

\* A position, or a range with a step.
IndexPart == [kind : {"int"}, pos : Int] \cup [kind : {"slice"}, start : Int, stop : Int, step : Nat]

ASSUME NumpyAssumption ==
  /\ Main \notin Workers
  /\ Procs \cap Nat = {}                                \* storage ids are numbers
  /\ SplitLoaded \in BOOLEAN /\ HandSlices \in BOOLEAN
  /\ \A m \in Arrays :
       /\ MaxViews(m.dims) \in Nat /\ MaxOps(m.dims) \in Nat
       /\ Indexes(Len(m.dims)) \subseteq Seq(IndexPart)

VARIABLES
  array,         \* HArrayMetadata, and the blocks and the memory it stands for
  table,         \* Cassandra: the blocks, a set of partitions
  istorage,      \* Cassandra: view_serialization of each storage id
  mem,           \* memory of the base numpy of each process
  pending,       \* partitions each process wrote and Cassandra has not: a set for each call, in order
  views,         \* StorageNumpy objects
  owner,         \* process, or storage id on its way to one, that an element is left to
  failed,        \* processes that got an exception
  truth,         \* last value given to each element
  got,           \* values the last read returned, and should have
  ops            \* counted against the bound

cassandra == <<table, istorage>>
ghosts == <<owner, truth>>
vars == <<array, cassandra, mem, pending, views, ghosts, failed, got, ops>>

\* The offset of each element in the memory of the base numpy, by its position.
Places(m) ==
  [c \in {getIndexes(o, m.dims) : o \in 0 .. Product(m.dims) - 1} |->
    IF m.partition_type = FORTRANORDER THEN FortranIdFromIndexes(m.dims, c)
    ELSE getIdFromIndexes(m.dims, c)]
g == array.generator
place == array.place
Shape == g.dims
Offsets == DOMAIN truth
NothingRead == << >>

-----------------------------------------------------------------------------
(* Index expressions.  In a slice 0 stands for None: that is how           *)
(* removenones takes it, and s[a:0] is not written here.                   *)

int(i) == [kind |-> "int", pos |-> i]
slice(start, stop, step) == [kind |-> "slice", start |-> start, stop |-> stop, step |-> step]
All == slice(0, 0, 0)

\* What numpy selects of the positions of an axis (external).
Selected(axis, idx) ==
  LET n == Len(axis)
      at(i) == IF i < 0 THEN i + n ELSE i
      step == IF idx.step = 0 THEN 1 ELSE idx.step
      stop == IF idx.stop = 0 \/ idx.stop > n THEN n ELSE at(idx.stop)
  IN IF idx.kind = "int" THEN <<axis[at(idx.pos) + 1]>>
     ELSE LET k == (stop - at(idx.start) + step - 1) \div step
          IN [i \in 1 .. (IF k > 0 THEN k ELSE 0) |-> axis[at(idx.start) + (i - 1) * step + 1]]

removenones(n, maxstop) ==
  slice(n.start, IF n.stop = 0 THEN maxstop ELSE n.stop, IF n.step = 0 THEN 1 ELSE n.step)

_compose_index_base(s, pos) ==                             \* plausible bug: not relative to the view's start
  IF pos < 0 THEN s.stop + pos * s.step ELSE pos * s.step
_compose_index(s, pos) == IF pos < 0 THEN s.stop + pos * s.step ELSE s.start + pos * s.step

\* The base cases of view_composer_internal.
ComposeAxis(n, old, new) ==
  LET o == removenones(old, n)
      w == removenones(new, n)
  IN IF new.kind = "int" THEN int(_compose_index(o, new.pos))
     ELSE slice(_compose_index(o, w.start), Min({_compose_index(o, w.stop), o.stop}), o.step * w.step)

\* An index expression applies to the axes that are left, in turn: its i-th part is for the
\* axis j of the base that has rank i among them.
SliceAxes(ser) == {j \in DOMAIN ser : ser[j].kind = "slice"}
Rank(ser, j) == Cardinality({k \in SliceAxes(ser) : k <= j})
Indexed(ser, new, j) == j \in SliceAxes(ser) /\ Rank(ser, j) \in DOMAIN new

_view_composer_new(ser, new) ==
  [j \in DOMAIN ser |->
     IF Indexed(ser, new, j) THEN ComposeAxis(Shape[j], ser[j], new[Rank(ser, j)]) ELSE ser[j]]

\* On each axis, the blocks between the first and the last element of a view.
calculate_list_of_ranges_of_block_coords(ser) ==
  LET SIZE == g.row_elements
  IN [j \in DOMAIN ser |->
        LET n == removenones(ser[j], Shape[j])
        IN IF ser[j].kind = "int" THEN {ser[j].pos \div SIZE}
           ELSE (n.start \div SIZE) .. ((n.stop - 1) \div SIZE)]

calculate_block_coords(ser) ==
  LET l == calculate_list_of_ranges_of_block_coords(ser)
  IN {b \in [DOMAIN ser -> UNION Range(l)] : \A j \in DOMAIN ser : b[j] \in l[j]}

\* Index expressions that are modelled: inside the axis, not empty, and without a negative
\* position in a view that has a step.
Inside(old, axis, idx) ==
  /\ \A x \in IF idx.kind = "int" THEN {idx.pos} ELSE {idx.start, idx.stop} :
       x >= 0 \/ (old.step \in {0, 1} /\ x + Len(axis) >= 0)
  /\ idx.kind = "int" => idx.pos < Len(axis)
  /\ Selected(axis, idx) # << >>
Supported(ser, axes, new) ==
  /\ Len(new) <= Cardinality(SliceAxes(ser))
  /\ \A j \in DOMAIN ser : Indexed(ser, new, j) => Inside(ser[j], axes[j], new[Rank(ser, j)])

-----------------------------------------------------------------------------
(* Views.                                                                  *)

Positions(ser) == [j \in DOMAIN ser |-> Selected([i \in 1 .. Shape[j] |-> i - 1], ser[j])]

\* The offsets of the elements at some positions on each axis.
Elements(on) == {place[c] : c \in {x \in DOMAIN place : \A j \in DOMAIN on : x[j] \in on[j]}}
Sub(v, new) ==
  LET axes == [j \in DOMAIN v.axes |->
                 IF Indexed(v.ser, new, j) THEN Selected(v.axes[j], new[Rank(v.ser, j)]) ELSE v.axes[j]]
  IN [v EXCEPT !.ser = _view_composer_new(@, new), !.axes = axes]
Own(v) == Elements([j \in DOMAIN v.axes |-> ToSet(v.axes[j])])

\* A program that writes with a step keeps what is in between to itself: the blocks up to
\* the end of the range are stored.
Spanned(v) ==
  LET all(j) == IF v.ser[j].kind = "int" THEN v.ser[j] ELSE slice(v.ser[j].start, v.ser[j].stop, 0)
      positions == Positions([j \in DOMAIN v.ser |-> all(j)])
  IN Elements([j \in DOMAIN v.ser |-> ToSet(positions[j])])
Dims(v) == [j \in SliceAxes(v.ser) |-> Len(v.axes[j])]
_references_single_element(v) == SliceAxes(v.ser) = {}
_calculate_nblocks(ser) == Cardinality(calculate_block_coords(ser))

FreshId == 1 + Max(DOMAIN istorage \cup {views[i].sid : i \in DOMAIN views})

\* A view of another shape gets a storage id, that is stored when it is asked for.
_create_lazy_persistent_view(w) ==
  [w EXCEPT !.sid = FreshId, !.nblocks = _calculate_nblocks(w.ser), !.persistance_needed = TRUE]

\* A view inherits what its parent has loaded, and all else if it has the same shape.
__array_finalize__(v, new) ==
  IF Dims(v) = Dims(Sub(v, new)) THEN v ELSE _create_lazy_persistent_view(Sub(v, new))

\* Zeros for the whole array, even if only a part of it was asked for.
reserve_numpy_space == [o \in 0 .. Product(Shape) - 1 |-> 0]
allocate_numpy(p) == mem' = [mem EXCEPT ![p] = reserve_numpy_space]

Active(p) == p \notin failed
Holds(p, elements) == \A o \in elements : owner[o] = p
Room(p) == Cardinality({i \in DOMAIN views : views[i].proc = p}) < MaxViews(Shape)
Counted == ops < MaxOps(Shape) /\ ops' = ops + 1

Init ==
  /\ \E m \in Arrays : \E r \in row_elements(m) :
       array = [place |-> Places(m), generator |-> make_partitions_generator(m, r)]
  /\ table = {} /\ istorage = << >>
  /\ mem = [p \in Procs |-> IF p = Main THEN [o \in 0 .. Product(Shape) - 1 |-> o + 1] ELSE reserve_numpy_space]
  /\ pending = [p \in Procs |-> << >>]
  /\ views = << >>
  /\ owner = [o \in 0 .. Product(Shape) - 1 |-> Main]
  /\ failed = {}
  /\ truth = [o \in 0 .. Product(Shape) - 1 |-> o + 1]
  /\ got = NothingRead
  /\ ops = 0

-----------------------------------------------------------------------------
(* Blocks to and from Cassandra.                                           *)

None == {}       \* no block coordinates: all the blocks
get_block_ids == DOMAIN g.blocks

\* Each block is queued, under the storage id of the whole array, behind those of earlier calls.
store_numpy_partition_into_cas(b, memory) == getNextPartition(g, b, memory)
store_numpy_into_cas_by_coords(queue, coords, memory) ==
  Append(queue, {store_numpy_partition_into_cas(b, memory) : b \in coords})
store_numpy_into_cas(queue, memory) ==
  Append(queue, {store_numpy_partition_into_cas(b, memory) : b \in get_block_ids})
store_numpy(queue, coords, memory) ==
  IF coords = None THEN store_numpy_into_cas(queue, memory)
  ELSE store_numpy_into_cas_by_coords(queue, coords, memory)
store_numpy_slices(p, coords, memory) ==
  pending' = [pending EXCEPT ![p] = store_numpy(@, coords, memory)]

\* What get_crow returns for a block: what the process wrote, or what Cassandra has.
get_crow(p, key) ==
  LET own == {i \in DOMAIN pending[p] : \E q \in pending[p][i] : q.key = key}
  IN {q \in IF own # {} THEN pending[p][Max(own)] ELSE table : q.key = key}

\* The whole array, as a reader finds it who asks for its clusters.
read_numpy_from_cas == merge_partitions(g, {q \in table : q.key[1] \in g.clusters}, reserve_numpy_space)

\* Blocks that are not found are left out, and what is in memory stays.
read_numpy_from_cas_by_coords(p, coords) == UNION {get_crow(p, g.blocks[b].key) : b \in coords}
load_numpy(p, coords) == merge_partitions(g, read_numpy_from_cas_by_coords(p, coords), mem[p])

\* _load_blocks: reads all the blocks if one of them is new.
_load_blocks_early(v, blocks) ==                           \* plausible bug: one block too few
  [v EXCEPT !.loaded = @ \cup blocks, !.full = (Cardinality(v.loaded \cup blocks) >= v.nblocks - 1)]
_load_blocks(v, blocks) ==
  LET loaded == v.loaded \cup blocks
  IN IF loaded = v.loaded THEN v
     ELSE [v EXCEPT !.loaded = loaded, !.full = (Cardinality(loaded) = v.nblocks)]

Loads(v, blocks) == ~v.full /\ ~(blocks \subseteq v.loaded)
load_numpy_slices(v, blocks) ==
  IF Loads(v, blocks) THEN load_numpy(v.proc, blocks) ELSE mem[v.proc]
_select_and_load_blocks(v, blocks) == IF v.full THEN v ELSE _load_blocks(v, blocks)

\* No block is found, or a query fails: the exception ends the process.  (The blocks stay
\* marked as loaded, which a program that catches it would notice.)
load_fails(i, new) ==
  LET v == views[i]
      blocks == calculate_block_coords(_view_composer_new(v.ser, new))
  IN /\ Active(v.proc) /\ ~v.full /\ Supported(v.ser, v.axes, new) /\ Loads(v, blocks)
     /\ failed' = failed \cup {v.proc}
     /\ LET kept == SetToSeq({k \in DOMAIN views : views[k].proc # v.proc})
        IN views' = [k \in DOMAIN kept |-> views[kept[k]]]
     /\ allocate_numpy(v.proc)
     /\ got' = NothingRead
     /\ UNCHANGED <<array, cassandra, pending, ghosts, ops>>

-----------------------------------------------------------------------------
(* Operations of a program.                                                *)

View(p, sid, ser, full) ==
  [proc |-> p, sid |-> sid, ser |-> ser, loaded |-> {}, full |-> full,
   axes |-> Positions(ser), nblocks |-> _calculate_nblocks(ser), persistance_needed |-> FALSE, part |-> TRUE]

\* The row of hecuba.istorage, written at once: the view and the array it is a view of.
_store_meta(v) ==
  istorage' = [s \in DOMAIN istorage \cup {v.sid} |-> IF s = v.sid THEN v.ser ELSE istorage[s]]

\* The blocks are queued in front of the metadata.
_persist_data(v) ==
  /\ store_numpy_slices(v.proc, None, mem[v.proc])
  /\ _store_meta(v)

\* StorageNumpy(input_array, name).
__new__ ==
  LET v == View(Main, 1, [j \in DOMAIN Shape |-> All], TRUE)
  IN /\ istorage = << >>
     /\ _persist_data(v)
     /\ views' = <<v>>
     /\ UNCHANGED <<array, table, mem, ghosts, failed, got, ops>>

\* A read: of elements that are in memory, or after loading the blocks they are in.  The
\* result is a view, unless it is one element.
__getitem__(i, new) ==
  LET v == views[i]
      big == _view_composer_new(v.ser, new)
      blocks == calculate_block_coords(big)
      w == _select_and_load_blocks(v, blocks)
      memory == load_numpy_slices(v, blocks)
      res == __array_finalize__(w, new)
  IN /\ Active(v.proc) /\ Counted
     /\ Supported(v.ser, v.axes, new) /\ Holds(v.proc, Own(Sub(v, new)))
     /\ Loads(v, blocks) => read_numpy_from_cas_by_coords(v.proc, blocks) # {}
     /\ mem' = [mem EXCEPT ![v.proc] = memory]
     /\ IF _references_single_element(res) THEN views' = [views EXCEPT ![i] = w]
        ELSE /\ Room(v.proc)
             /\ views' = Append([views EXCEPT ![i] = w], [res EXCEPT !.full = TRUE, !.part = FALSE])
     /\ got' = [o \in Own(res) |-> <<memory[o], truth[o]>>]
     /\ UNCHANGED <<array, cassandra, pending, ghosts, failed>>

\* The elements get a value, and the blocks they are in are stored.
Write(p, elements, blocks, memory) ==
  LET new == [o \in Offsets |-> IF o \in elements THEN -1 ELSE memory[o]]
  IN /\ mem' = [mem EXCEPT ![p] = new]
     /\ store_numpy_slices(p, blocks, new)
     /\ truth' = [o \in Offsets |-> IF o \in elements THEN -1 ELSE truth[o]]

\* "Load the block before writing!"
__setitem__(i, new) ==
  LET v == views[i]
      blocks == calculate_block_coords(_view_composer_new(v.ser, new))
  IN /\ Active(v.proc) /\ Counted
     /\ Supported(v.ser, v.axes, new) /\ Holds(v.proc, Spanned(Sub(v, new)))
     /\ Loads(v, blocks) => read_numpy_from_cas_by_coords(v.proc, blocks) # {}
     /\ views' = [views EXCEPT ![i] = _select_and_load_blocks(v, blocks)]
     /\ Write(v.proc, Own(Sub(v, new)), blocks, load_numpy_slices(v, blocks))
     /\ got' = NothingRead
     /\ UNCHANGED <<array, cassandra, owner, failed>>

\* An operator that writes to the array, such as +=: all of it is loaded and stored.
__array_ufunc__(i) ==
  LET v == views[i]
      blocks == calculate_block_coords(v.ser)
  IN /\ Active(v.proc) /\ Counted /\ Holds(v.proc, Spanned(v))
     /\ Loads(v, blocks) => read_numpy_from_cas_by_coords(v.proc, blocks) # {}
     /\ views' = [views EXCEPT ![i] = _select_and_load_blocks(v, blocks)]
     /\ Write(v.proc, Own(v), blocks, load_numpy_slices(v, blocks))
     /\ got' = NothingRead
     /\ UNCHANGED <<array, cassandra, owner, failed>>

\* The index expressions of the parts: by blocks, by columns or by rows of blocks.
BlockSlice(b) == slice(b * g.row_elements, (b + 1) * g.row_elements, 0)
Parts_even(ser) ==                                         \* plausible bug: parts in halves of the array
  {[j \in 1 .. 1 |-> slice(h * (Shape[1] \div 2), (h + 1) * (Shape[1] \div 2), 0)] : h \in {0, 1}}
_split_by_blocks == {[j \in DOMAIN b |-> BlockSlice(b[j])] : b \in get_block_ids}
_split_by_cols == {<<All, BlockSlice(c)>> : c \in 0 .. g.blocks_dim[2] - 1}
_split_by_rows == {<<BlockSlice(r), All>> : r \in 0 .. g.blocks_dim[1] - 1}
Parts(ser) == _split_by_blocks \cup (IF Len(ser) # 2 THEN {} ELSE _split_by_cols \cup _split_by_rows)

\* One part of split(), whose loaded state is that of the array.
split(i, part) ==
  LET v == views[i]
  IN /\ Active(v.proc) /\ Room(v.proc)
     /\ v.ser = [j \in DOMAIN Shape |-> All]
     /\ v.loaded = {} \/ v.full \/ SplitLoaded
     /\ views' = Append(views, __array_finalize__(v, part))
     /\ got' = NothingRead
     /\ UNCHANGED <<array, cassandra, mem, pending, ghosts, failed, ops>>

\* sync: all the blocks of the process are stored.
wait_stores_early(p) == TRUE                               \* plausible bug: sync does not wait
wait_stores(p) == pending[p] = << >>

\* getID: a view's metadata is stored the first time, then sync waits for all that was
\* written.  The id goes to a task, and the elements with it: the program drops the view.
getID(i) ==
  LET v == views[i]
  IN /\ Active(Main) /\ v.proc = Main
     /\ v.part \/ HandSlices
     /\ Holds(Main, Own(v))
     /\ Cardinality(DOMAIN istorage) <= Cardinality(Workers)  \* bound: a part for each worker
     /\ IF v.persistance_needed THEN _store_meta(v) ELSE UNCHANGED istorage
     /\ wait_stores(Main)
     /\ views' = RemoveAt(views, i)
     /\ owner' = [o \in Offsets |-> IF o \in Own(v) THEN v.sid ELSE owner[o]]
     /\ got' = NothingRead
     /\ UNCHANGED <<array, table, mem, pending, truth, failed, ops>>

\* StorageNumpy(storage_id): memory for the whole array, of which nothing is loaded.
_initialize_existing_object(p, sid) ==
  /\ Active(p)
  /\ \A i \in DOMAIN views : views[i].proc # p
  /\ \E o \in Offsets : owner[o] = sid
  /\ allocate_numpy(p)
  /\ views' = Append(views, View(p, sid, istorage[sid], FALSE))
  /\ got' = NothingRead
  /\ owner' = [o \in Offsets |-> IF owner[o] = sid THEN p ELSE owner[o]]
  /\ UNCHANGED <<array, cassandra, pending, failed, truth, ops>>

\* A queued block is stored (external).  The order of the blocks of one call is fixed, and
\* decides nothing.
applied(p) ==
  LET first == Head(pending[p])
      q == CHOOSE q \in first : TRUE
  IN /\ pending[p] # << >>
     /\ table' = {r \in table : r.key # q.key} \cup {q}
     /\ pending' = [pending EXCEPT ![p] =
          IF first = {q} THEN Tail(@) ELSE [@ EXCEPT ![1] = first \ {q}]]
     /\ got' = NothingRead
     /\ UNCHANGED <<array, istorage, mem, views, ghosts, failed, ops>>

Next ==
  \/ __new__
  \/ \E i \in DOMAIN views :
       \/ \E new \in Indexes(Len(Shape)) : __getitem__(i, new) \/ __setitem__(i, new) \/ load_fails(i, new)
       \/ \E part \in Parts(views[i].ser) : split(i, part)
       \/ __array_ufunc__(i) \/ getID(i)
  \/ \E p \in Procs : applied(p)
  \/ \E p \in Workers, sid \in DOMAIN istorage : _initialize_existing_object(p, sid)

Spec == Init /\ [][Next]_vars

-----------------------------------------------------------------------------
(* Properties.                                                             *)

\* The coordinates of an array of some shape.
Box(dims) ==
  {c \in [DOMAIN dims -> UNION {0 .. dims[j] - 1 : j \in DOMAIN dims}] : \A j \in DOMAIN dims : c[j] < dims[j]}
BlockOf(c) == [j \in DOMAIN c |-> c[j] \div g.row_elements]

\* The generators cut the array: each element is at one place of one block, no two blocks have
\* one key, a reader of the clusters asks for every key, and merge_partitions works out the
\* places that getNextPartition took.
ArrayCut ==
  /\ Shape \in Seq(Nat \ {0}) /\ g.row_elements \in Nat \ {0} /\ Product(Shape) \in Nat
  /\ DOMAIN place = Box(Shape) /\ IsInjective(place) /\ Range(place) = 0 .. Product(Shape) - 1
  /\ DOMAIN g.blocks_dim = DOMAIN Shape
  /\ \A j \in DOMAIN Shape :
       /\ g.blocks_dim[j] \in Nat
       /\ (g.blocks_dim[j] - 1) * g.row_elements < Shape[j] /\ Shape[j] <= g.blocks_dim[j] * g.row_elements
  /\ DOMAIN g.blocks = Box(g.blocks_dim)
  /\ \A b \in DOMAIN g.blocks :
       LET offsets == g.blocks[b].offsets
           key == g.blocks[b].key
       IN /\ IsInjective(offsets)
          /\ Range(offsets) = {place[c] : c \in {x \in DOMAIN place : BlockOf(x) = b}}
          /\ key[1] \in g.clusters
          /\ key \in DOMAIN g.places /\ g.places[key] = offsets
  /\ \A a, b \in DOMAIN g.blocks : g.blocks[a].key = g.blocks[b].key => a = b

\* Blocks are stored under a key of the array and hold exactly the elements of that block:
\* getNextPartition copies no padding, and no coordinate lies outside the array.
ArrayTypeOK ==
  /\ \A q \in table \cup UNION UNION {ToSet(pending[p]) : p \in Procs} :
       \E b \in DOMAIN g.blocks : q.key = g.blocks[b].key /\ DOMAIN q.data = DOMAIN g.blocks[b].offsets
  /\ \A p \in Procs : DOMAIN mem[p] = Offsets
  /\ \A i \in DOMAIN views : views[i].loaded \subseteq DOMAIN g.blocks

\* view_composer_internal: the view that is stored, and that another process opens,
\* selects the elements of the view in memory, however it was derived.
ViewsAgree ==
  \A i \in DOMAIN views : views[i].axes = Positions(views[i].ser)

\* __getitem__ returns the last values that were written, by this process or by the one
\* that handed the array over, wherever the blocks are.
ReadsTruth == \A o \in DOMAIN got : got[o][1] = got[o][2]

\* _numpy_full_loaded is only set when all the elements are in memory: reads and writes
\* trust it and go to Cassandra no more.
FullMeansLoaded ==
  \A i \in DOMAIN views : views[i].full =>
    \A o \in Own(views[i]) :
      owner[o] = views[i].proc => mem[views[i].proc][o] = truth[o]

\* When nothing is queued, the blocks that a reader of the clusters finds make up the array
\* with all that any process wrote: storing a block undoes nothing, "Load the block before
\* writing!", and no two blocks have one key.
StoredWhole ==
  istorage # << >> /\ (\A p \in Procs : pending[p] = << >>) =>
    read_numpy_from_cas = truth
=============================================================================

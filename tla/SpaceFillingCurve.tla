------------------------- MODULE SpaceFillingCurve -------------------------
(***************************************************************************)
(* How an array is cut into blocks (SpaceFillingCurve.cpp): the Z-order    *)
(* and the Fortran-order generators.  (No client asks for the generator    *)
(* without partitions.)  A block is named by <<cluster_id, block_id>>, the *)
(* key of its row.  An array in memory is a function from offsets 0 .. n-1 *)
(* to values; vectors are sequences: the code's index i is i + 1 here.     *)
(***************************************************************************)
EXTENDS Integers, Sequences, SequencesExt, FiniteSetsExt, TLC

CONSTANTS BLOCK_SIZE,    \* bytes of a block (4096 in the code)
          CLUSTER_SIZE,  \* bits of the Z-order number that name the block in its cluster
          INT_BITS,      \* width of int and uint32_t
          LONG_BITS      \* width of uint64_t

ASSUME CurveAssumption ==
  /\ BLOCK_SIZE \in Nat \ {0}
  /\ CLUSTER_SIZE \in Nat \ {0}
  /\ INT_BITS \in Nat \ {0}
  /\ LONG_BITS \in Nat \ {0}
  /\ CLUSTER_SIZE < INT_BITS /\ INT_BITS <= LONG_BITS

Product(s) == FoldLeft(LAMBDA a, b : a * b, 1, s)

\* An array's shape and type.
ZORDER_ALGORITHM == 0
FORTRANORDER == 3

-----------------------------------------------------------------------------
(* The constructors: how many elements a block has per dimension, and how  *)
(* many blocks and clusters there are.                                     *)

\* floor(pow(n, 1.0/ndims)): a power of three or more may come out below the exact root.
RootChoices(n, ndims) ==
  LET r == CHOOSE k \in 0 .. n : k ^ ndims <= n /\ (k + 1) ^ ndims > n
  IN IF ndims > 2 /\ r ^ ndims = n THEN {r - 1, r} \ {0} ELSE {r}

row_elements(metas) ==
  LET block_size == BLOCK_SIZE - (BLOCK_SIZE % metas.elem_size)
  IN RootChoices(block_size \div metas.elem_size, Len(metas.dims))

\* The generators over an array, with r of the choices above.
Blocks(metas, r) ==
  LET blocks_dim == [i \in DOMAIN metas.dims |-> (metas.dims[i] + r - 1) \div r]
  IN [type |-> metas.partition_type, dims |-> metas.dims, row_elements |-> r,
      blocks_dim |-> blocks_dim, nblocks |-> Product(blocks_dim)]

ZorderCurveGenerator(metas, r) ==
  LET g == Blocks(metas, r)
      clusters_dim == [i \in DOMAIN metas.dims |->
                         IF i <= 2 THEN (g.blocks_dim[i] + 1) \div 2 ELSE g.blocks_dim[i]]
  IN g @@ [clusters_dim |-> clusters_dim, nclusters |-> Product(clusters_dim)]

FortranOrderGenerator(metas, r) ==
  LET g == Blocks(metas, r)
  IN g @@ [nclusters |-> Last(g.blocks_dim)]

-----------------------------------------------------------------------------
(* Positions and counters.                                                 *)

\* The coordinates of the id-th element of a row-major array.
getIndexes(id, dims) ==
  [i \in DOMAIN dims |->
     (IF i = 1 THEN id ELSE id % Product(SubSeq(dims, i, Len(dims))))
        \div Product(SubSeq(dims, i + 1, Len(dims)))]

\* The offset of an element of a row-major array.
getIdFromIndexes(dims, indexes) ==
  MapThenSumSet(LAMBDA i : indexes[i] * Product(SubSeq(dims, i + 1, Len(dims))), DOMAIN dims)

\* The offset of an element of a column-major array.
FortranIdFromIndexes(dims, indexes) ==
  MapThenSumSet(LAMBDA i : indexes[i] * Product(SubSeq(dims, 1, i - 1)), DOMAIN dims)

-----------------------------------------------------------------------------
(* Z-order (Morton) numbers.                                               *)

Bit(n, i) == (n \div 2 ^ i) % 2

\* The bits of the int 1 << n once it is widened to uint64_t: the sign bit is extended,
\* and a larger shift count is taken modulo the width.
ShiftedOne(n) ==
  IF n % INT_BITS = INT_BITS - 1 THEN INT_BITS - 1 .. LONG_BITS - 1 ELSE {n % INT_BITS}

computeZorder(cc) ==
  LET ndims == Len(cc)
      set == {x \in (0 .. (LONG_BITS \div ndims) - 1) \X (1 .. ndims) : Bit(cc[x[2]], x[1]) = 1}
      bits == UNION {ShiftedOne(ndims * x[1] + x[2] - 1) : x \in set}
  IN MapThenSumSet(LAMBDA b : 2 ^ b, bits)

zorderInverse(id, ndims) ==
  [d \in 1 .. ndims |->
     MapThenSumSet(LAMBDA i : Bit(id, i) * 2 ^ (i \div ndims),
                   {i \in 0 .. LONG_BITS - 1 : i % ndims = d - 1})]

\* Bits that hold a coordinate in a Fortran-order block number.
BITS_short(b) == CHOOSE k \in 0 .. b : 2 ^ k <= b /\ 2 ^ (k + 1) > b     \* plausible bug: one bit too few
BITS(b) == (CHOOSE k \in 0 .. b : 2 ^ k <= b /\ 2 ^ (k + 1) > b) + 1

\* getClusterID and getBlockID of the block at coordinates cc.
ZorderKey(cc) ==
  <<(computeZorder(cc) \div 2 ^ CLUSTER_SIZE) % 2 ^ INT_BITS, computeZorder(cc) % 2 ^ CLUSTER_SIZE>>
FortranKey(g, cc) ==
  <<Last(cc), FoldLeft(LAMBDA id, i : (id * 2 ^ BITS(g.blocks_dim[i]) + cc[i]) % 2 ^ INT_BITS,
                       0, [i \in 1 .. Len(cc) - 1 |-> i])>>

\* The coordinates that merge_partitions finds for a block it read.
ZorderCoords(g, key) == zorderInverse(((key[1] * 2 ^ CLUSTER_SIZE) % 2 ^ INT_BITS) + key[2], Len(g.dims))
FortranCoords(g, key) ==
  LET n == Len(g.dims)
      shift(i) == FoldLeft(LAMBDA s, j : s + BITS(g.blocks_dim[j]), 0, [j \in 1 .. n - 1 - i |-> i + j])
  IN [i \in 1 .. n |-> IF i = n THEN key[1]
                        ELSE (key[2] \div 2 ^ shift(i)) % 2 ^ BITS(g.blocks_dim[i])]

-----------------------------------------------------------------------------
(* What a block holds.                                                     *)

\* The last block of a dimension holds what remains of it.
BlockShape(g, cc) ==
  [i \in DOMAIN cc |->
     IF cc[i] = g.blocks_dim[i] - 1
     THEN g.dims[i] - (g.blocks_dim[i] - 1) * g.row_elements ELSE g.row_elements]

SwapLastTwo(v) ==
  LET n == Len(v)
  IN IF n < 2 THEN v ELSE SubSeq(v, 1, n - 2) \o <<v[n], v[n - 1]>>

\* The offsets that tessellate and copy_block_to_array visit, in the order of the block.
tessellate(dims, shape, start) ==
  [p \in 0 .. Product(shape) - 1 |-> start + getIdFromIndexes(dims, getIndexes(p, shape))]

\* The first element of a block.
First(g, cc) == [i \in DOMAIN cc |-> cc[i] * g.row_elements]

ZorderOffsets(g, cc) == tessellate(g.dims, BlockShape(g, cc), getIdFromIndexes(g.dims, First(g, cc)))
FortranOffsets(g, cc) ==
  tessellate(SwapLastTwo(g.dims), SwapLastTwo(BlockShape(g, cc)), FortranIdFromIndexes(g.dims, First(g, cc)))

\* The clusters that a reader of the whole array asks for.
computeNextClusterId(g) ==
  LET scaled(c) == [i \in DOMAIN c |-> IF i <= 2 THEN 2 * c[i] ELSE c[i]]
  IN IF g.type = FORTRANORDER THEN 0 .. g.nclusters - 1
     ELSE {ZorderKey(scaled(getIndexes(c, g.clusters_dim)))[1] : c \in 0 .. g.nclusters - 1}

\* A generator with the key and the places of each of its blocks worked out once.
make_partitions_generator(metas, r) ==
  LET fortran == metas.partition_type = FORTRANORDER
      g == IF fortran THEN FortranOrderGenerator(metas, r) ELSE ZorderCurveGenerator(metas, r)
      Key(cc) == IF fortran THEN FortranKey(g, cc) ELSE ZorderKey(cc)
      Coords(key) == IF fortran THEN FortranCoords(g, key) ELSE ZorderCoords(g, key)
      Offsets(cc) == IF fortran THEN FortranOffsets(g, cc) ELSE ZorderOffsets(g, cc)
      ccs == {getIndexes(c, g.blocks_dim) : c \in 0 .. g.nblocks - 1}
  IN [dims |-> metas.dims, row_elements |-> r, blocks_dim |-> g.blocks_dim,
      blocks |-> [cc \in ccs |-> [key |-> Key(cc), offsets |-> Offsets(cc)]],
      places |-> [key \in {Key(cc) : cc \in ccs} |-> Offsets(Coords(key))],
      clusters |-> computeNextClusterId(g)]

\* The partition a generator yields for the block at cc; memory it reads beyond the array
\* is garbage.
getNextPartition_padded(g, cc, data) ==                    \* plausible bug: blocks at the edge have the full size
  LET offsets == g.blocks[cc].offsets
      size == g.row_elements ^ Len(cc)
  IN [key |-> g.blocks[cc].key,
      data |-> [p \in 0 .. size - 1 |-> IF p \in DOMAIN offsets THEN data[offsets[p]] ELSE "garbage"]]
getNextPartition(g, cc, data) ==
  LET offsets == g.blocks[cc].offsets
  IN [key |-> g.blocks[cc].key,
      data |-> [p \in DOMAIN offsets |->
                  IF offsets[p] \in DOMAIN data THEN data[offsets[p]] ELSE "garbage"]]

\* Copies the blocks that were read to their places; what no block covers is left alone.  The
\* throw for a block of an unexpected size is left out: a block is stored with the size that the
\* generator of the same array computes for it.
merge_partitions(g, parts, mem) ==
  LET covers(part, o) == \E p \in DOMAIN part.data : p \in DOMAIN g.places[part.key] /\ g.places[part.key][p] = o
      value(part, o) == part.data[CHOOSE p \in DOMAIN part.data : g.places[part.key][p] = o]
  IN [o \in DOMAIN mem |->
        IF \E part \in parts : covers(part, o)
        THEN value(CHOOSE part \in parts : covers(part, o), o)
        ELSE mem[o]]
=============================================================================

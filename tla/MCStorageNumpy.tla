--------------------------- MODULE MCStorageNumpy ---------------------------
(* Small arrays for StorageNumpy. *)
EXTENDS StorageNumpy

Array(dims, elem_size, type) == [dims |-> dims, elem_size |-> elem_size, partition_type |-> type]
\* Blocks of two by two elements: on a line, in a square, by columns, in a cube; and arrays
\* of more blocks and clusters, that are only stored and opened.
SmallArrays ==
  {Array(<<3>>, 4, ZORDER_ALGORITHM), Array(<<3, 3>>, 2, ZORDER_ALGORITHM),
   Array(<<3, 2>>, 2, FORTRANORDER), Array(<<2, 1, 1>>, 1, ZORDER_ALGORITHM)}
LargeArrays ==
  {Array(<<5, 7>>, 2, ZORDER_ALGORITHM), Array(<<5, 7>>, 2, FORTRANORDER),
   Array(<<5, 2, 3>>, 1, ZORDER_ALGORITHM)}
ManyArrays == SmallArrays \cup LargeArrays
FewOps(dims) ==
  CASE dims \in {a.dims : a \in LargeArrays} -> 0 [] Len(dims) = 2 -> 1 [] OTHER -> 2
FewViews(dims) == IF FewOps(dims) = 0 THEN 1 ELSE 2
Oblong == {Array(<<3, 4>>, 2, ZORDER_ALGORITHM)}
Two(dims) == 2

\* Elements, rows, ranges and steps.
SmallIndexes(ndims) ==
  CASE ndims = 1 -> {<<int(-1)>>, <<slice(0, -1, 0)>>, <<slice(0, 0, 2)>>}
    [] ndims = 2 -> {<<int(-1)>>, <<All, slice(1, 0, 0)>>}
    [] OTHER     -> {<<int(1), int(0), int(0)>>, <<slice(0, 0, 2), int(0)>>}
Corners(ndims) == {<<int(0), int(0)>>, <<int(0), int(2)>>}

Sym == Permutations(Workers)
=============================================================================

CONSTANTS
  BLOCK_SIZE = 8
  CLUSTER_SIZE = 2
  INT_BITS = 12
  LONG_BITS = 24
  Arrays <- ManyArrays
  Indexes <- SmallIndexes
  Main = Main
  Workers = {w1, w2}
  SplitLoaded = FALSE
  HandSlices = FALSE
  MaxViews <- FewViews
  MaxOps <- FewOps
SYMMETRY Sym
CHECK_DEADLOCK FALSE
SPECIFICATION Spec
INVARIANTS
  ArrayCut
  ArrayTypeOK
  ViewsAgree
  ReadsTruth
  FullMeansLoaded
  StoredWhole

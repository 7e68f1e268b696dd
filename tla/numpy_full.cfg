CONSTANTS
  BLOCK_SIZE = 8
  CLUSTER_SIZE = 2
  INT_BITS = 12
  LONG_BITS = 24
  Arrays <- Oblong
  Indexes <- Corners
  Main = Main
  Workers = {w1}
  SplitLoaded = TRUE
  HandSlices = FALSE
  MaxViews <- Two
  MaxOps <- Two
CHECK_DEADLOCK FALSE
SPECIFICATION Spec
INVARIANT FullMeansLoaded

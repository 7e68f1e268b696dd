CONSTANTS
  o1 = o1
  o2 = o2
  o3 = o3
  prog1 = prog1
  prog2 = prog2
  name1 = name1
  name2 = name2
  Objs = {o1, o2, o3}
  Owner <- OwnerOf
  Kind <- KindOf
  Columns <- ColumnsOf
  Programs <- TwoPrograms
  Names = {name1, name2}
  Blocks = {1, 2}
  Configs <- Settings
  MaxCalls = 3
  MaxFails = 1
  None = None
SYMMETRY NamesSymmetry
SPECIFICATION Spec
INVARIANTS
  RegistrySound
  ReturnedPersistent
  AliveWhilePending
  SyncedArrayIsWhole
  ExitStoresWrites

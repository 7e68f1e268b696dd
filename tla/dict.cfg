CONSTANTS
  Keys = {a, b}
  Configs <- DictConfigs
  DirtyLimits = {0, 1, 2}
  MaxOps = 4
  MaxFails = 1
SPECIFICATION DictSpec
INVARIANTS
  DictTypeOK
  CacheCoherent
  StoredWhenFlushed
  GetItemSound
  ContainsSound

SPECIFICATION MCSpec
CONSTANTS
  u1 = u1
  u2 = u2
  slab1 = slab1
  slab2 = slab2
  t1 = t1
  Data = Data
  Null = Null
  None = None
  Users = {u1, u2}
  Slabs = {slab1, slab2}
  BlocksPerSlab = 2
  MaxAllocs = 6
  MaxFailures = 1
  Threads = {t1}
  Keys = {"a", "b", "c", "d"}
  Values = {"x", "y"}
  Hash <- MCHash
  Hints <- MCHints
  MaxCapacity = 23
  RotateMax = 3
  LongestLine = 2
  TailLines = 2
  MaxLines = 9
SYMMETRY Symmetry
INVARIANTS
  PoolTypeOK
  FreeListIntact
  CountersAddUp
  TypeOK
  ChainsWellFormed
  CapacityIsPrime
  LogTypeOK
  RecentLinesKept
PROPERTIES
  OwnedIsPrivate
  ImplementsMap

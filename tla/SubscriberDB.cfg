SPECIFICATION MCSpec
CONSTANTS
  t1 = t1
  t2 = t2
  b1 = b1
  b2 = b2
  i1 = i1
  i2 = i2
  m1 = m1
  m2 = m2
  north = north
  south = south
  bad = bad
  active = active
  suspended = suspended
  None = None
  Threads = {t1, t2}
  Blocks = {b1, b2}
  Imsis = {i1, i2}
  Msisdns = {m1, m2}
  Texts = {north, south}
  Statuses = {active, suspended}
  AddRequests <- MCAddRequests
  UpdateRequests <- MCUpdateRequests
  ListRequests <- MCListRequests
  MaxId = 3
  Cutoff = 3
  SortKeys = {1, 2, 3}
  MaxArray = 8
SYMMETRY Symmetry
INVARIANTS
  TypeOK
  IndexesAgree
  IndexesSafe
  RefsMatchHolders
  ListsAreConsistent
  CountOffByAtMostOne
  SortsAreRight
PROPERTIES
  ResultsMatchEffects
  ImplementsMap

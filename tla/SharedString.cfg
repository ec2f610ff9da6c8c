SPECIFICATION MCSpec
CONSTANTS
  t1 = t1
  t2 = t2
  o1 = o1
  o2 = o2
  s1 = s1
  s2 = s2
  s3 = s3
  north = north
  south = south
  b1 = b1
  b2 = b2
  i1 = i1
  i2 = i2
  m1 = m1
  m2 = m2
  active = active
  suspended = suspended
  None = None
  Threads = {t1, t2}
  Objects = {o1, o2}
  Texts = {north, south}
  Slots = {s1, s2, s3}
  RefLimit = 4
  Blocks = {b1, b2}
  Imsis = {i1, i2}
  Msisdns = {m1, m2}
  Statuses = {active, suspended}
  MaxId = 2
INVARIANTS
  TypeOK
  CountsAreReferences
  NoDangling
  OneObjectPerText
  WalkCountsTable
PROPERTIES
  UnusedIsFreed
  LockIsReturned

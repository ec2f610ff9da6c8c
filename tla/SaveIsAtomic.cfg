SPECIFICATION Spec
CONSTANTS
  None = None
  Junk = Junk
  Data = "data"
  Beside = "beside"
  Backup = "backup"
  Paths = {"data", "beside", "backup"}
  Subscribers <- MCSubscribers
  InitialDisks <- MCInitialDisks
  UserRoles = {"ADMIN", "OPERATOR"}
  t1 = t1
  t2 = t2
  Tokens = {t1, t2}
  MaxCrashes = 1
PROPERTY
  SaveIsAtomic

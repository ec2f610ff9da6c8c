SPECIFICATION Spec
CONSTANTS
  None = None
  Junk = Junk
  c1 = c1
  c2 = c2
  c3 = c3
  Data = "data"
  Paths = {"data"}
  Subscribers <- MCSubscribers
  InitialDisks <- MCInitialDisks
  Conns = {c1, c2, c3}
  MaxClients = 1
  MaxSessions = 2
  Commands = {"SUB_ADD", "SUB_DELETE", "SUB_LIST"}
  UserRoles = {"ADMIN"}
SYMMETRY Symmetry
INVARIANT
  NeverAboveCap
CHECK_DEADLOCK FALSE

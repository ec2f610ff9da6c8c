SPECIFICATION MCSpec
CONSTANTS
  None = None
  Names = {"admin", "op"}
  Passwords = {"first", "other"}
  DefaultPassword = "first"
  Seeds <- MCSeeds
  Managed = {"op"}
  NewRoles = {"OPERATOR"}
  MaxUsers = 2
  MaxSessions = 2
  MaxAttempts = 2
  Lockout = 2
  SessionTime = 1
  MaxTime = 4
  MaxSaveFailures = 1
  Threads = {"t"}
  BlockSize = 8
  LengthSize = 2
  Pieces = {0, 1, 3, 8, 17}
  MaxMessage = 40
INVARIANTS
  TypeOK
  GuessesAreBounded
  StoreIsCurrent
  BlocksAreTheMessage
PROPERTIES
  SessionsLiveOut

SPECIFICATION Spec
CONSTANTS
  a1 = a1  a2 = a2  c1 = c1  f1 = f1  f2 = f2
  Admins <- TwoAdmins
  Clients <- OneClient
  KeyUsers <- MCWorkers
  ModelUsers <- MCWorkers
  FileUsers <- MCWorkers
  Flushers <- MCFlushers
  Files <- TwoFiles
  Limits = {1, 2}
  ModelIds = {"epic-alpha", "beta"}
  DefaultModel = "epic-alpha"
  Texts = {"t1"}
  NoModel = NoModel
  BatchMax = 2
  MaxLogged = 2
  Areas = {"keys", "models", "files", "account"}
  Passwords = {"p1", "p2"}
  DefaultPassword = "p1"
  SessionIds = {"s1"}
  MaxRequests <- Bounds
  MaxStops = 1
SYMMETRY Alike
INVARIANTS TypeOK AuditOnce EditsKept AcceptedOfThisLife DeletedStays RowsWhole DownloadWhole PasswordKept OnlyStopsOrphan
CHECK_DEADLOCK FALSE

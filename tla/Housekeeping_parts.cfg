SPECIFICATION Spec
CONSTANTS
  Codes = {c1, busy}
  Busy = busy
  Ok = Ok
  NoCode = NoCode
  MaxChanges = 2
  MaxGates = 1
  Accounts = {1, 2}
  Existing = {1}
  Cli = Cli
  Clients = {q1, q2}
  PoolSize = 2
  MaxProjects = 4
  MaxRuns = 2
  Requests = {r1, r2, r3}
  Files = {f1}
  Presigned = {f1}
  Timeouts = {0, 1, 2}
  Oldest = 3
  None = None
  NoFile = NoFile
  MaxUpsets = 1
  MaxMishaps = 1
INVARIANTS TypeOK AllOrNothing ProjectsTakeTurns
PROPERTIES NoticesOnce OutageTold BrokenFilesGo RequestsServed
\* The changes and the onboardings are bounded: the system may stop.
CHECK_DEADLOCK FALSE

\* Every operation, by three concurrent requests of two users, with failures of
\* the database and of the LangGraph server and with dying requests.
SPECIFICATION Spec
CONSTANTS
  User = {u1, u2}
  Session = {s1, s2}
  Req = {r1, r2, r3}
  k1 = k1
  LockKey = {u1, u2}
  HashText <- OwnKey
  MaxSessions = 1
  Threshold = 2
  Attempts = 2
  PoolSize = 3
  PageLimit = 2
  Mix = {"create", "align", "messages", "title", "delete", "account"}
  Faults = {"agent", "db", "crash"}
  NoUser = NoUser
  NoSession = NoSession
  NoReq = NoReq
SYMMETRY Symmetry
INVARIANTS TypeOK SessionQuota AdmissionsBounded OrphansAccountedFor ReadsOwnMessages
PROPERTIES HistoryOfLiveSessionsKept
CHECK_DEADLOCK FALSE

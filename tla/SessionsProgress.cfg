\* Requests that wait for the advisory lock with the pool nearly empty.
SPECIFICATION FairSpec
CONSTANTS
  User = {u1}
  Session = {s1, s2, s3}
  Req = {r1, r2, r3}
  k1 = k1
  LockKey = {k1}
  HashText <- SharedKey
  MaxSessions = 2
  Threshold = 2
  Attempts = 1
  PoolSize = 2
  PageLimit = 2
  Mix = {"create", "align", "delete", "account"}
  Faults = {}
  NoUser = NoUser
  NoSession = NoSession
  NoReq = NoReq
PROPERTIES EveryRequestAnswered ImplementsLedger
CHECK_DEADLOCK FALSE

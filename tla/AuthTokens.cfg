\* Two requests, checkAuth, sign-ins and sign-outs of two users, three pairs of tokens.
SPECIFICATION FairSpec
CONSTANTS
  User = {u1, u2}
  Call = {c1, c2}
  Me = me
  MaxIssued = 3
  NoUser = NoUser
INVARIANTS TypeOK OneRefreshAtATime StoredTokensAccountedFor
PROPERTIES WaitersReleased
CHECK_DEADLOCK FALSE

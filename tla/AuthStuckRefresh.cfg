\* A second sign-in after a request was refused with no refresh token stored.
SPECIFICATION FairSpec
CONSTANTS
  User = {u1}
  Call = {c1, c2}
  Me = me
  MaxIssued = 3
  NoUser = NoUser
PROPERTIES GoodRefreshTokenIsUsed
CHECK_DEADLOCK FALSE

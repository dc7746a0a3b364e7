\* Four requests of any kind on two addresses, by people with different passwords.
SPECIFICATION Spec
CONSTANTS
  Email = {e1, e2}
  Password = {p1, p2}
  Request = {r1, r2, r3, r4}
  Nobody = Nobody
SYMMETRY Symmetry
INVARIANTS TypeOK TokensNeedTheCredentials
PROPERTIES ImplementsRegister
CHECK_DEADLOCK FALSE

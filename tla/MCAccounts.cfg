CONSTANTS
  Request = {q1, q2, q3}
  Name = {alice, bob}
  Password = {pw1, pw2}
  None = None
SPECIFICATION Spec
SYMMETRY Symmetry
INVARIANTS
  TypeOK
  LogsIn
  NameGivenBack
  BothDatabases
  ReferralsCounted
CHECK_DEADLOCK FALSE

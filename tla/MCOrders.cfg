CONSTANTS
  o1 = o1  o2 = o2
  q1 = q1  q2 = q2  q3 = q3
  alice = alice  bob = bob
  Order   <- MCOrder
  Request <- MCRequest
  User    <- MCUser
  Nobody  = Nobody
  Buyer   <- MCBuyer
  Price   <- MCPrice
  Refer   <- MCRefer
  MaxBonus   = 45
  LastStatus = 2

SPECIFICATION Spec
SYMMETRY Symmetry

INVARIANTS
  TypeOK
  CreditedOnceInTurn
  Settled
  PlanIsRecorded

PROPERTY NeverUnpaid

\* Every report comes to an end.
CHECK_DEADLOCK FALSE

CONSTANTS
  c1 = c1  c2 = c2  c3 = c3
  h1 = h1  h2 = h2
  Client <- MCClient
  Handle <- MCHandle
  Nil = Nil

SPECIFICATION FairSpec

INVARIANTS
  TypeOK
  SemCountsIdle
  NeverNull
  HandleExclusive

PROPERTY NeverJams

\* A pool that failed to close may hand out NULL until nobody gets in.
CHECK_DEADLOCK FALSE

CONSTANTS
  m1 = m1  m2 = m2  m3 = m3  m4 = m4
  i1 = i1  i2 = i2  i3 = i3
  Msg  <- MCMsg
  Item <- MCItem
  Nothing = Nothing
  CacheCount = 2
  MaxCount = 3
  MaxThreads = 2
  UIntMax = 4
  SpuriousWakeup = FALSE
  EarlyClients = TRUE

SPECIFICATION Spec

INVARIANT CountsExact

CHECK_DEADLOCK FALSE

CONSTANTS
  m1 = m1  m2 = m2  m3 = m3  m4 = m4
  i1 = i1  i2 = i2  i3 = i3
  Msg  <- MCMsg
  Item <- MCItem
  Nothing = Nothing
  CacheCount = 2
  MaxCount = 3
  MaxThreads = 2
  UIntMax = 4
  SpuriousWakeup = FALSE
  EarlyClients = FALSE

SPECIFICATION FairSpec

INVARIANTS
  TypeOK
  CountsExact
  ItemsConserved
  NeverTakesListHead
  NoLostWakeup
  JobKeepsItsMessage

PROPERTIES
  AcceptedIsHandled
  ImplementsFifo

\* Clients may stop sending for good.
CHECK_DEADLOCK FALSE

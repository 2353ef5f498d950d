CONSTANTS
  s1 = s1  s2 = s2  d1 = d1
  Sender    <- MCSender
  DllThread <- MCDllThread
  Capacity = 2
  ULongMax = 5
  MaxMsg <- MCMaxMsg

SPECIFICATION FairSpec

INVARIANTS
  TypeOK
  FifoUnlessOverrun
  NoLostWakeup
  StopSparesQueues

PROPERTIES
  PushedIsPopped

\* Nobody has to send.
CHECK_DEADLOCK FALSE

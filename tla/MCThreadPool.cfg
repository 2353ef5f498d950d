CONSTANTS
  t1 = t1  t2 = t2
  d1 = d1  d2 = d2
  j1 = j1  j2 = j2  j3 = j3
  Thread <- MCThread
  Dispatcher <- MCDispatcher
  Job <- MCJob
  Closer = Closer
  Nobody = Nobody
  MaxThreads = 2
  SpuriousWakeup = FALSE

SPECIFICATION FairSpec

INVARIANTS
  TypeOK
  CountersExact
  NoCircularWait
  AssignedIsAsleep
  NoLostIdleSignal
  NoJobTwice

PROPERTIES
  JobRuns
  ImplementsWorkerPool

\* The pool rests once every job is done and nobody shuts it down.
CHECK_DEADLOCK FALSE

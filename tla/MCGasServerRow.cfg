CONSTANTS
  c1 = c1  c2 = c2  c3 = c3
  f1 = f1  f2 = f2
  r1 = r1  r2 = r2
  alice = alice
  Conn <- MCConn
  Fd   <- MCFd
  Req  <- MCReq
  User = {alice}
  None = None
  Login <- MCLogin
  MaxThreads = 2
  MaxHandles = 1
  TableChanges = TRUE

SPECIFICATION Spec

INVARIANT RowFound

\* Clients may stop, and a process that aborted does.
CHECK_DEADLOCK FALSE

SPECIFICATION FairSpec
CONSTANTS
  MaxConn = 3
  MaxPdus = 3
  Fd = {1, 2}
  Client = {n1}
  Worker = {w1, w2}
  Listener = l
INVARIANTS TypeOK RefsCounted NoUseAfterDelete NoLockCycle NoUpcallAfterClose AllDeleted
PROPERTIES CloseReturns

SPECIFICATION FairSpec
CONSTANTS
  Thread = {t1, t2}
  Worker = {w1}
  MaxXid = 2
  MaxConn = 1
  MaxNonce = 1
  MaxRetrans = 1
  Retrans = TRUE
  Lossy = FALSE
  Cancels = TRUE
PROPERTIES CallReturns CancelReturns
CHECK_DEADLOCK FALSE

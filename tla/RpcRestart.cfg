SPECIFICATION Spec
CONSTANTS
  Thread = {t1}
  Worker = {w1, w2}
  MaxXid = 4
  MaxConn = 2
  MaxNonce = 2
  MaxRetrans = 1
  Retrans = TRUE
  Lossy = TRUE
  Cancels = FALSE
SYMMETRY Symmetry
INVARIANTS AtMostOnce OnlyBoundInstance OkMeansExecuted LatestConnectionExists
CHECK_DEADLOCK FALSE

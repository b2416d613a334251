SPECIFICATION Spec
CONSTANTS
  Thread = {t1, t2}
  Worker = {w1}
  MaxXid = 3
  MaxConn = 2
  MaxNonce = 1
  MaxRetrans = 0
  Retrans = TRUE
  Lossy = FALSE
  Cancels = FALSE
SYMMETRY Symmetry
INVARIANTS TypeOK UnackedReplyKept RefusedMeansNotExecuted
CHECK_DEADLOCK FALSE

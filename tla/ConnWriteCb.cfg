SPECIFICATION Spec
CONSTANTS
  Fd = {4}
  PipeFd = 3
  s1 = s1
  s2 = s2
  Sender = {s1, s2}
  Remover <- MCRemover
  ConnOf <- MCConnOf
  NIn <- MCNIn
  HdrSz = 1
  OutSz = 2
  InSz = 2
  SndBuf = 2
  Server = FALSE
  Lossy = FALSE
  MayRefuse = FALSE
CHECK_DEADLOCK FALSE
INVARIANT WriteCbAlive

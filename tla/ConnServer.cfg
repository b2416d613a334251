SPECIFICATION Spec
CONSTANTS
  Fd = {4}
  PipeFd = 3
  s1 = s1
  s2 = s2
  Sender = {s1, s2}
  Remover <- MCRemover
  ConnOf <- MCConnOf
  NIn <- MCNIn
  HdrSz = 2
  OutSz = 3
  InSz = 3
  SndBuf = 2
  Server = TRUE
  Lossy = TRUE
  MayRefuse = TRUE
INVARIANTS TypeOK WholePdus CallbackOnLive OtherAssertions
CHECK_DEADLOCK FALSE

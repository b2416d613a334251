SPECIFICATION Spec
CONSTANTS
  Byte = 4
  DEFAULT_RPC_SZ = 26
  Call <- MCCall
  Refusal = {254}
INVARIANTS WritesInside ArgsArrive ReplyArrives AcceptedIsExact AbortMeansMismatch
CHECK_DEADLOCK FALSE

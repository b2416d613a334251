SPECIFICATION FairSpec
CONSTANTS
  Worker = {w1, w2, w3}
  Adder = {a1, a2}
  Dtor = d
  Limit = 2
  MaxJobs = 4
INVARIANTS TypeOK NoLostWakeup NothingLeft
PROPERTIES AcceptedJobsRun DestroyReturns

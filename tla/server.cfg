\* Two requests, one with a job; three starts of the process.
SPECIFICATION ServerSpec
CONSTANTS
  c1 = c1
  c2 = c2
  Calls = {c1, c2}
  Jobs = {j1}
  JobsOf <- MCJobsOf
  Retries = 2
  Attempts = 3
  MaxStarts = 3
INVARIANTS ServerTypeOK GracefulShutdown JobsAccounted
PROPERTIES ShutdownEnds JobsSettle
CHECK_DEADLOCK FALSE

SPECIFICATION Spec
CONSTANTS
  MaxWorkers = 1
  MaxJobs = 1
  PoolSize = 1
  TagReaderMayThrow = FALSE
INVARIANT CleanRunReported

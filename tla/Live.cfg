SPECIFICATION Spec
CONSTANTS
  MaxWorkers = 2
  MaxJobs = 2
  PoolSize = 1
  TagReaderMayThrow = TRUE
PROPERTIES WorkerEnds WaiterWoken ExitAfterCurrentFile

SPECIFICATION Spec
CONSTANTS
  MaxWorkers = 2
  MaxJobs = 2
  PoolSize = 2
  TagReaderMayThrow = FALSE
INVARIANTS TypeOK JobInv DeviceAgrees ExitBetweenFiles ReportExact NoStrandedJob
PROPERTY ImplementsTransferJobs

CONSTANTS
    c1 = c1
    j1 = j1
    j2 = j2
    Consumer = consumer
    None = None
    Callers <- MCCallers
    Jobs <- MCJobs
    Patient <- MCPatient
    MaxStarts = 2
SPECIFICATION FairSpec
INVARIANTS
    TypeOK
    QuietWhenStopped
    ThreadChecksHold
PROPERTIES
    ImplementsExecutor
    StopReturns
    RunsUnlessStopped
CHECK_DEADLOCK FALSE

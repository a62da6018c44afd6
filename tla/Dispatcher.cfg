CONSTANTS
    c1 = c1
    c2 = c2
    j1 = j1
    j2 = j2
    j3 = j3
    Consumer = consumer
    None = None
    Callers <- MCCallers
    Jobs <- MCJobs
    Patient <- MCPatient
SPECIFICATION FairSpec
INVARIANTS
    TypeOK
    NoLostWakeup
    NothingLostOrDuplicated
    RunsUnlocked
PROPERTIES
    PatientJobsRun
    ImpatientJobsResolved
    ImplementsFairExecutor

CONSTANTS
    MaxStimuli = 3
    MaxRequests = 3
    MaxHandlers = 3
    DriverMayFail = FALSE
SPECIFICATION Spec
INVARIANTS
    OnMeansInitialized
CHECK_DEADLOCK FALSE

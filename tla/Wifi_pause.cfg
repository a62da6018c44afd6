CONSTANTS
    MaxStimuli = 3
    MaxRequests = 1
    MaxHandlers = 3
    DriverMayFail = FALSE
SPECIFICATION Spec
INVARIANTS
    ManualDisconnectPauses
CHECK_DEADLOCK FALSE

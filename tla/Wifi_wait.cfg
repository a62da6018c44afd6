CONSTANTS
    MaxStimuli = 2
    MaxRequests = 2
    MaxHandlers = 3
    DriverMayFail = FALSE
SPECIFICATION FairSpec
PROPERTIES
    ConnectReturns
CHECK_DEADLOCK FALSE

SPECIFICATION PartsSpec
CONSTANTS
    MaxStarts = 4
    Discipline = "state"
    MaxShows = 2
    ClicksAskLoader = TRUE
    SoftKeyboard = TRUE
    MayStop = TRUE
    MaxJobs = 3
    NoDevice = NoDevice
    u1 = u1
    u2 = u2
    MaxSessions = 2
    Ports = {"p1", "p2", "p3"}
    StartedPorts = {"p1", "p2"}
    LastAddress = 2
    MaxPresses = 3
    Apps = {"manage", "connect", "settings"}
    MaxPanics = 2
    MaxRequests = 2
    MaxTasks = 2
    AppIds = {"a", "b"}
    ScreenshotId = "a"
    BufferSize = 3
    Images = {i1, i2}
    NoImage = NoImage
    Unknown = Unknown
    Texts = {"", "a", "b"}
    NoZone = "NoZone"
    MaxEntries = 2
INVARIANTS
    TypesOK
    StateMatchesBody
    
    UsedAlone
    OffIsQuiet
    ShownIsTrue
PROPERTIES
    BegunEnds
    StateCatchesUp
CHECK_DEADLOCK FALSE

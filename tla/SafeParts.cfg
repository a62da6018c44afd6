SPECIFICATION PartsSpec
CONSTANTS
    MaxStimuli = 3
    MaxRequests = 3
    MaxHandlers = 3
    DriverMayFail = TRUE
    MaxShows = 3
    ClicksAskLoader = TRUE
    SoftKeyboard = TRUE
    MayStop = TRUE
    Streams <- MCStreams
    ErrorText <- MCErrorText
    TimerApps = {"gpio", "power", "screenshot"}
    TimerQueue = 5
    SubDir = "d"
    NoName = ""
    MaxDialogs = 2
    MaxFaults = 2
    Users = {t1, t2, t3}
    NoUser = NoUser
    MaxDepth = 2
    Configs = {"x", "y", "z"}
    MaxChanges = 4
    Numbers = {1, 2, 3}
    Slots = 2
    Wrap = 8
    RecycleTicks = 4
    RecentTicks = 2
    NoNumber = 0
    MaxTime = 14
    Keys = {"2", "-", "/", "(", ")"}
    MaxKeys = 7
    NoResult = NoResult
INVARIANTS
    TransientsBelongToMain
    NetifIsThere
    OffMeansSilent
    TypesOK
    HooksApart
    AnswersAreReal
    
    ConfigurationInForce
    CarefulUseExcludes
    FileKeepsPromises
    RecordsAreRecent
PROPERTIES
    OldIsKept
CHECK_DEADLOCK FALSE

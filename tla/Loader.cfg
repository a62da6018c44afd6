CONSTANTS
    files = files
    ghost = ghost
    lvglTask = lvglTask
    Boot = boot
    Launcher = launcher
    BootThread = bootThread
    LoaderThread = loaderThread
    None = None
    Apps <- MCApps
    Registered <- MCRegistered
    Users <- MCUsers
    MaxInstances = 4
    MaxMessages = 3
    MaxDrops = 1
SPECIFICATION FairSpec
INVARIANTS
    TypeOK
    TopIsShown
    ChecksHold
    ResultGoesToTop
PROPERTIES
    LifecycleOrder
    BootCompletes
CHECK_DEADLOCK FALSE

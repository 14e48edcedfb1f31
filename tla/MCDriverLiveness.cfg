SPECIFICATION ReaderSpec
CONSTANTS
    p1 = p1
    p2 = p2
    NoProc = NoProc
    Procs <- OneTask
    NURBS = 2
    UrbPackets = 2
    UserBuf = 2
    Stream <- ShortStream
    NonBlocking <- NoTasks
    BadBuffer <- NoTasks
    SMP = FALSE
    CanUnplug = TRUE
    Scarce = FALSE
PROPERTIES
    DataReachesReader
    ReleaseTerminates
    DisconnectEnds
CHECK_DEADLOCK FALSE

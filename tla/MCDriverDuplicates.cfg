SPECIFICATION Spec
CONSTANTS
    p1 = p1
    p2 = p2
    NoProc = NoProc
    Procs <- OneTask
    NURBS = 2
    UrbPackets = 2
    UserBuf = 2
    Stream <- FrameZeroStream
    NonBlocking <- NoTasks
    BadBuffer <- NoTasks
    SMP = FALSE
    CanUnplug = FALSE
    Scarce = FALSE
INVARIANTS
    OnlyDuplicatesDropped

SPECIFICATION Spec
CONSTANTS
    p1 = p1
    p2 = p2
    NoProc = NoProc
    Procs <- OneTask
    NURBS = 2
    UrbPackets = 1
    UserBuf = 1
    Stream <- ShortStream
    NonBlocking <- NoTasks
    BadBuffer <- NoTasks
    SMP = TRUE
    CanUnplug = FALSE
    Scarce = FALSE
INVARIANTS
    NoLostWakeup

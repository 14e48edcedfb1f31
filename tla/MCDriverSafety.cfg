SPECIFICATION Spec
CONSTANTS
    p1 = p1
    p2 = p2
    NoProc = NoProc
    Procs <- TwoTasks
    NURBS = 2
    UrbPackets = 1
    UserBuf = 1
    Stream <- PlainStream
    NonBlocking <- Second
    BadBuffer <- Second
    SMP = FALSE
    CanUnplug = TRUE
    Scarce = TRUE
INVARIANTS
    TypeOK
    NoLostWakeup
    StreamIntegrity
    BufferLifetime
    NoLostRemoveWakeup
    ExclusiveOpen
    NoFaultWhenStreaming
    StaleWaiterFaulted
PROPERTY
    ImplementsFifo
CHECK_DEADLOCK FALSE

SPECIFICATION MCSpec
CHECK_DEADLOCK FALSE
CONSTANTS
    NBits = 6
    Messages <- MCMessages
    Vectors = {0, 15}
    MaxErrors = 3
    Services <- MCServices
    MaxUnits = 4
    MaxFaults = 3
    s1 = s1
    s2 = s2
    c1 = c1
    c2 = c2
    c3 = c3
    NULL = NULL
    Sids <- TwoSids
    Subchids <- ThreeSubchids
    Components <- TwoComponents
    DabPlus <- FirstDabPlus
    MAXFIBS = 8
    FrameFibs = 3
    FrameNumbers = 2
    MaxGap = 3
INVARIANTS
    TypeOK
    FicFromOneFrame
    EnsembleTrue
    SelectionMatchesDisplay
    SelectedIsKnown
    MaximumLikelihood
    FicBitsUsedOnce
    FrameFilled
    Resync
PROPERTIES
    TypeNeverLost
    MenuAppears
    NothingSpliced

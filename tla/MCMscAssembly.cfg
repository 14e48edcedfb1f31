SPECIFICATION Spec
CONSTANTS
    Depth = 8
    Map <- MapHalf
    Cifs = 4
    CUSPERSYM = 48
    SYMSPERCIF = 18
    MSCSTART = 5
    Subchannels <- InnerSubchannels
    FrameNumbers = 256
    MaxFrames = 5
    MaxLost = 2
INVARIANTS
    TypeOK
    DecodesEveryFilledSlot
    DecodesAlignedRing
    DelayedClassesAgree
CHECK_DEADLOCK FALSE

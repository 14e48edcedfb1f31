SPECIFICATION BSpec
CHECK_DEADLOCK FALSE
INVARIANT
    UploadsWholeFile

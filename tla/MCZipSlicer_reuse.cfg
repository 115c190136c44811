CONSTANTS
    W16 = 2
    W32 = 3
    LfhLen = 1
    HdrLen = 2
    End64Len = 1
    Loc64Len = 1
    EndLen = 1
    CSizes = {1, 6}
    USizes = {1, 8}
    ReaderVersions = {20, 45}
    MaxEntries = 3
    Stubs = {0}
    AllFields = TRUE
    ExactFits = FALSE
    Inputs <- MCInputs
    Dsts = {d1, d2}
    MinWritten = 1
    KeepAll = FALSE

SPECIFICATION Spec
CHECK_DEADLOCK FALSE

INVARIANT CopyFaithful

CONSTANTS
    StreamLen = 5
    MaxRead = 3
    MaxCalls = 4

SPECIFICATION Spec
CHECK_DEADLOCK FALSE

INVARIANT TypeOK
PROPERTY ImplementsForwardReaderAt

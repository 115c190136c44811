CONSTANTS
    MaxAttempts = 3
    MaxTime = 3
    CertExpiry = 1
    TsaExpiry = 2
    ReusePsd = FALSE
    MsAlgs = {"sha256", "md2"}
    MsKnown = {"sha256"}
    MsTimes = {1, 2}
SPECIFICATION Spec
INVARIANTS
    TypeOK
    StampIsFresh
    SelfCheckBlamesThisCall
    MsTokenSound
PROPERTIES
    StampOutlivesCert
CHECK_DEADLOCK FALSE

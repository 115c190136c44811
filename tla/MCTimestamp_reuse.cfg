CONSTANTS
    MaxAttempts = 3
    MaxTime = 3
    CertExpiry = 1
    TsaExpiry = 2
    ReusePsd = TRUE
    MsAlgs = {"sha256", "md2"}
    MsKnown = {"sha256"}
    MsTimes = {1, 2}
SPECIFICATION Spec
INVARIANTS
    SelfCheckBlamesThisCall
CHECK_DEADLOCK FALSE

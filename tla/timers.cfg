SPECIFICATION Spec
CONSTANTS
    MAX_SEQ_NUM = 3
    DEFAULT_SS_THRESH = 2
    MAX_DUP_ACKS = 2
    MAX_TO_COUNTS = 2
    MAX_RTTS = 1
    CLOCK_WRAP = 32
    START = 29
    ULONG = 64
    UINT = 32
    RTT = 3
    TIMEOUT_THRESHOLD = 1
    SELECT_TIMEOUT = 2
    MAX_UPLOADS = 1
    MAX_DOWNLOADS = 2
    MAX_TIME = 6
    Remotes = {q1}
    q1 = q1
INVARIANTS
    TypeOK
    AllTimedOut
    DeadTransfersFreed
    LinearWithinLap
PROPERTIES
    PatientWithPeers

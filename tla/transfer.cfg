SPECIFICATION Spec
CONSTANTS
    c1 = c1
    c2 = c2
    s1 = s1
    A = A
    B = B
    C = C
    NoPeer = NoPeer
    Zero = Zero
    Unset = Unset
    Peers = {c1, s1}
    Hashes = {A, B, C}
    HasFile <- TransferHas
    GetFiles <- TransferGet
    Master <- MasterFile
    ID_WIDTH = 256
    MAX_SEQ_NUM = 4
    DEFAULT_SS_THRESH = 2
    MAX_DUP_ACKS = 3
    MAX_TO_COUNTS = 3
    MAX_RTTS = 1
    MAX_CONN = 1
    MAX_HASH_IN_PACKET = 1
    MAX_FAULTS = 3
INVARIANTS
    TypeOK
    AckBacked
    WindowSane
    NoAvailabilityLeak

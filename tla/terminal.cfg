SPECIFICATION Spec
CONSTANTS
    USERBUF_SIZE = 3
    UINT = 64
    Chars = {a, b}
    NL = NL
    NUL = NUL
    TERMINAL = TRUE
    MAX_LINE = 4
    MAX_LINES = 3
CHECK_DEADLOCK FALSE
INVARIANTS
    TypeOK
    LinesIntact
    ExitsOnLongLine
PROPERTIES
    LinesHandled

SPECIFICATION Spec
CONSTANTS
    MAGIC_NUM = 15441
    VER_NUM = 1
    BUFLEN = 12
    A = A
    B = B
    x = x
    y = y
    Peers = {1, 2, 5}
    Routers = {1, 2, 3, 4}
    Nodes = {1, 2, 3}
    QueueSizes = {1, 2}
    Outgoing <- AllSent
    Garbage = {0, 1}
    MAX_SENDS = 2
CHECK_DEADLOCK FALSE
INVARIANTS
    RoutesShortest
    TypeOK
    ReadsBack
PROPERTIES
    InOrder
    Drains

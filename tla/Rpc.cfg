\* All servers; two clients of two calls, and datagrams that come late, again
\* or never.
SPECIFICATION Spec
CONSTANTS
    Clients = {c1, c2}
    Servers = {"pc", "pc2", "pc_last", "dict_threads", "dict_one", "obakery", "obakery_old", "calc"}
    MaxCalls = 2
    MaxRequests <- Requests
    MaxSent <- Sent
    MaxThreads = 2
    SIZE = 2
    NLetters = 3
    Words = {wa, wb}
    DICTSIZ = 3
    COUNT = 2
SYMMETRY Symmetry
CHECK_DEADLOCK FALSE
INVARIANTS
    TypeOK
    SoloCallsRight
    LettersInOrder
    NumbersDistinct
PROPERTIES
    ImplementsDictionary
    NewcomersInTime

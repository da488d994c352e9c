\* Producers and a consumer that are interrupted, stopped, continued, killed, or not forked.
SPECIFICATION Spec
CONSTANTS
    FirstForked = {p1, p2}
    ThenForked = {c1}
    N_BUF = 2
    PageSlots = 3
    NLetters = 2
    Faults = {"SIGINT", "SIGKILL", "SIGSTOP", "fork"}
    MaxSigint = 1
    MaxStops = 1
SYMMETRY Symmetry
CHECK_DEADLOCK FALSE
INVARIANTS
    TypeOK
    MutualExclusion
    LockRecovered
    NoHoles
    CleanupLast
    BufferBound
    LettersInOrder

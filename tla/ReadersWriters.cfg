\* Writers and a reader that are interrupted, stopped, continued, killed, or not forked.
SPECIFICATION FairSpec
CONSTANTS
    FirstForked = {w1, w2}
    ThenForked = {r1}
    NLetters = 2
    Faults = {"SIGINT", "SIGKILL", "SIGSTOP", "fork"}
    MaxSigint = 1
    MaxStops = 1
CHECK_DEADLOCK FALSE
INVARIANTS
    TypeOK
    Exclusion
    SemaphoresTell
PROPERTIES
    ImplementsLock
    Shutdown
    SomebodyEnters

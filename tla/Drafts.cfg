\* All five programs: interrupted, killed, stopped, continued, or not forked.
SPECIFICATION Spec
CONSTANTS
    w1 = w1
    w2 = w2
    r1 = r1
    FirstForked = {w1, w2}
    ThenForked = {r1}
    Order <- TwoWritersOneReader
    Programs = {"tmp", "tmp_wr", "wr_old", "tmp_pc", "les_pc"}
    NLetters = 2
    Faults = {"SIGINT", "SIGKILL", "SIGSTOP", "fork"}
    MaxSigint = 1
    MaxStops = 1
CHECK_DEADLOCK FALSE
INVARIANTS
    TypeOK
    CleanupAfterAll
    NothingKeptByTheDead
    AlphabetButOneLetter
PROPERTIES
    ImplementLock

\* The comments at les_pc.c 55 and 102 against a letter stored in *ptr_cons.
SPECIFICATION Spec
CONSTANTS
    w1 = w1
    w2 = w2
    r1 = r1
    FirstForked = {w1, w2}
    ThenForked = {r1}
    Order <- TwoWritersOneReader
    Programs = {"les_pc"}
    NLetters = 2
    Faults = {}
    MaxSigint = 0
    MaxStops = 0
CHECK_DEADLOCK FALSE
INVARIANTS
    LastsUntilSignal

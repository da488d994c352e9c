\* Every interleaving of two readers and two writers, and Ctrl-C at any time.
SPECIFICATION FairSpec
CONSTANTS
    Readers = {r1, r2}
    Writers = {w1, w2}
CHECK_DEADLOCK FALSE
INVARIANTS
    TypeOK
    SomebodyRuns
PROPERTIES
    CtrlCEnds

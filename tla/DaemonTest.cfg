\* The comment at daemon_test.c 109 against the close of the locked file.
SPECIFICATION Spec
CONSTANTS
    Daemons = {d1, d2}
    Programs = {"daemon_test"}
    Faults = {}
    MaxSignals = 0
CHECK_DEADLOCK FALSE
INVARIANTS
    SingleInstance

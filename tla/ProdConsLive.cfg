\* Progress up to the end of the page, and what Ctrl-C leaves.
SPECIFICATION FairSpec
CONSTANTS
    FirstForked = {p1, p2}
    ThenForked = {c1}
    N_BUF = 1
    PageSlots = 3
    NLetters = 2
    Faults = {"SIGINT"}
    MaxSigint = 1
    MaxStops = 0
CHECK_DEADLOCK FALSE
PROPERTIES
    ItemsConsumed
    PageRunsOut
    StopsUnlessStarved

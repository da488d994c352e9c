\* Two runs, the second on a slot of the first, whose client may be killed or give
\* up its calls and leave threads behind.
SPECIFICATION FairSpec
CONSTANTS
    COUNT_CLIENTS = 2
    Clients = {1, 2, 3}
    SlotOf <- TwoRuns
    Faults = {"kill", "timeout"}
    Faulty = {1}
CHECK_DEADLOCK FALSE
INVARIANTS
    TypeOK
    PairsWhole
PROPERTIES
    EverybodyServed

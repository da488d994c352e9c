\* One run of the program, clients being killed anywhere.
SPECIFICATION Spec
CONSTANTS
    COUNT_CLIENTS = 3
    Clients = {1, 2, 3}
    SlotOf <- OneRun
    Faults = {"kill"}
    Faulty = {1, 2, 3}
CHECK_DEADLOCK FALSE
INVARIANTS
    OvertakenOnlyByRace

\* The comment at bakery_server.c 47 against the missing array choosing.
SPECIFICATION Spec
CONSTANTS
    COUNT_CLIENTS = 3
    Clients = {1, 2, 3}
    SlotOf <- OneRun
    Faults = {}
    Faulty = {}
CHECK_DEADLOCK FALSE
INVARIANTS
    WaitsForSmallerNumbers

\* Two copies of either program, which may remove each other's files, and three
\* signals: SIGTERM alone, after SIGHUPs, or to both.
SPECIFICATION FairSpec
CONSTANTS
    Daemons = {d1, d2}
    Programs = {"daemon", "daemon_test"}
    Faults = {"kill", "file", "thread"}
    MaxSignals = 3
CHECK_DEADLOCK FALSE
INVARIANTS
    TypeOK
    OneDaemon
    ConfOwned
    PidOwned
PROPERTIES
    TermObeyed

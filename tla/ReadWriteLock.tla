---------------------------- MODULE ReadWriteLock ----------------------------
(***************************************************************************)
(* What the readers-writers programs promise: readers share, a writer is   *)
(* alone, and each writer that gets the lock replaces the value by the next *)
(* one, in a circle of NValues, at most once.                               *)
(***************************************************************************)
EXTENDS Integers

CONSTANTS Readers, Writers, NValues

VARIABLES
    reading,  \* readers that hold the lock
    writing,  \* the writer that holds it and has not written yet
    wrote,    \* the writer that holds it and has
    value

lvars == <<reading, writing, wrote, value>>

Init ==
    /\ reading = {}
    /\ writing = {}
    /\ wrote = {}
    /\ value = 0

BeginRead(r) ==
    /\ writing = {} /\ wrote = {}
    /\ reading' = reading \cup {r}
    /\ UNCHANGED <<writing, wrote, value>>

EndRead(r) ==
    /\ r \in reading
    /\ reading' = reading \ {r}
    /\ UNCHANGED <<writing, wrote, value>>

BeginWrite(w) ==
    /\ reading = {} /\ writing = {} /\ wrote = {}
    /\ writing' = {w}
    /\ UNCHANGED <<reading, wrote, value>>

Write(w) ==
    /\ w \in writing
    /\ writing' = writing \ {w}
    /\ wrote' = wrote \cup {w}
    /\ value' = IF value = NValues - 1 THEN 0 ELSE value + 1
    /\ UNCHANGED reading

EndWrite(w) ==
    /\ w \in writing \cup wrote
    /\ writing' = writing \ {w}
    /\ wrote' = wrote \ {w}
    /\ UNCHANGED <<reading, value>>

Next ==
    \/ \E r \in Readers : BeginRead(r) \/ EndRead(r)
    \/ \E w \in Writers : BeginWrite(w) \/ Write(w) \/ EndWrite(w)

Spec == Init /\ [][Next]_lvars
=============================================================================

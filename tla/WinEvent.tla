------------------------------ MODULE WinEvent ------------------------------
(***************************************************************************)
(* The event objects of the Windows API as lab_win/winwr.c uses them: a    *)
(* signalled event lets a thread pass, SetEvent on an event that threads   *)
(* wait for lets them go in that moment, and a later ResetEvent does not   *)
(* take that back.                                                         *)
(***************************************************************************)

\* WaitForSingleObject of thread t on an auto-reset event: it passes and takes
\* the signal, or joins the waiting.  An event is [signalled, waiting].
WaitAuto(event, t) ==
    IF event.signalled
      THEN [event EXCEPT !.signalled = FALSE]
      ELSE [event EXCEPT !.waiting = @ \cup {t}]

\* On a manual-reset event the signal stays.
WaitManual(event, t) ==
    IF event.signalled THEN event ELSE [event EXCEPT !.waiting = @ \cup {t}]

\* SetEvent: any one of the threads waiting for an auto-reset event goes, or
\* the signal is kept ...
SetAuto(event) ==
    IF event.waiting = {}
      THEN {[event EXCEPT !.signalled = TRUE]}
      ELSE {[event EXCEPT !.waiting = @ \ {t}] : t \in event.waiting}

\* ... and every one that waits for a manual-reset event.
SetManual(event) == [event EXCEPT !.signalled = TRUE, !.waiting = {}]

Reset(event) == [event EXCEPT !.signalled = FALSE]
=============================================================================

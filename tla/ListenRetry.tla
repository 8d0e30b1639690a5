----------------------------- MODULE ListenRetry ----------------------------
(***************************************************************************)
(* srt_bind_listener_retrying (source/srthub.c), which the SRT pull server *)
(* and the SRT listener input start with: it tries to bind until it can or *)
(* is told to stop, reports a failure when it first happens, when its      *)
(* reason changes and hourly while it lasts, and reports the recovery.     *)
(* Time passes in retry intervals (SRT_LISTEN_RETRY_SECONDS).              *)
(***************************************************************************)
EXTENDS Integers

CONSTANTS
    Reasons,    \* why a bind may fail
    Hour,       \* SRT_LISTEN_REPORT_SECONDS, in retry intervals
    NULL,
    LISTENING   \* the event of a recovery

VARIABLES
    pc,         \* "trying", "waiting" between two tries, "bound" or "stopped"
    running,    \* the caller's flag
    failed, lastReason, \* whether a try has failed, the reason last reported
    age,        \* intervals since the last report, from last_report
    file,       \* srt_listen_error_*.json: the reason it gives, or NULL
    event,      \* history: the last event sent
    cause       \* history: why the last try failed

vars == <<pc, running, failed, lastReason, age, file, event, cause>>

(* A file may be left from a run of the service that was stopped.           *)
Init ==
    /\ pc = "trying" /\ running = TRUE
    /\ failed = FALSE /\ lastReason = NULL /\ age = 0
    /\ file \in Reasons \cup {NULL}
    /\ event = NULL /\ cause = NULL

(* A failure worth an event and a new status file.                          *)
NewsOfFirst(r) == ~failed
NewsAlways(r) == TRUE
News(r) == ~failed \/ r # lastReason \/ age >= Hour

TryFails(r) ==
    /\ pc = "trying" /\ running
    /\ pc' = "waiting"
    /\ failed' = TRUE
    /\ cause' = r
    /\ IF News(r)
       THEN event' = r /\ file' = r /\ lastReason' = r /\ age' = 0
       ELSE UNCHANGED <<event, file, lastReason, age>>
    /\ UNCHANGED running

(* The bind succeeds: a recovery is an event, the file goes.                *)
FileKept == file
FileCleared == NULL
TrySucceeds ==
    /\ pc = "trying" /\ running
    /\ pc' = "bound"
    /\ event' = IF failed THEN LISTENING ELSE event
    /\ file' = FileCleared
    /\ UNCHANGED <<running, failed, lastReason, age, cause>>

(* The interval is over, or cut short by a stop.                            *)
Waited ==
    /\ pc = "waiting"
    /\ pc' = "trying"
    /\ IF running THEN age' = age + 1 ELSE age' \in {age, age + 1}
    /\ UNCHANGED <<running, failed, lastReason, file, event, cause>>

Returns ==
    /\ pc = "trying" /\ ~running
    /\ pc' = "stopped"
    /\ UNCHANGED <<running, failed, lastReason, age, file, event, cause>>

(* The main loop.                                                           *)
Stop == running /\ running' = FALSE
        /\ UNCHANGED <<pc, failed, lastReason, age, file, event, cause>>

(* The thread starts over after main has restarted it.                      *)
Restart ==
    /\ pc \in {"bound", "stopped"} /\ ~running
    /\ running' = TRUE /\ pc' = "trying"
    /\ failed' = FALSE /\ lastReason' = NULL /\ age' = 0
    /\ event' = NULL /\ cause' = NULL
    /\ UNCHANGED file

Thread == (\E r \in Reasons : TryFails(r)) \/ TrySucceeds \/ Waited \/ Returns
Next == Thread \/ Stop \/ Restart

Spec == Init /\ [][Next]_vars

-----------------------------------------------------------------------------
(* Properties                                                              *)

(* Fields have their types; the last report is never older than an hour.    *)
TypeOK ==
    /\ pc \in {"trying", "waiting", "bound", "stopped"}
    /\ {running, failed} \subseteq BOOLEAN
    /\ {lastReason, file, cause} \subseteq Reasons \cup {NULL}
    /\ event \in Reasons \cup {NULL, LISTENING}
    /\ age \in 0 .. Hour

(* The event log and the status card tell the truth: between two tries both *)
(* give the reason the last try failed for, whatever reasons came in        *)
(* between; a listener that has bound shows no failure, not even one of an  *)
(* earlier run, and its last event is not of a failure.                     *)
StatusTrue ==
    /\ pc = "waiting" => event = cause /\ file = cause
    /\ pc = "bound" => file = NULL /\ event \in {NULL, LISTENING}

(* The same failure is not reported twice within the hour.                  *)
NoFlood ==
    [][pc = "trying" /\ pc' = "waiting" /\ age' = 0 =>
           cause' # cause \/ age >= Hour]_vars
=============================================================================

----------------------------- MODULE MCReports ------------------------------
(***************************************************************************)
(* The three places of srthub.c that decide whether something is worth an  *)
(* event, for one run of TLC: the cues of CueDedup, the format trackers of *)
(* FormatChange and the listener of ListenRetry. They run in different     *)
(* threads and share no state, so the order of their steps cannot matter:  *)
(* each behaviour here runs one of them and leaves the others alone, and   *)
(* TLC explores the sum of their states rather than the product.           *)
(***************************************************************************)
EXTENDS CueDedup, Sequences

CONSTANTS Aspects, Resolutions, Unknown, FRAMES, Reasons, Hour, LISTENING

ASSUME FramesAssumption == FRAMES \in Nat \ {0}
ASSUME FormatsAssumption ==
    /\ Aspects \cap Resolutions = {}
    /\ {Unknown, NULL} \cap (Aspects \cup Resolutions) = {}
ASSUME HourAssumption == Hour \in Nat \ {0}
ASSUME ReasonsAssumption == {LISTENING, NULL} \cap Reasons = {}

VARIABLES
    part,       \* the one of the three that runs
    current, currentContext, pending, pendingContext, pendingCount,
    report, run, lastContext,
    pc, running, failed, lastReason, age, file, event, cause

Format == INSTANCE FormatChange
Listener == INSTANCE ListenRetry

formatVars == <<current, currentContext, pending, pendingContext, pendingCount,
                report, run, lastContext>>
listenerVars == <<pc, running, failed, lastReason, age, file, event, cause>>
allVars == <<part, vars, formatVars, listenerVars>>

AllInit ==
    /\ part \in {"cues", "format", "listener"}
    /\ Init
    /\ Format!Init
    /\ Listener!Init
    /\ part # "listener" => file = NULL

CueSteps == part = "cues" /\ Next /\ UNCHANGED <<part, formatVars, listenerVars>>
FormatSteps == part = "format" /\ Format!Frame /\ UNCHANGED <<part, vars, listenerVars>>
ListenerSteps == part = "listener" /\ Listener!Next /\ UNCHANGED <<part, vars, formatVars>>

AllNext == CueSteps \/ FormatSteps \/ ListenerSteps

AllSpec == AllInit /\ [][AllNext]_allVars

-----------------------------------------------------------------------------
(* Properties: those of CueDedup, and these.                                *)

(* The fields of all three have their types.                                *)
ReportTypeOK == TypeOK /\ Format!TypeOK /\ Listener!TypeOK

(* format_change_update misses no change that lasts, and reports no glitch. *)
LastingChangesReported == Format!LastingChangesReported

(* The log and the status card say whether and why a listener has no port.  *)
StatusTrue == Listener!StatusTrue

(* The same failure is not reported twice within the hour.                  *)
NoFlood == Listener!NoFlood
=============================================================================

---------------------------- MODULE FormatChange ----------------------------
(***************************************************************************)
(* The format change trackers of srthub_thumbnail_thread (source/srthub.c, *)
(* format_change_update). Each decoded frame is fed to a tracker of the    *)
(* aspect ratio, with the resolution as context, and to one of the         *)
(* resolution, with the ratio as context. A change is an event only when   *)
(* FRAMES frames in a row show it.                                         *)
(***************************************************************************)
EXTENDS Integers, Sequences

CONSTANTS
    Aspects, Resolutions,   \* the formats a stream may have
    Unknown,    \* the ratio "unknown" of a frame without one
    NULL,       \* the empty string
    FRAMES      \* VIDEO_FORMAT_CHANGE_FRAMES

VARIABLES
    current, currentContext,    \* per tracker: what was last reported
    pending, pendingContext,    \* what may become the next report
    pendingCount,
    report,     \* the change the last frame confirmed, or NULL
    run,        \* history: the value of the last frames, and how many showed it
    lastContext \* history: the context of the last frames that showed the
                \*          current value, and how many in a row had it

vars == <<current, currentContext, pending, pendingContext, pendingCount,
          report, run, lastContext>>

Trackers == {"aspect", "resolution"}

Values == Aspects \cup Resolutions \cup {Unknown}
Change == [from : Values, fromContext : Values, to : Values, toContext : Values]

(* The histories count up to FRAMES frames in a row with the same value.    *)
Nothing == [value |-> NULL, count |-> 0]
Counted(h, v) ==
    [value |-> v, count |-> IF v # h.value THEN 1
                            ELSE IF h.count < FRAMES THEN h.count + 1 ELSE FRAMES]

Init ==
    /\ current = [t \in Trackers |-> NULL]
    /\ currentContext = [t \in Trackers |-> NULL]
    /\ pending = [t \in Trackers |-> NULL]
    /\ pendingContext = [t \in Trackers |-> NULL]
    /\ pendingCount = [t \in Trackers |-> 0]
    /\ report = [t \in Trackers |-> NULL]
    /\ run = [t \in Trackers |-> Nothing]
    /\ lastContext = [t \in Trackers |-> Nothing]

(* The state of one tracker.                                                *)
Tracker(t) ==
    [current |-> current[t], currentContext |-> currentContext[t],
     pending |-> pending[t], pendingContext |-> pendingContext[t],
     pendingCount |-> pendingCount[t], report |-> NULL]

(* format_change_update, by the case its value falls in.                    *)
Baseline(k, v, x) ==
    [k EXCEPT !.current = v, !.currentContext = x, !.pending = NULL, !.pendingCount = 0]

GlitchKept(k) == k
GlitchOver(k) == [k EXCEPT !.pending = NULL, !.pendingCount = 0]

(* The pending value once it has been seen again, or another in its place.  *)
PendingAnyway(k, v, x) ==
    [k EXCEPT !.pending = v, !.pendingContext = x, !.pendingCount = @ + 1]
Pending(k, v, x) ==
    IF k.pendingCount > 0 /\ v = k.pending
    THEN [k EXCEPT !.pendingCount = @ + 1]
    ELSE [k EXCEPT !.pending = v, !.pendingContext = x, !.pendingCount = 1]

Enough(k) == k.pendingCount >= FRAMES

Confirmed(k) ==
    [k EXCEPT
        !.report = [from |-> k.current, fromContext |-> k.currentContext,
                    to |-> k.pending, toContext |-> k.pendingContext],
        !.current = k.pending, !.currentContext = k.pendingContext,
        !.pending = NULL, !.pendingCount = 0]

Update(k, v, x) ==
    IF v = Unknown THEN k
    ELSE IF k.current = NULL THEN Baseline(k, v, x)
    ELSE IF v = k.current THEN GlitchOver(k)
    ELSE LET p == Pending(k, v, x)
         IN  IF Enough(p) THEN Confirmed(p) ELSE p

(* A frame is decoded; a ratio that is unknown is still a context.          *)
Frame ==
    \E a \in Aspects \cup {Unknown}, r \in Resolutions :
        LET value == [t \in Trackers |-> IF t = "aspect" THEN a ELSE r]
            context == [t \in Trackers |-> IF t = "aspect" THEN r ELSE a]
            after == [t \in Trackers |-> Update(Tracker(t), value[t], context[t])]
        IN
        /\ current' = [t \in Trackers |-> after[t].current]
        /\ currentContext' = [t \in Trackers |-> after[t].currentContext]
        /\ pending' = [t \in Trackers |-> after[t].pending]
        /\ pendingContext' = [t \in Trackers |-> after[t].pendingContext]
        /\ pendingCount' = [t \in Trackers |-> after[t].pendingCount]
        /\ report' = [t \in Trackers |-> after[t].report]
        /\ run' = [t \in Trackers |->
               IF value[t] = Unknown THEN run[t] ELSE Counted(run[t], value[t])]
        /\ lastContext' = [t \in Trackers |->
               IF after[t].current # current[t] THEN Counted(Nothing, context[t])
               ELSE IF value[t] # current[t] THEN lastContext[t]
               ELSE Counted(lastContext[t], context[t])]

Spec == Init /\ [][Frame]_vars

-----------------------------------------------------------------------------
(* Properties                                                              *)

(* Fields have their types; what is pending has not been confirmed.         *)
TypeOK ==
    /\ {current[t] : t \in Trackers} \cup {currentContext[t] : t \in Trackers}
       \cup {pending[t] : t \in Trackers} \cup {pendingContext[t] : t \in Trackers}
       \subseteq Values \cup {NULL}
    /\ pendingCount \in [Trackers -> 0 .. (FRAMES - 1)]
    /\ \A t \in Trackers : report[t] \in Change \cup {NULL}

(* What the tracker holds as current is the value of any FRAMES frames in a *)
(* row that show the same: no change that lasts is missed. And a change is  *)
(* reported only when that many frames in a row have shown the new value: a *)
(* single corrupt header raises no event, however the glitches alternate.   *)
LastingChangesReported ==
    \A t \in Trackers :
        /\ run[t].count = FRAMES => current[t] = run[t].value
        /\ report[t] # NULL => /\ run[t] = [value |-> report[t].to, count |-> FRAMES]
                               /\ report[t].from # report[t].to

(* The context next to the old value says what the picture looked like on   *)
(* that side of the change (srthub.c:2689-2690): when enough frames in a    *)
(* row had the same context before the value changed, it is that one.       *)
OldSideIsTrue ==
    [][\A t \in Trackers :
           report'[t] # NULL /\ lastContext[t].count = FRAMES =>
               report'[t].fromContext = lastContext[t].value]_vars
=============================================================================

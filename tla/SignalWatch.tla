---------------------------- MODULE SignalWatch ----------------------------
(***************************************************************************)
(* How the hub watches a UDP input: the loop of udp_receiver_thread        *)
(* (source/srthub.c), with the table of sockets it opens and closes them   *)
(* in (source/udpsource.c).                                                *)
(*                                                                         *)
(* The loop waits a second at a time. Five seconds without a datagram      *)
(* make it report the loss of the input and open its socket anew; a socket *)
(* that could not be opened counts as silence, so that opening it is tried *)
(* again. A restart of the hub ends the thread and starts another.         *)
(*                                                                         *)
(* What a datagram is passed on to is the subject of other modules.        *)
(***************************************************************************)
EXTENDS Integers, FiniteSetsExt

CONSTANTS
    Slots,          \* the places of socket_table, 1 .. UDP_MAX_SOCKETS
    Descriptors,    \* the descriptors the system hands out
    SILENT,         \* seconds of silence before the input is lost, 5
    NONE

ASSUME SilentAssumption == SILENT \in Nat \ {0}
ASSUME DescriptorsAssumption == NONE \notin Descriptors
ASSUME SlotsAssumption == Slots \subseteq Nat

VARIABLES
    running,    \* udp_receiver_thread_running
    table,      \* socket_table: the descriptor in each slot, NONE if unused
    open,       \* the descriptors open in the process
    socket,     \* udp_socket, NONE for a negative one
    quiet,      \* no_signal_count
    input,      \* input_signal
    shown,      \* whether a summary of streams is published in the core
    event,      \* the last event sent: "locked" or "lost", NONE at first
    silence     \* history: seconds since the last datagram or the start of
                \* the thread, at most SILENT

vars == <<running, table, open, socket, quiet, input, shown, event, silence>>
sockets == <<table, open, socket>>

-----------------------------------------------------------------------------
(* socket_udp_close: the slot of the descriptor is freed.                  *)
Closed(t, fd) == [s \in Slots |-> IF t[s] = fd THEN NONE ELSE t[s]]

(* socket_udp_open on table t, with the descriptors in o open: there may   *)
(* be no socket at all; one that cannot be set up and bound is closed, as  *)
(* is one for which the table has no slot.                                 *)
Outcome(t, o, fd) == [table |-> t, open |-> o, socket |-> fd]
LeftOpen(t, o, fd) == Outcome(t, o \cup {fd}, NONE)
Unbound(t, o, fd) == Outcome(t, o, NONE)
Opened(t, o, fd) ==
    LET free == {s \in Slots : t[s] = NONE} IN
    IF free = {} THEN Unbound(t, o, fd)
    ELSE Outcome([t EXCEPT ![Min(free)] = fd], o \cup {fd}, fd)
Openings(t, o) ==
    {Outcome(t, o, NONE)}
    \cup UNION {{Unbound(t, o, fd), Opened(t, o, fd)} : fd \in Descriptors \ o}

SocketOpens(t, o) ==
    \E outcome \in Openings(t, o) :
        table' = outcome.table /\ open' = outcome.open /\ socket' = outcome.socket

-----------------------------------------------------------------------------
Lost == quiet >= SILENT

(* The input is lost: the socket, if there is one, is closed and another   *)
(* is opened. Then the loss is reported.                                   *)
Reopen ==
    /\ running /\ Lost
    /\ SocketOpens(Closed(table, socket), open \ {socket})
    /\ quiet' = 0
    /\ event' = "lost"
    /\ UNCHANGED <<running, input, shown, silence>>

(* A second without a datagram: select times out, or there is no socket    *)
(* and the thread sleeps.                                                  *)
NeverSlept == FALSE
Slept == socket = NONE
Silence ==
    /\ running /\ ~Lost
    /\ Slept \/ socket # NONE
    /\ quiet' = quiet + 1
    /\ input' = FALSE
    /\ shown' = FALSE
    /\ silence' = IF silence < SILENT THEN silence + 1 ELSE silence
    /\ UNCHANGED <<running, sockets, event>>

(* A datagram. The first one is reported; every two seconds the summary of *)
(* streams is published.                                                   *)
Datagram ==
    /\ running /\ ~Lost
    /\ socket # NONE
    /\ quiet' = 0
    /\ input' = TRUE
    /\ event' = IF input THEN event ELSE "locked"
    /\ shown' \in {shown, TRUE}
    /\ silence' = 0
    /\ UNCHANGED <<running, sockets>>

(* The system interrupts the wait, or the read has nothing: not a second   *)
(* of silence.                                                             *)
Interrupted ==
    /\ running /\ ~Lost
    /\ socket # NONE
    /\ UNCHANGED vars

(* The main loop ends the thread, which closes its socket.                 *)
Stops ==
    /\ running
    /\ running' = FALSE
    /\ table' = Closed(table, socket) /\ open' = open \ {socket}
    /\ socket' = NONE
    /\ UNCHANGED <<quiet, input, shown, event, silence>>

(* And starts another: the summary published by the one before stays.      *)
Starts ==
    /\ ~running
    /\ running' = TRUE
    /\ SocketOpens(table, open)
    /\ quiet' = 0 /\ input' = FALSE
    /\ silence' = 0
    /\ UNCHANGED <<shown, event>>

Init ==
    /\ running = FALSE
    /\ table = [s \in Slots |-> NONE] /\ open = {} /\ socket = NONE
    /\ quiet = 0 /\ input = FALSE /\ shown = FALSE
    /\ event = NONE
    /\ silence = 0

Receives == Reopen \/ Silence \/ Datagram
Next == Receives \/ Interrupted \/ Stops \/ Starts

(* The thread is never stuck: its waits have a timeout.                    *)
Spec == Init /\ [][Next]_vars /\ WF_vars(Receives)

-----------------------------------------------------------------------------
(* Properties                                                              *)

(* Fields have their types.                                                *)
TypeOK ==
    /\ table \in [Slots -> Descriptors \cup {NONE}] /\ open \subseteq Descriptors
    /\ socket \in open \cup {NONE}
    /\ running \in BOOLEAN /\ input \in BOOLEAN /\ shown \in BOOLEAN
    /\ event \in {"locked", "lost", NONE}
    /\ quiet \in 0 .. SILENT /\ silence \in 0 .. SILENT

(* However often opening fails, and across restarts, the process has open  *)
(* the one socket the receiver holds, in one slot, and no other: none is   *)
(* leaked, and no slot is.                                                 *)
SocketsAccounted ==
    /\ open = {socket} \ {NONE}
    /\ \A s \in Slots : table[s] \in {socket, NONE}
    /\ socket # NONE => \E s \in Slots : \A r \in Slots : table[r] = socket <=> r = s
    /\ socket # NONE => running

(* The events tell the truth about the input. It counts as locked only     *)
(* after the event says so and while datagrams come; five seconds with     *)
(* none are reported as a loss, and fewer never are; and no streams are    *)
(* shown of an input that is not there, but those of before a restart.     *)
EventsTrue ==
    /\ input => event = "locked" /\ silence = 0
    /\ Lost => silence = SILENT
    /\ silence = SILENT => event = "lost" \/ Lost
    /\ shown /\ ~input => silence = 0

(* Both: the receiver leaks no socket, and its events are true.            *)
InputWatched == SocketsAccounted /\ EventsTrue

(* If no datagram comes any more, and neither interruptions nor restarts   *)
(* go on for ever, the loss is reported again and again: also with no      *)
(* socket, the hub goes on trying to open one.                             *)
SilenceReported ==
    (/\ <>[](running)
     /\ <>[][~Datagram]_vars)
    => []<><<Reopen>>_vars
=============================================================================

---------------------------- MODULE EventReports ----------------------------
(***************************************************************************)
(* The way of an event from the hub to the event log: send_signal and      *)
(* send_signal_scte35, signal_thread and signal_management_interface       *)
(* (source/esignal.c), and the log the web application keeps and sorts by  *)
(* type (webapp/server.js).                                                *)
(*                                                                         *)
(* Any thread of the hub queues events; one thread takes them one by one,  *)
(* words each one and posts it, and waits up to five seconds for an        *)
(* answer. The answer is not looked at and nothing is posted twice. A post *)
(* that was given up may still reach the web application, which may be     *)
(* slow, or may not run at all. The hub is stopped by removing its         *)
(* container, at any time.                                                 *)
(*                                                                         *)
(* The queue is the one of DataQueue: first in, first out.                 *)
(***************************************************************************)
EXTENDS Integers, Sequences, SequencesExt, FiniteSets

CONSTANTS
    MaxEvents,  \* bound: events sent
    NONE

VARIABLES
    up,         \* whether the hub runs
    queue,      \* signalqueue: events, oldest first
    thread,     \* the event signal_thread has taken, NONE when it has none
    posted,     \* whether the thread waits for the answer to its post
    runs,       \* whether the web application runs
    posts,      \* posts on their way to it
    log,        \* the event log
    copies,     \* copies of cues that have not been freed
    said,       \* history: the words of the events sent
    late        \* history: the events given up before they were logged

hubVars == <<up, queue, thread, posted, copies, said>>
vars == <<hubVars, runs, posts, log, late>>

-----------------------------------------------------------------------------
(* How signal_thread words the kinds of event the hub sends: the status,   *)
(* and how the message begins. The threads word the messages of            *)
(* connections themselves.                                                 *)
ConnectionWords ==
    {<<"SRT_LISTEN_FAILED",   "error",   "SRT Unable to Listen">>,
     <<"SRT_LISTENING",       "success", "SRT Listening">>,
     <<"SRT_CONNECTED",       "success", "SRT Connected">>,
     <<"SRT_CONNECTED",       "success", "Accepted SRT Connection">>,
     <<"SRT_CONNECTION_LOST", "warning", "SRT Unable to Connect">>,
     <<"SRT_CONNECTION_LOST", "warning", "SRT Connection Lost">>,
     <<"SRT_CONNECTION_LOST", "warning", "SRT Error">>,
     <<"START_SERVICE",       "success", "Started">>}
InputWords ==
    {<<"NO_DATA",             "warning", "No Data on SRT">>,
     <<"NO_INPUT_SIGNAL",     "warning", "No Input Signal">>,
     <<"INPUT_SIGNAL_LOCKED", "success", "Input Signal Locked">>}
FormatWords ==
    {<<"VIDEO_ASPECT_CHANGE",     "warning", "Source aspect ratio changed">>,
     <<"VIDEO_RESOLUTION_CHANGE", "warning", "Source resolution changed">>,
     <<"VIDEO_AFD_CHANGE",        "warning", "Source AFD changed">>,
     <<"VIDEO_FRAMERATE_CHANGE",  "warning", "Source frame rate changed">>}
CueWords ==
    {<<"SCTE35_START", "success", "SCTE-35 cue out">>,
     <<"SCTE35_END",   "success", "SCTE-35 cue in">>,
     <<"SCTE35_EVENT", "success", "SCTE-35 event">>,
     <<"SCTE35_EVENT", "success", "SCTE-35 event canceled">>}
Words == ConnectionWords \cup InputWords \cup FormatWords \cup CueWords

Message(words) == words[3]
IsCue(words) == words \in CueWords

(* classifyLogEntry: the type of an entry is told by how its message       *)
(* begins. The messages that no build of the hub sends now are left out.   *)
Types ==
    [scte35     |-> {Message(w) : w \in CueWords},
     aspect     |-> {"Source aspect ratio changed"},
     resolution |-> {"Source resolution changed"},
     afd        |-> {"Source AFD changed"},
     framerate  |-> {"Source frame rate changed"},
     input      |-> {"Input Signal Locked", "No Input Signal", "No Data on SRT"},
     srt        |-> {"SRT Unable to Listen", "SRT Listening", "SRT Connected", "SRT Error",
                     "SRT Unable to Connect", "SRT Connection Lost", "Accepted SRT Connection"},
     service    |-> {"Started"}]
TypeOf(words) == {t \in DOMAIN Types : Message(words) \in Types[t]}

-----------------------------------------------------------------------------
(* send_signal and send_signal_scte35, which copies the cue.               *)
Send(words) ==
    /\ up
    /\ Len(said) < MaxEvents
    /\ LET event == [words |-> words, n |-> Len(said) + 1] IN
       /\ said' = Append(said, words)
       /\ queue' = Append(queue, event)
       /\ copies' = IF IsCue(words) THEN copies \cup {event} ELSE copies
    /\ UNCHANGED <<up, thread, posted, runs, posts, log, late>>

Take ==
    /\ up /\ thread = NONE /\ queue # <<>>
    /\ thread' = Head(queue)
    /\ queue' = Tail(queue)
    /\ UNCHANGED <<up, posted, copies, said, runs, posts, log, late>>

(* The thread posts its event; nobody listens if the application is down.  *)
Post ==
    /\ up /\ thread # NONE /\ ~posted
    /\ posted' = TRUE
    /\ posts' = IF runs THEN posts \cup {thread} ELSE posts
    /\ UNCHANGED <<up, queue, thread, copies, said, runs, log, late>>

(* It has the answer, or gives up. The event is freed, with its cue.       *)
PostedAgain(event) == IF event \in posts THEN event ELSE NONE
Forgotten(event) == NONE
Return ==
    /\ up /\ posted
    /\ posted' = FALSE
    /\ thread' = Forgotten(thread)
    /\ copies' = copies \ {thread}
    /\ late' = IF thread \in posts THEN late \cup {thread} ELSE late
    /\ UNCHANGED <<up, queue, said, runs, posts, log>>

(* A post arrives, and the web application writes its event in the log.    *)
Arrive(event) ==
    /\ runs
    /\ posts' = posts \ {event}
    /\ log' = Append(log, event)
    /\ UNCHANGED <<hubVars, runs, late>>

-----------------------------------------------------------------------------
(* The web application ends with what is on its way to it, and starts.     *)
WebApplication ==
    /\ runs' = ~runs
    /\ posts' = {}
    /\ UNCHANGED <<hubVars, log, late>>

(* The hub ends with all it has queued, and a new one starts.              *)
HubStops ==
    /\ up
    /\ up' = FALSE
    /\ queue' = <<>> /\ thread' = NONE /\ posted' = FALSE /\ copies' = {}
    /\ late' = late \cup posts
    /\ UNCHANGED <<said, runs, posts, log>>
HubStarts ==
    /\ ~up
    /\ up' = TRUE
    /\ UNCHANGED <<queue, thread, posted, copies, said, runs, posts, log, late>>

Init ==
    /\ up = TRUE /\ queue = <<>> /\ thread = NONE /\ posted = FALSE
    /\ runs \in BOOLEAN /\ posts = {} /\ log = <<>>
    /\ copies = {} /\ said = <<>> /\ late = {}

Thread == Take \/ Post \/ Return
Next ==
    \/ \E words \in Words : Send(words)
    \/ Thread
    \/ \E event \in posts : Arrive(event)
    \/ WebApplication \/ HubStops \/ HubStarts

(* The thread polls its queue and its posts end within five seconds; the   *)
(* web application answers what reaches it.                                *)
Spec ==
    /\ Init /\ [][Next]_vars
    /\ WF_vars(Thread)
    /\ WF_vars(\E event \in posts : Arrive(event))

-----------------------------------------------------------------------------
(* Properties                                                              *)

(* Fields have their types.                                                *)
TypeOK ==
    LET Event == [words : Words, n : 1 .. MaxEvents] IN
    /\ queue \in Seq(Event) /\ thread \in Event \cup {NONE}
    /\ posted => thread # NONE
    /\ posts \subseteq Event /\ log \in Seq(Event) /\ late \subseteq Event

(* The log is what the hub sent and nothing else: each event at most once, *)
(* in the order of the events but for those the hub had given up, with the *)
(* words of its kind, and of exactly one type the log page knows; and the  *)
(* copy of a cue lives as long as its event and no longer.                 *)
LogFaithful ==
    /\ \A i \in DOMAIN log :
         /\ log[i].words = said[log[i].n]
         /\ Cardinality(TypeOf(log[i].words)) = 1
         /\ \A j \in 1 .. (i - 1) : \/ log[j].n < log[i].n
                                    \/ log[j].n # log[i].n /\ log[i] \in late
    /\ copies = {e \in ToSet(queue) \cup {thread} : e # NONE /\ IsCue(e.words)}

(* An event that is queued reaches the log, unless the hub or the web      *)
(* application stops: a post that is given up is not lost by that.         *)
Queued(n) == \E e \in ToSet(queue) : e.n = n
Logged(n) == \E e \in ToSet(log) : e.n = n
EventsLogged == \A n \in 1 .. MaxEvents : Queued(n) ~> (Logged(n) \/ ~up \/ ~runs)
=============================================================================

------------------------------ MODULE CueDedup ------------------------------
(***************************************************************************)
(* The repeat check on SCTE-35 cues in receive_frame (source/srthub.c). A  *)
(* splice section is retransmitted several times a second; the hub reports *)
(* each cue once and remembers the cues of the last few sections in a      *)
(* small table, scte35_recent, evicting the least recently seen.           *)
(*                                                                         *)
(* The table is only touched by the receive thread, one section at a time. *)
(***************************************************************************)
EXTENDS Integers, FiniteSets

CONSTANTS
    Cues,       \* the distinct cues: event id, direction, cancel, type
    K,          \* SCTE35_RECENT_CUES: the size of the table
    W,          \* SCTE35_CUE_REPEAT_WINDOW_SECONDS
    NULL,
    MaxTime     \* bound: the seconds that go by

ASSUME TableAssumption == K \in Nat \ {0}
ASSUME WindowAssumption == W \in Nat
ASSUME TimeAssumption == MaxTime \in Nat
ASSUME NullAssumption == NULL \notin Cues

VARIABLES
    recent,     \* the cue in each slot, or NULL while the slot is not valid
    seenAt,     \* last_seen of each slot
    now,        \* monotonic seconds
    heard,      \* the cue of the last section
    told,       \* whether that section was reported
    sighted     \* history: when each cue was last in a section, -1: never

vars == <<recent, seenAt, now, heard, told, sighted>>

Slots == 1 .. K

Init ==
    /\ recent = [i \in Slots |-> NULL]
    /\ seenAt = [i \in Slots |-> 0]
    /\ now = 0
    /\ heard = NULL /\ told = FALSE
    /\ sighted = [c \in Cues |-> -1]

(* The slots that remember cue c.                                           *)
Known(c) == {i \in Slots : recent[i] = c}

(* A repeat within the window is not reported.                              *)
RepeatsUpTo(i) == now - seenAt[i] <= W
Repeats(i) == now - seenAt[i] < W

(* The slot a new cue takes: the first free one or else, of those seen      *)
(* longest ago, the first.                                                  *)
IsVictimFirst(i) == i = 1
IsVictim(i) ==
    IF \E j \in Slots : recent[j] = NULL
    THEN recent[i] = NULL /\ \A j \in 1 .. (i - 1) : recent[j] # NULL
    ELSE /\ \A j \in Slots : seenAt[i] <= seenAt[j]
         /\ \A j \in 1 .. (i - 1) : seenAt[i] < seenAt[j]

(* The table after a section with the cue in slot i: the time of a repeat   *)
(* is noted whether or not it is reported.                                  *)
NotedOnce(i) == [seenAt EXCEPT ![i] = IF Repeats(i) THEN @ ELSE now]
NotedExpiry(i) == [seenAt EXCEPT ![i] = now + W]
Noted(i) == [seenAt EXCEPT ![i] = now]

Hears(c) ==
    /\ heard' = c
    /\ sighted' = [sighted EXCEPT ![c] = now]
    /\ UNCHANGED now

(* A section with a cue the table remembers.                                *)
Again(c) ==
    /\ Hears(c)
    /\ \E i \in Known(c) :
        /\ told' = ~Repeats(i)
        /\ seenAt' = Noted(i)
    /\ UNCHANGED recent

(* A section with a cue it does not.                                        *)
NewAlways(c) == TRUE
New(c) == Known(c) = {}
Fresh(c) ==
    /\ New(c)
    /\ Hears(c)
    /\ told' = TRUE
    /\ \E i \in Slots :
        /\ IsVictim(i)
        /\ recent' = [recent EXCEPT ![i] = c]
        /\ seenAt' = [seenAt EXCEPT ![i] = now]

Tick ==
    /\ now < MaxTime
    /\ now' = now + 1
    /\ UNCHANGED <<recent, seenAt, heard, told, sighted>>

Next == Tick \/ \E c \in Cues : Again(c) \/ Fresh(c)

Spec == Init /\ [][Next]_vars

-----------------------------------------------------------------------------
(* Properties                                                              *)

(* Fields and histories have their types, and no time lies in the future.   *)
TypeOK ==
    /\ recent \in [Slots -> Cues \cup {NULL}]
    /\ seenAt \in [Slots -> 0 .. now]
    /\ now \in 0 .. MaxTime
    /\ heard \in Cues \cup {NULL} /\ told \in BOOLEAN
    /\ sighted \in [Cues -> -1 .. now]

(* No cue is in the table twice, and the time noted for it is the time of   *)
(* its last section, whether or not that was reported.                      *)
TableExact ==
    /\ \A i, j \in Slots : recent[i] = recent[j] /\ recent[i] # NULL => i = j
    /\ \A i \in Slots : recent[i] # NULL => seenAt[i] = sighted[recent[i]]

(* A cue is reported again within the window of its last section only if as *)
(* many other cues as the table holds have been seen at least as recently:  *)
(* a section that carries up to K descriptors is reported once, however     *)
(* often it is retransmitted and in whatever order they arrive.             *)
Newer(c) == {d \in Cues \ {c} : sighted[d] >= sighted[c]}
Hearing(c) == heard' = c /\ now' = now
SeenWithinWindow(c) == sighted[c] >= 0 /\ now - sighted[c] < W
NoSpuriousReport ==
    [][\A c \in Cues : Hearing(c) /\ told' /\ SeenWithinWindow(c) =>
           Cardinality(Newer(c)) >= K]_vars

(* A cue is kept quiet only if it was in a section less than the window     *)
(* ago: every break of an encoder that reuses its event id is reported.     *)
NoLostCue ==
    [][\A c \in Cues : Hearing(c) /\ ~told' => SeenWithinWindow(c)]_vars
=============================================================================

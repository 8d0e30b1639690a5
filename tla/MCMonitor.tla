----------------------------- MODULE MCMonitor -----------------------------
(* An instance of Monitor for model checking.                              *)
EXTENDS Monitor

CONSTANTS
    a, b, c,    \* PIDs of PMTs
    v, w        \* PIDs of streams

TablePids == {a, b, c}
FramePids == {v, w}

(* Two programs at the start, one more PID; the PMT on the last is short.  *)
TwoPrograms == <<[program |-> 1, pid |-> a], [program |-> 2, pid |-> b]>>
Sizes == [x \in {a, b, c} |-> IF x = c THEN 1 ELSE 2]

(* A PMT of a video and an audio stream; and one in which private data is  *)
(* listed before the video, a subtitle by its descriptors.                 *)
Stream(pid, type, tags) == [pid |-> pid, type |-> type, tags |-> tags]
TwoLayouts ==
    {<<Stream(v, "video", <<>>), Stream(w, "audio", <<>>)>>,
     <<Stream(w, "private", <<"LANGUAGE", "SUBTITLE", "AC3">>), Stream(v, "video", <<>>)>>}

(* The descriptors that follow a time_signal: a break out, one in with all *)
(* there is in a descriptor, a program start, and three of other kinds.    *)
Segment(components, duration, upid, type) ==
    [system |-> "CUEI", cancel |-> FALSE, components |-> components,
     duration |-> duration, upid |-> upid, type |-> type]
SixDescriptors ==
    {Segment(0, FALSE, 0, 48), Segment(2, TRUE, 3, 49), Segment(1, FALSE, 3, 16),
     [system |-> "CUEI", cancel |-> TRUE], [system |-> "other"], [system |-> "avail"]}

(* The tables alone.                                                       *)
TablesSpec == AllInit /\ part = "tables" /\ [][AllNext]_allVars
=============================================================================

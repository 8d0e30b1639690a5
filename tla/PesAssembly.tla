---------------------------- MODULE PesAssembly -----------------------------
(***************************************************************************)
(* How the hub puts frames together (source/tsdecode.c): decode_pmt_table  *)
(* on the streams of the monitored program, decode_packets on the packets  *)
(* of those streams. A frame is one PES: a packet that starts it and any   *)
(* number that continue it, told apart by their PID only. It is handed to  *)
(* receive_frame when the next one starts.                                 *)
(*                                                                         *)
(* Packets are lost and repeated on the way; the continuity counter, which *)
(* wraps, is all that tells. A packet carries as much of the PES as its    *)
(* headers leave, and goes into the buffer of the frame if that much is    *)
(* free: behind one that was left out a shorter one may still go in. The   *)
(* streams are numbered by their place in the PMT, and a new PMT renumbers *)
(* them under frames half put together.                                    *)
(***************************************************************************)
EXTENDS Integers, Sequences, SequencesExt, FiniteSets

CONSTANTS
    Pids,           \* the PIDs of streams
    Layouts,        \* the PMTs: sequences of [pid, type, tags]
    CC,             \* values of the continuity counter, 16 in a stream
    offset,         \* the counter on packet 0 of every PID
    PacketSizes,    \* how much of a PES a packet carries, in some unit
    MAX_BUFFER_SIZE,\* how much a frame buffer holds, in that unit
    MaxBurst,       \* bound: packets of one PID lost on end
    MaxPackets,     \* bound: packets sent in all
    MaxPmts,        \* bound: PMTs decoded after the first
    NONE

VARIABLES
    sent,       \* source: the packets sent on each PID
    burst,      \* source: packets lost on end on each PID
    streams,    \* hub: the streams of the monitored entry
    engine,     \* hub: data_engine, by place
    pmts,       \* PMTs decoded after the first
    frame,      \* the last frame handed to receive_frame
    heard       \* history, by place: the last packet, the gaps and repeats,
                \* errors at its first packet and at the start of its frame,
                \* and whether the place changed under the frame

sourceVars == <<sent, burst>>
vars == <<sourceVars, streams, engine, pmts, frame, heard>>

MaxPlaces == CHOOSE n \in {Len(l) : l \in Layouts} : \A l \in Layouts : Len(l) <= n
Places == 1 .. MaxPlaces
Counters == 0 .. (CC - 1)

(* A packet that starts a PES may bring nothing of it: stuffing fills the  *)
(* packet, or its header does not parse. In a buffer lies packet n of a    *)
(* PID, from a place on.                                                   *)
Packet == [start : BOOLEAN, size : PacketSizes] \cup [start : {TRUE}, size : {0}]
Unit == [pid : Pids, n : Nat \ {0}, at : Nat]

-----------------------------------------------------------------------------
(* decode_pmt_table                                                        *)

(* Private data is what the first descriptor that tells says: AC-3 or a    *)
(* registration make it audio, a subtitle or enhanced AC-3 do not.         *)
Telling == {"AC3", "REGISTRATION", "SUBTITLE", "EAC3"}
IsAudio(stream) ==
    \/ stream.type = "audio"
    \/ /\ stream.type = "private"
       /\ LET tags == SelectSeq(stream.tags, LAMBDA tag : tag \in Telling) IN
          tags # <<>> /\ Head(tags) \in {"AC3", "REGISTRATION"}

(* Audio streams are numbered from 0 in the order of the PMT, others have  *)
(* audio_stream_index -1.                                                  *)
AudioIndex(list, i) ==
    IF IsAudio(list[i]) THEN Cardinality({j \in 1 .. (i - 1) : IsAudio(list[j])}) ELSE -1
StreamsOf(list) ==
    [i \in DOMAIN list |-> [pid |-> list[i].pid, type |-> list[i].type,
                            audio |-> AudioIndex(list, i)]]

-----------------------------------------------------------------------------
(* The continuity counter of packet n, and whether it is the next one. The *)
(* counter of an engine begins at 0, not at "none yet".                    *)
CounterOf(n) == (offset + n) % CC
InSequenceOrRepeated(last, n) == CounterOf(n) \in {(last + 1) % CC, last}
InSequence(last, n) == CounterOf(n) = (last + 1) % CC
NotedCounter(e, n) ==
    [e EXCEPT !.last = CounterOf(n), !.errors = IF InSequence(e.last, n) THEN @ ELSE @ + 1]

(* The frame an engine holds, as the type its place has now. What is       *)
(* neither audio nor video is not handed on.                               *)
HandedOn(i) == streams[i].type = "video" \/ streams[i].audio >= 0
FrameOf(i) ==
    [data |-> engine[i].data, size |-> engine[i].index, place |-> i,
     audio |-> streams[i].audio, errors |-> engine[i].errors, history |-> heard[i]]

(* What a packet carries is copied to where the index is.                  *)
Copied(e, x, n, size) ==
    [e EXCEPT !.data = Append(@, [pid |-> x, n |-> n, at |-> e.index]), !.index = @ + size]

(* A start empties the engine and begins with its data, if it has any.     *)
NeverEmptied(e) == e
Emptied(e) == [e EXCEPT !.data = <<>>, !.index = 0]
Begun(e, x, n, size) ==
    IF size \in 1 .. MAX_BUFFER_SIZE THEN Copied(Emptied(e), x, n, size) ELSE Emptied(e)

(* A continuation is added to a frame begun if the buffer has room for it, *)
(* and left out without a trace if not.                                    *)
AddedAnyhow(e, x, n, size) == IF e.index > 0 THEN Copied(e, x, n, size) ELSE e
Added(e, x, n, size) ==
    IF e.index > 0 /\ e.index + size <= MAX_BUFFER_SIZE THEN Copied(e, x, n, size) ELSE e

(* History of a place when packet n arrives there.                         *)
Hears(i, n, errors, start) ==
    LET h == heard[i]
        first == h.last = 0
        now == [h EXCEPT !.last = n,
                         !.irregular = IF first \/ n = h.last + 1 THEN @ ELSE @ + 1,
                         !.base = IF first THEN errors ELSE @]
    IN heard' = [heard EXCEPT ![i] =
                   IF start THEN [now EXCEPT !.atStart = errors, !.changed = FALSE] ELSE now]

(* A packet that starts a PES arrives at the first place with its PID. The *)
(* frame before is handed on before the counter is looked at.              *)
StartAt(i, x, n, size) ==
    /\ LET e == NotedCounter(engine[i], n) IN
       /\ engine' = [engine EXCEPT ![i] = Begun(e, x, n, size)]
       /\ Hears(i, n, e.errors, TRUE)
    /\ frame' = IF engine[i].index > 0 /\ HandedOn(i) THEN FrameOf(i) ELSE frame

(* Any other packet.                                                       *)
AddAt(i, x, n, size) ==
    /\ LET e == NotedCounter(engine[i], n) IN
       /\ engine' = [engine EXCEPT ![i] = Added(e, x, n, size)]
       /\ Hears(i, n, e.errors, FALSE)
    /\ UNCHANGED frame

ArrivesAt(i, x, n, packet) ==
    IF packet.start THEN StartAt(i, x, n, packet.size) ELSE AddAt(i, x, n, packet.size)

-----------------------------------------------------------------------------
(* The source sends on every PID, whether or not the hub knows of it.      *)
PlaceOf(x) == {i \in DOMAIN streams : streams[i].pid = x}
Total == FoldFunction(LAMBDA packets, n : Len(packets) + n, 0, sent)

Arrives(x, n, packet) ==
    IF PlaceOf(x) = {} THEN UNCHANGED <<engine, heard, frame>>
    ELSE \E i \in PlaceOf(x) : ArrivesAt(i, x, n, packet)

Sends(x, packet) ==
    /\ Total < MaxPackets
    /\ packet.start \/ sent[x] # <<>>
    /\ sent' = [sent EXCEPT ![x] = Append(@, packet)]
    /\ UNCHANGED <<streams, pmts>>

Received(x, packet) ==
    /\ Sends(x, packet)
    /\ burst' = [burst EXCEPT ![x] = 0]
    /\ Arrives(x, Len(sent[x]) + 1, packet)

(* What a lost packet carried nobody learns. It stands as a start that     *)
(* brings nothing, so that no frame may go on over it.                     *)
Lost(x) ==
    /\ Sends(x, [start |-> TRUE, size |-> 0])
    /\ burst[x] < MaxBurst
    /\ burst' = [burst EXCEPT ![x] = @ + 1]
    /\ UNCHANGED <<engine, heard, frame>>

(* The last packet arrives a second time.                                  *)
Repeated(x) ==
    /\ sent[x] # <<>>
    /\ \E i \in PlaceOf(x) :
        /\ heard[i].last = Len(sent[x])
        /\ heard[i].irregular < 1
        /\ ArrivesAt(i, x, Len(sent[x]), Last(sent[x]))
    /\ UNCHANGED <<sourceVars, streams, pmts>>

(* A new PMT of the monitored program: every place is described anew, and  *)
(* the engines are left as they are.                                       *)
NewPmt ==
    /\ pmts < MaxPmts
    /\ pmts' = pmts + 1
    /\ \E list \in Layouts : streams' = StreamsOf(list)
    /\ LET same(i) == /\ i \in DOMAIN streams /\ i \in DOMAIN streams'
                      /\ streams[i] = streams'[i]
       IN heard' = [i \in Places |->
                      IF same(i) THEN heard[i]
                      ELSE [heard[i] EXCEPT !.changed = TRUE, !.last = 0,
                                            !.irregular = 0, !.base = 0]]
    /\ UNCHANGED <<sourceVars, engine, frame>>

Init ==
    /\ sent = [x \in Pids |-> <<>>] /\ burst = [x \in Pids |-> 0]
    /\ \E list \in Layouts : streams = StreamsOf(list)
    /\ engine = [i \in Places |-> [data |-> <<>>, index |-> 0, last |-> 0, errors |-> 0]]
    /\ pmts = 0
    /\ frame = NONE
    /\ heard = [i \in Places |-> [last |-> 0, irregular |-> 0, base |-> 0,
                                  atStart |-> 0, changed |-> FALSE]]

Next ==
    \/ \E x \in Pids : Lost(x) \/ Repeated(x) \/ \E packet \in Packet : Received(x, packet)
    \/ NewPmt

Spec == Init /\ [][Next]_vars

-----------------------------------------------------------------------------
(* Properties                                                              *)

(* Fields have their types, no frame outgrows its buffer, and all in it    *)
(* has been sent.                                                          *)
TypeOK ==
    /\ DOMAIN streams \subseteq Places
    /\ \A x \in Pids : sent[x] \in Seq(Packet)
    /\ \A i \in Places :
         /\ engine[i].last \in Counters /\ engine[i].errors \in Nat
         /\ engine[i].index \in 0 .. MAX_BUFFER_SIZE
         /\ engine[i].index > 0 <=> engine[i].data # <<>>
         /\ \A k \in DOMAIN engine[i].data :
              LET unit == engine[i].data[k] IN unit \in Unit /\ unit.n <= Len(sent[unit.pid])
    /\ frame # NONE => frame.place \in Places /\ frame.data # <<>>

(* While a place of the PMT stays what it is, its error count grows by one *)
(* with each run of lost packets that is shorter than the counter's cycle, *)
(* and with each repeat: the losses the hub shows are those of the stream. *)
LossCounted ==
    \A i \in DOMAIN streams :
        heard[i].last > 0 => engine[i].errors = heard[i].base + heard[i].irregular

(* A frame handed on whose stream kept its place in the PMT, and in which  *)
(* no error was counted, is filled from one PES of its stream: it begins   *)
(* with the start, the packets follow in order, each behind the one before *)
(* it, and of those that arrived one is missing only where it was longer   *)
(* than what the buffer had left. No part of another frame or stream slips *)
(* in unnoticed.                                                           *)
EndOf(unit) == unit.at + sent[unit.pid][unit.n].size
NoRoomBehind(unit, missing) ==
    \A m \in missing :
        ~sent[unit.pid][m].start /\ EndOf(unit) + sent[unit.pid][m].size > MAX_BUFFER_SIZE
Filled(data, size, last) ==
    /\ data[1].at = 0 /\ size = EndOf(data[Len(data)])
    /\ \A k \in 1 .. Len(data) :
         /\ data[k].pid = data[1].pid
         /\ sent[data[k].pid][data[k].n].start = (k = 1)
    /\ \A k \in 1 .. (Len(data) - 1) :
         /\ data[k].n < data[k + 1].n /\ data[k + 1].at = EndOf(data[k])
         /\ NoRoomBehind(data[k], (data[k].n + 1) .. (data[k + 1].n - 1))
    /\ NoRoomBehind(data[Len(data)], (data[Len(data)].n + 1) .. last)
FramesGenuine ==
    frame # NONE /\ ~frame.history.changed /\ frame.errors = frame.history.atStart
        => Filled(frame.data, frame.size, frame.history.last)
=============================================================================

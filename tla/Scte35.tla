------------------------------- MODULE Scte35 -------------------------------
(***************************************************************************)
(* The SCTE-35 parser of source/tsdecode.c: scte35_decode_section,         *)
(* scte35_parse_splice_insert, scte35_parse_time_signal and                *)
(* scte35_parse_segmentation_descriptor.                                   *)
(*                                                                         *)
(* A splicer sends a section in one packet or in several; the hub reads    *)
(* the first packet only, and walks it by the flags, counts and lengths it *)
(* meets, each read checked against the end of what has arrived. A byte is *)
(* modelled by the field it belongs to: reading a field anywhere but at    *)
(* its first byte, or past what arrived, reads GARBAGE.                    *)
(*                                                                         *)
(* The splicer here follows the standard and sends pointer_field 0. The    *)
(* checksum of the section is not looked at by the code. What a cue has    *)
(* besides (pts_adjustment, auto_return, segment_num, segments_expected)   *)
(* is copied from a place near one that is modelled, and left out.         *)
(***************************************************************************)
EXTENDS Integers, Sequences, SequencesExt, FiniteSetsExt

CONSTANTS
    Segmentations,      \* the descriptors that follow a time_signal
    MaxComponents,      \* bound: components of a splice_insert
    MaxDescriptors,     \* bound: descriptors of a time_signal
    Padding,            \* bound: bytes of padding after a section
    NONE

VARIABLES
    section,    \* the fields of the section, and how many bytes they are
    arrived,    \* how many bytes the payload of the packet has
    promised,   \* what the splicer means by it: the cues, in order
    pc,         \* where the parser is, "idle" when it has returned
    at,         \* splice, p, loop and d: bytes before the cursor
    loopEnd,    \* loop_end, and d_end in a descriptor
    count,      \* components left to read, of all of them
    cue,        \* the cue being filled in
    cues        \* the cues handed to receive_frame

packet == <<section, arrived, promised>>
vars == <<packet, pc, at, loopEnd, count, cue, cues>>

GARBAGE == "garbage"
HEADER == 15                        \* pointer_field to splice_command_type
SEGMENTATION == 2                   \* SCTE35_DESCRIPTOR_SEGMENTATION

-----------------------------------------------------------------------------
(* The splicer: where each field that is read begins in the section, its   *)
(* size and what it says. The other bytes are room between the fields.     *)
At(p, size, value) == <<p, [size |-> size, value |-> value]>>
When(condition, fields) == IF condition THEN fields ELSE {}

(* Where each part of a list of parts begins, and where the last one ends. *)
Offsets(first, sizes) ==
    LET from[i \in 1 .. Len(sizes) + 1] ==
          IF i = 1 THEN first ELSE from[i - 1] + sizes[i - 1] IN from

TimeSize(timed) == IF timed THEN 5 ELSE 1
TimeAt(p, timed, name) ==
    At(p, TimeSize(timed), IF timed THEN [timed |-> TRUE, time |-> name] ELSE [timed |-> FALSE])

Inserts ==
    [cancel : {TRUE}]
    \cup {c \in [cancel : {FALSE}, out : BOOLEAN, program : BOOLEAN, immediate : BOOLEAN,
                 duration : BOOLEAN, timed : SeqOf(BOOLEAN, MaxComponents)] :
            c.program => Len(c.timed) = 1}

(* The components follow their count, each a tag and perhaps a time; the   *)
(* rest of a splice_insert follows the times.                              *)
FLAGS == HEADER + 5
ComponentsAt(c) ==
    Offsets(FLAGS + 2, [i \in DOMAIN c.timed |->
                          IF c.immediate THEN 1 ELSE 1 + TimeSize(c.timed[i])])
TimesEnd(c) ==
    IF ~c.program THEN ComponentsAt(c)[Len(c.timed) + 1]
    ELSE IF c.immediate THEN FLAGS + 1 ELSE FLAGS + 1 + TimeSize(c.timed[1])
ProgramAt(c) == TimesEnd(c) + IF c.duration THEN 5 ELSE 0
InsertEnd(c) == IF c.cancel THEN FLAGS ELSE ProgramAt(c) + 4
TimeFields(c) ==
    IF c.program
    THEN When(~c.immediate, {TimeAt(FLAGS + 1, c.timed[1], 1)})
    ELSE {At(FLAGS + 1, 1, Len(c.timed))}
         \cup When(~c.immediate, {TimeAt(ComponentsAt(c)[i] + 1, c.timed[i], i) : i \in DOMAIN c.timed})
InsertFields(c) ==
    {At(HEADER, 4, "event"), At(HEADER + 4, 1, c.cancel)} \cup When(~c.cancel,
    {At(FLAGS, 1, [out |-> c.out, program |-> c.program, duration |-> c.duration,
                   immediate |-> c.immediate])}
    \cup TimeFields(c)
    \cup When(c.duration, {At(TimesEnd(c), 5, "break")})
    \cup {At(ProgramAt(c), 2, "program")})

(* What may follow a time_signal: a segmentation that is cancelled, one    *)
(* that is not (of the whole program when it names no components), one in  *)
(* the format of another system, an avail_descriptor.                      *)
Kinds ==
    [system : {"CUEI"}, cancel : {TRUE}]
    \cup [system : {"CUEI"}, cancel : {FALSE}, components : Nat, duration : BOOLEAN,
          upid : Nat, type : Nat]
    \cup [system : {"other", "avail"}]
Signals == [timed : BOOLEAN, descriptors : SeqOf(Segmentations, MaxDescriptors)]

(* Behind the components, and behind the duration, in a descriptor.        *)
DurationAt(d) == 12 + IF d.components > 0 THEN 1 + 6 * d.components ELSE 0
UpidAt(d) == DurationAt(d) + IF d.duration THEN 5 ELSE 0
DescriptorSize(d) ==
    CASE d.system = "avail" -> 10
      [] d.system = "other" -> 6
      [] OTHER              -> IF d.cancel THEN 11 ELSE UpidAt(d) + 2 + d.upid + 3
SegmentationFields(p, d) ==
    {At(p + 6, 4, "event"), At(p + 10, 1, d.cancel)} \cup When(~d.cancel,
    {At(p + 11, 1, [program |-> d.components = 0, duration |-> d.duration])}
    \cup When(d.components > 0, {At(p + 12, 1, d.components)})
    \cup When(d.duration, {At(p + DurationAt(d), 5, "segment")})
    \cup {At(p + UpidAt(d), 1, "upid type"), At(p + UpidAt(d) + 1, 1, d.upid),
          At(p + UpidAt(d) + 2 + d.upid, 1, d.type)})
DescriptorFields(p, d) ==
    {At(p, 1, IF d.system = "avail" THEN 0 ELSE SEGMENTATION), At(p + 1, 1, DescriptorSize(d) - 2),
     At(p + 2, 4, IF d.system = "CUEI" THEN "CUEI" ELSE "other")}
    \cup When(d.system = "CUEI", SegmentationFields(p, d))
DescriptorsAt(s) ==
    Offsets(HEADER + TimeSize(s.timed) + 2,
            [i \in DOMAIN s.descriptors |-> DescriptorSize(s.descriptors[i])])
LoopFields(s) ==
    UNION {DescriptorFields(DescriptorsAt(s)[i], s.descriptors[i]) : i \in DOMAIN s.descriptors}

(* The whole section: section_length, splice_command_length (which old     *)
(* splicers leave open) and type, the command up to end, the loop of       *)
(* descriptors up to loops, the checksum.                                  *)
SectionOf(type, length, command, end, loop, loops) ==
    [fields |-> {At(2, 2, loops), At(11, 3, length), At(14, 1, type)}
                \cup command \cup {At(end, 2, loops - end - 2)} \cup loop,
     length |-> loops + 4]
InsertSection(c) ==
    SectionOf("insert", InsertEnd(c) - HEADER, InsertFields(c), InsertEnd(c), {}, InsertEnd(c) + 2)
SignalSection(s, known) ==
    LET size == TimeSize(s.timed) IN
    SectionOf("signal", IF known THEN size ELSE 4095, {TimeAt(HEADER, s.timed, 1)}, HEADER + size,
              LoopFields(s), DescriptorsAt(s)[Len(s.descriptors) + 1])

-----------------------------------------------------------------------------
(* scte35_segmentation_cue_direction                                       *)
Direction(type) ==
    IF type = 34 \/ (type \in 48 .. 71 /\ type % 2 = 0) THEN "out"
    ELSE IF type = 35 \/ type \in 48 .. 71 THEN "in" ELSE "unknown"

Base == [command |-> NONE, event |-> NONE, cancel |-> FALSE, out |-> FALSE,
         immediate |-> FALSE, time |-> NONE, duration |-> NONE, program |-> NONE,
         upid |-> NONE, type |-> -1, direction |-> "unknown", complete |-> FALSE]

(* What the splicer means: one cue for a splice_insert, which applies at   *)
(* the time of the program or of its first component; one for each         *)
(* segmentation of a time_signal.                                          *)
InsertMeans(c) ==
    LET cued == [Base EXCEPT !.command = "insert", !.event = "event", !.complete = TRUE] IN
    IF c.cancel THEN [cued EXCEPT !.cancel = TRUE]
    ELSE [cued EXCEPT
            !.out = c.out, !.immediate = c.immediate, !.program = "program",
            !.duration = IF c.duration THEN "break" ELSE NONE,
            !.time = IF c.timed # <<>> /\ ~c.immediate /\ c.timed[1] THEN 1 ELSE NONE,
            !.direction = IF c.out THEN "out" ELSE "in"]
SegmentationMeans(s, d) ==
    LET cued == [Base EXCEPT !.command = "signal", !.event = "event", !.complete = TRUE,
                             !.immediate = ~s.timed, !.time = IF s.timed THEN 1 ELSE NONE] IN
    IF d.cancel THEN [cued EXCEPT !.cancel = TRUE]
    ELSE [cued EXCEPT
            !.upid = "upid type", !.type = d.type, !.direction = Direction(d.type),
            !.out = Direction(d.type) = "out",
            !.duration = IF d.duration THEN "segment" ELSE NONE]
(* What the first n descriptors mean, and all of them.                     *)
Meant(s) ==
    LET told[n \in 0 .. Len(s.descriptors)] ==
          IF n = 0 THEN <<>>
          ELSE IF s.descriptors[n].system = "CUEI"
               THEN Append(told[n - 1], SegmentationMeans(s, s.descriptors[n]))
               ELSE told[n - 1] IN told
SignalMeans(s) == Meant(s)[Len(s.descriptors)]

-----------------------------------------------------------------------------
(* Reading: a field of so many bytes at the cursor plus k, one byte, and   *)
(* whether there are n bytes before the end.                               *)
FieldAt(p) == (CHOOSE e \in section.fields : e[1] = p)[2]
Read(k, size) ==
    IF /\ at + k + size <= Min({arrived, section.length})
       /\ \E e \in section.fields : e[1] = at + k /\ e[2].size = size
    THEN FieldAt(at + k).value ELSE GARBAGE
Flags(k) == FieldAt(at + k).value
Has(n) == at + n <= loopEnd

(* The smaller of the declared length and what is in this packet.          *)
End(declared, payload) == Min({declared + 4, payload})

(* A section of the splicer arrives.                                       *)
Arrives(type, sent, means) ==
    /\ pc = "idle" /\ section.length = 0
    /\ section' = sent
    /\ promised' = means
    /\ arrived' \in 1 .. (sent.length + Padding)
    /\ IF arrived' < HEADER THEN UNCHANGED <<pc, at, loopEnd>>
       ELSE /\ pc' = type
            /\ at' = HEADER
            /\ loopEnd' = End(FieldAt(2)'.value, arrived')
    /\ cue' = [Base EXCEPT !.command = type]
    /\ UNCHANGED <<count, cues>>

InsertArrives == \E c \in Inserts : Arrives("insert", InsertSection(c), <<InsertMeans(c)>>)
SignalArrives ==
    \E s \in Signals : \E known \in BOOLEAN :
        Arrives("signal", SignalSection(s, known), SignalMeans(s))

-----------------------------------------------------------------------------
(* scte35_parse_splice_insert: each step needs its bytes, or the cue is    *)
(* handed on as it is, not complete.                                       *)
TimeNeeds(k) == IF Has(k + 1) /\ Flags(k).timed THEN k + 5 ELSE k + 1
Needs ==
    CASE pc = "insert"     -> 5
      [] pc = "flags"      -> 1
      [] pc = "time"       -> TimeNeeds(0)
      [] pc = "components" -> 1
      [] pc = "component"  -> IF Has(1) /\ ~cue.immediate THEN TimeNeeds(1) ELSE 1
      [] pc = "break"      -> 5
      [] pc = "program"    -> 2
      [] OTHER             -> 0
InInsert == pc \in {"insert", "flags", "time", "components", "component", "break", "program"}

HandOn(filled, complete) ==
    /\ cues' = Append(cues, [filled EXCEPT
                 !.complete = complete,
                 !.direction = IF filled.cancel THEN "unknown"
                               ELSE IF filled.out THEN "out" ELSE "in"])
    /\ pc' = "idle"

Truncated ==
    /\ InInsert /\ ~Has(Needs)
    /\ HandOn(cue, FALSE)
    /\ UNCHANGED <<packet, at, loopEnd, count, cue>>

(* A step that has its bytes and goes on behind them.                      *)
Step(here, n) ==
    /\ pc = here /\ Has(Needs)
    /\ at' = at + n
    /\ UNCHANGED <<packet, loopEnd>>
GoesOn(next) == pc' = next /\ UNCHANGED cues

EventId ==
    /\ Step("insert", 5)
    /\ cue' = [cue EXCEPT !.event = Read(0, 4), !.cancel = Flags(4)]
    /\ IF Flags(4) THEN HandOn(cue', TRUE) ELSE GoesOn("flags")
    /\ UNCHANGED count

(* Where a break_duration is announced (duration_flag, in the byte behind  *)
(* the five of the event) it comes after all the times.                    *)
AfterTimes == IF FieldAt(FLAGS).value.duration THEN "break" ELSE "program"
InsertFlags ==
    LET f == Flags(0) IN
    /\ Step("flags", 1)
    /\ cue' = [cue EXCEPT !.out = f.out, !.immediate = f.immediate]
    /\ GoesOn(IF ~f.program THEN "components" ELSE IF ~f.immediate THEN "time" ELSE AfterTimes)
    /\ UNCHANGED count

SpliceTime ==
    /\ Step("time", Needs)
    /\ cue' = IF Flags(0).timed THEN [cue EXCEPT !.time = Read(0, 5).time] ELSE cue
    /\ GoesOn(AfterTimes)
    /\ UNCHANGED count

Components ==
    /\ Step("components", 1)
    /\ count' = [left |-> Flags(0), all |-> Flags(0)]
    /\ GoesOn(IF Flags(0) > 0 THEN "component" ELSE AfterTimes)
    /\ UNCHANGED cue

(* Only the first component's time is reported.                            *)
IsReportedAnyhow(c) == TRUE
IsReported(c) == c.left = c.all
Component ==
    /\ Step("component", Needs)
    /\ cue' = IF ~cue.immediate /\ Flags(1).timed /\ IsReported(count)
              THEN [cue EXCEPT !.time = Read(1, 5).time] ELSE cue
    /\ count' = [count EXCEPT !.left = @ - 1]
    /\ GoesOn(IF count.left > 1 THEN "component" ELSE AfterTimes)

BreakDuration ==
    /\ Step("break", 5)
    /\ cue' = [cue EXCEPT !.duration = Read(0, 5)]
    /\ GoesOn("program")
    /\ UNCHANGED count

ProgramId ==
    /\ Step("program", 2)
    /\ cue' = [cue EXCEPT !.program = Read(0, 2)]
    /\ HandOn(cue', TRUE)
    /\ UNCHANGED count

SpliceInsert ==
    \/ Truncated \/ EventId \/ InsertFlags \/ SpliceTime
    \/ Components \/ Component \/ BreakDuration \/ ProgramId

-----------------------------------------------------------------------------
(* scte35_parse_time_signal: its time, then the length of the descriptors, *)
(* which are read up to what the packet holds of them.                     *)
Returns == pc' = "idle" /\ UNCHANGED <<packet, at, loopEnd, count, cue, cues>>

SignalTime ==
    LET n == TimeNeeds(0)
        length == FieldAt(11).value
        behind == IF length # 4095 /\ at + length <= loopEnd THEN length ELSE n IN
    /\ pc = "signal"
    /\ IF ~Has(n) \/ at + behind + 2 > loopEnd THEN Returns
       ELSE /\ cue' = [cue EXCEPT !.time = IF Flags(0).timed THEN Read(0, 5).time ELSE NONE,
                                  !.immediate = ~Flags(0).timed]
            /\ at' = at + behind + 2
            /\ loopEnd' = Min({loopEnd, at + behind + 2 + FieldAt(at + behind).value})
            /\ pc' = "descriptors"
            /\ UNCHANGED <<packet, count, cues>>

(* What the descriptor's own parser reads: its checks against the length   *)
(* of the descriptor never bite with a splicer that sends what it counts.  *)
Segmentation(body) ==
    LET read(k, size) == Read(body + k, size)
        one(k) == Flags(body + k)
        flags == one(9)
        components == IF flags.program THEN 0 ELSE 1 + 6 * one(10)
        behind == 10 + components + IF flags.duration THEN 5 ELSE 0
        type == behind + 2 + one(behind + 1)
        begun == [cue EXCEPT !.event = read(4, 4), !.cancel = one(8), !.complete = TRUE] IN
    IF one(8) THEN begun
    ELSE [begun EXCEPT
            !.duration = IF flags.duration THEN read(10 + components, 5) ELSE NONE,
            !.upid = read(behind, 1), !.type = read(type, 1),
            !.direction = Direction(read(type, 1)),
            !.out = Direction(read(type, 1)) = "out"]

(* One descriptor: passed over, or a segmentation that is handed on. One   *)
(* that runs past the loop ends it.                                        *)
Inside(length) == Has(2 + length)
Descriptor ==
    /\ pc = "descriptors"
    /\ IF ~Has(2) \/ ~Inside(Flags(1)) THEN Returns
       ELSE /\ at' = at + 2 + Flags(1)
            /\ cues' = IF Flags(0) = SEGMENTATION /\ Read(2, 4) = "CUEI"
                       THEN Append(cues, Segmentation(2)) ELSE cues
            /\ UNCHANGED <<packet, pc, loopEnd, count, cue>>

TimeSignal == SignalTime \/ Descriptor

-----------------------------------------------------------------------------
Init ==
    /\ section = [fields |-> {}, length |-> 0] /\ arrived = 0 /\ promised = <<>>
    /\ pc = "idle" /\ at = 0 /\ loopEnd = 0
    /\ count = [left |-> 0, all |-> 0]
    /\ cue = Base /\ cues = <<>>

Next == InsertArrives \/ SignalArrives \/ SpliceInsert \/ TimeSignal

Spec == Init /\ [][Next]_vars

-----------------------------------------------------------------------------
(* Properties                                                              *)

(* The cursor stays in what has arrived of the section.                    *)
TypeOK ==
    /\ pc # "idle" => /\ at \in HEADER .. loopEnd
                      /\ loopEnd <= Min({arrived, section.length})
    /\ count.left \in 0 .. count.all

(* The cues handed on as complete, which are the ones the hub reports, are *)
(* the first ones the splicer means, in its order and each in every field, *)
(* wherever the packet ends. All of them, if it holds the whole section.   *)
CueAsSent ==
    /\ \A i \in DOMAIN cues :
          IF cues[i].complete THEN i \in DOMAIN promised /\ cues[i] = promised[i]
          ELSE i = Len(cues)
    /\ pc = "idle" /\ section.length > 0 /\ arrived >= section.length => cues = promised
=============================================================================

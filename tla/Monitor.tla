------------------------------ MODULE Monitor ------------------------------
(***************************************************************************)
(* What the hub makes of its input: the tables of TsTables, the frames of  *)
(* PesAssembly, the cues of Scte35, the input of SignalWatch and the       *)
(* events of EventReports. The first three are one pass over each packet,  *)
(* by PIDs that have nothing to do with each other; the others share       *)
(* nothing with them but what they hand on. As in MCReports each behaviour *)
(* runs one part and leaves the others alone.                              *)
(***************************************************************************)
EXTENDS SignalWatch, Sequences

CONSTANTS
    Programs, PmtPids, Size, V, MAX_PMT_PIDS, FirstList, selected, MaxChanges,
                                                                        \* TsTables
    StreamPids, Layouts, CC, offset, PacketSizes, MAX_BUFFER_SIZE, MaxBurst, MaxPackets, MaxPmts,
                                                                        \* PesAssembly
    Segmentations, MaxComponents, MaxDescriptors, Padding,              \* Scte35
    MaxEvents                                                           \* EventReports

VARIABLES
    part,                                                               \* the part that runs
    pat, pmt, due, changes, patSeen, listed, noted, decoded, buffer,    \* TsTables
    expected, entries, alone, beat,
    sent, burst, streams, engine, pmts, frame, heard,                   \* PesAssembly
    section, arrived, promised, pc, at, loopEnd, count, cue, cues,      \* Scte35
    up, queue, thread, posted, runs, posts, log, copies, said, late     \* EventReports

Tables == INSTANCE TsTables WITH Pids <- PmtPids
Frames == INSTANCE PesAssembly WITH Pids <- StreamPids
Splices == INSTANCE Scte35
Events == INSTANCE EventReports

ASSUME TablesAssumption ==
    /\ NONE \notin Programs /\ selected \in Programs \cup {NONE}
    /\ IsFiniteSet(PmtPids) /\ Size \in [PmtPids -> Nat \ {0}]
    /\ FirstList \in Tables!Listing
    /\ V \in Nat \ {0} /\ MAX_PMT_PIDS \in Nat \ {0} /\ MaxChanges \in Nat
ASSUME FramesAssumption ==
    /\ CC \in Nat /\ CC > 1 /\ offset \in Nat
    /\ PacketSizes \subseteq Nat \ {0} /\ MAX_BUFFER_SIZE \in Nat
    /\ MaxBurst \in 0 .. (CC - 1) /\ MaxPackets \in Nat /\ MaxPmts \in Nat
(* In a PMT each stream has a PID of its own, and one PMT is the longest.  *)
ASSUME LayoutsAssumption ==
    /\ Layouts \subseteq Seq([pid : StreamPids, type : STRING, tags : Seq(STRING)])
    /\ \A list \in Layouts : \A i, j \in DOMAIN list : list[i].pid = list[j].pid => i = j
    /\ \E longest \in Layouts : \A list \in Layouts : Len(list) <= Len(longest)
ASSUME SplicesAssumption ==
    {MaxComponents, MaxDescriptors, Padding} \subseteq Nat /\ Segmentations \subseteq Splices!Kinds
ASSUME EventsAssumption ==
    MaxEvents \in Nat /\ NONE \notin [words : Events!Words, n : Nat]

tableVars == <<pat, pmt, due, changes, patSeen, listed, noted, decoded, buffer,
               expected, entries, alone, beat>>
frameVars == <<sent, burst, streams, engine, pmts, frame, heard>>
spliceVars == <<section, arrived, promised, pc, at, loopEnd, count, cue, cues>>
eventVars == <<up, queue, thread, posted, runs, posts, log, copies, said, late>>
allVars == <<part, tableVars, frameVars, spliceVars, vars, eventVars>>

(* The parts that do not run have one initial state.                       *)
Unlisted(x) == \A i \in DOMAIN FirstList : FirstList[i].pid # x
Someone == CHOOSE program \in Programs : TRUE
AllInit ==
    /\ part \in {"tables", "frames", "splices", "watch", "events"}
    /\ Tables!Init /\ Frames!Init /\ Splices!Init /\ Init /\ Events!Init
    /\ part # "tables" => \A x \in PmtPids : Unlisted(x) => pmt[x].program = Someone
    /\ part # "frames" => streams = Frames!StreamsOf(CHOOSE list \in Layouts : TRUE)
    /\ part # "events" => runs

TableSteps ==
    part = "tables" /\ Tables!Next /\ UNCHANGED <<part, frameVars, spliceVars, vars, eventVars>>
FrameSteps ==
    part = "frames" /\ Frames!Next /\ UNCHANGED <<part, tableVars, spliceVars, vars, eventVars>>
SpliceSteps ==
    part = "splices" /\ Splices!Next /\ UNCHANGED <<part, tableVars, frameVars, vars, eventVars>>
WatchSteps ==
    part = "watch" /\ Next /\ UNCHANGED <<part, tableVars, frameVars, spliceVars, eventVars>>
EventSteps ==
    part = "events" /\ Events!Next /\ UNCHANGED <<part, tableVars, frameVars, spliceVars, vars>>

AllNext == TableSteps \/ FrameSteps \/ SpliceSteps \/ WatchSteps \/ EventSteps

(* The fairness of the parts that have some.                               *)
AllSpec ==
    /\ AllInit /\ [][AllNext]_allVars
    /\ WF_allVars(WatchSteps /\ Receives)
    /\ WF_allVars(EventSteps /\ Events!Thread)
    /\ WF_allVars(EventSteps /\ \E e \in posts : Events!Arrive(e))

-----------------------------------------------------------------------------
(* Properties: InputWatched of SignalWatch, and these.                     *)

(* The fields of all parts have their types.                               *)
MonitorTypeOK ==
    TypeOK /\ Tables!TypeOK /\ Frames!TypeOK /\ Splices!TypeOK /\ Events!TypeOK

(* Every table is one section, whole, sent on the PID it is kept for.      *)
TablesExact == Tables!TablesExact

(* Once the multiplexer rests the tables become its tables.                *)
TablesBecomeCurrent == Tables!TablesBecomeCurrent

(* The hub monitors the program it was told to, or none (README.md:185).   *)
ChosenProgramOrNothing == Tables!ChosenProgramOrNothing

(* The errors counted on a stream are its losses and repeats.              *)
LossCounted == Frames!LossCounted

(* A frame with no error is filled from one PES of its stream.             *)
FramesGenuine == Frames!FramesGenuine

(* A cue reported is the one the splicer sent, wherever the packet ends.   *)
CueAsSent == Splices!CueAsSent

(* The log is what the hub sent, once and in order.                        *)
LogFaithful == Events!LogFaithful

(* An input that stays silent is reported lost again and again, and what   *)
(* is reported reaches the log.                                            *)
LossReported == SilenceReported /\ Events!EventsLogged
=============================================================================

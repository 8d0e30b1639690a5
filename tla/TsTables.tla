------------------------------ MODULE TsTables ------------------------------
(***************************************************************************)
(* The tables of a transport stream in source/tsdecode.c, and the program  *)
(* the hub monitors: decode_packets on the PAT and on the PMTs,            *)
(* decode_pmt_table, find_monitored_index, get_pid_summary.                *)
(*                                                                         *)
(* A multiplexer lists its programs in the PAT, each with the PID of its   *)
(* PMT, and sends a PMT as one or more packets. All of this is touched by  *)
(* one thread of the hub, packet by packet; what makes it hard is that     *)
(* packets are lost, that the PMTs of several programs interleave while    *)
(* the hub has a single buffer to put one together in, and that the        *)
(* multiplexer changes its tables at any time, told only by their version. *)
(***************************************************************************)
EXTENDS Integers, Sequences, SequencesExt, FiniteSets

CONSTANTS
    Programs,       \* the program numbers the multiplexer uses
    Pids,           \* the PIDs it sends PMTs on
    Size,           \* the packets the PMT on each PID needs
    V,              \* versions before the number wraps, 32 in a stream
    MAX_PMT_PIDS,   \* the size of master_pmt_table
    FirstList,      \* the list of the PAT at the start
    selected,       \* selected_program, NONE for the first one decoded
    MaxChanges,     \* bound: the changes the multiplexer makes
    NONE

VARIABLES
    pat,        \* multiplexer: stream id, version and list of the PAT it sends
    pmt,        \* multiplexer: the section it sends on each PID
    due,        \* multiplexer: the packets of the section begun on each PID
    changes,    \* multiplexer: changes made
    patSeen,    \* pat_transport_stream_id and pat_version_number
    listed,     \* pmt_pid_index and pat_program_number, pmt_pid_count long
    noted,      \* pmt_version, by place in the list
    decoded,    \* pmt_decoded, by place in the list
    buffer,     \* pmt_data, the pmt_table_acquired bytes of it
    expected,   \* pmt_table_expected, in packets
    entries,    \* master_pmt_table, pmt_table_entries long
    alone,      \* history: the PID whose packets the hub has seen on end
    beat        \* history: turns with each packet the hub receives, so that
                \* one that changes nothing is a step too

muxVars == <<pat, pmt, due, changes>>
hubVars == <<patSeen, listed, noted, decoded, buffer, expected, entries>>
vars == <<muxVars, hubVars, alone, beat>>

Versions == 0 .. (V - 1)
Places == 1 .. Cardinality(Pids)

Section == [pid : Pids, program : Programs, version : Versions, edition : 0 .. MaxChanges]

(* A PAT gives each program a PID of its own.                              *)
Item == [program : Programs, pid : Pids]
Unmixed(list) == \A i, j \in DOMAIN list :
    i # j => list[i].program # list[j].program /\ list[i].pid # list[j].pid
Listing == {list \in SeqOf(Item, Cardinality(Pids)) : Unmixed(list)}

-----------------------------------------------------------------------------
(* The multiplexer                                                         *)

Parts(s) == [k \in 1 .. Size[s.pid] |-> [section |-> s, part |-> k]]

(* What is on each PID agrees with the list.                               *)
Agrees(sent, list) == \A i \in DOMAIN list : sent[list[i].pid].program = list[i].program

(* A new edition of one PMT, with the next version.                        *)
Renew(x) ==
    /\ changes < MaxChanges
    /\ changes' = changes + 1
    /\ pmt' = [pmt EXCEPT ![x].version = (@ + 1) % V, ![x].edition = changes + 1]
    /\ UNCHANGED <<pat, due, hubVars, alone, beat>>

(* A new PAT, of the next version or of another stream id: programs come   *)
(* and go, move to other PIDs, change places. The PMT of a program on a    *)
(* new PID is a new section, of the version after the one the PID had.     *)
NewPats(list) ==
    {[pat EXCEPT !.list = list, !.version = (@ + 1) % V],
     [pat EXCEPT !.list = list, !.ts = changes + 1]}
Relist ==
    /\ changes < MaxChanges
    /\ changes' = changes + 1
    /\ \E list \in Listing \ {pat.list} :
        LET moved == {i \in DOMAIN list : pmt[list[i].pid].program # list[i].program} IN
        /\ pat' \in NewPats(list)
        /\ pmt' = [x \in Pids |->
             IF \E i \in moved : list[i].pid = x
             THEN [pid |-> x, program |-> list[CHOOSE i \in moved : list[i].pid = x].program,
                   version |-> (pmt[x].version + 1) % V, edition |-> changes + 1]
             ELSE pmt[x]]
    /\ UNCHANGED <<due, hubVars, alone, beat>>

MuxChanges == Relist \/ \E x \in Pids : Renew(x)

(* The next packet on a PID: the rest of a section begun, or a new one.    *)
(* Data arrives only for a PID in the list the multiplexer sends.          *)
Sent(x) == IF due[x] # <<>> THEN due[x] ELSE Parts(pmt[x])
Live(x) == due[x] # <<>> \/ \E i \in DOMAIN pat.list : pat.list[i].pid = x
Goes(x) ==
    /\ Live(x)
    /\ due' = [due EXCEPT ![x] = Tail(Sent(x))]
    /\ UNCHANGED <<pat, pmt, changes>>

(* The packet is lost on the way to the hub.                               *)
Lost(x) ==
    /\ Goes(x)
    /\ alone' = NONE
    /\ UNCHANGED <<hubVars, beat>>

-----------------------------------------------------------------------------
(* The hub                                                                 *)

(* The place of PID x in its list; a PAT has it at most once.              *)
PlacesOf(x) == {i \in DOMAIN listed : listed[i].pid = x}

(* The checksum at the end of the section agrees with what came before it. *)
CrcAgreesAnyhow(data) == TRUE
CrcAgrees(data) == data = Parts(data[1].section)

(* decode_pmt_table: the entry of the PID, or a new one while there is     *)
(* room. No entry is ever removed.                                         *)
EntryOf(x) == {i \in DOMAIN entries : entries[i].pid = x}
Decoded(x, data) ==
    IF EntryOf(x) # {}
    THEN [i \in DOMAIN entries |-> IF i \in EntryOf(x) THEN [pid |-> x, data |-> data]
                                                       ELSE entries[i]]
    ELSE IF Len(entries) < MAX_PMT_PIDS
    THEN Append(entries, [pid |-> x, data |-> data])
    ELSE entries

(* A version the hub has not noted, or a table it has not decoded since    *)
(* the last PAT.                                                           *)
Wanted(i, v) == v # noted[i] \/ ~decoded[i]

(* All of a section is in the buffer: check it and take it in.             *)
Completed(i, x, data) ==
    /\ buffer' = <<>> /\ expected' = 0
    /\ IF CrcAgrees(data)
       THEN /\ noted' = [noted EXCEPT ![i] = data[1].section.version]
            /\ decoded' = [decoded EXCEPT ![i] = TRUE]
            /\ entries' = IF Wanted(i, data[1].section.version)
                          THEN Decoded(x, data) ELSE entries
       ELSE UNCHANGED <<noted, decoded, entries>>

(* The first packet of a section that is wanted takes the one buffer,      *)
(* whatever was being put together in it.                                  *)
BeginIn(i, x, packet) ==
    IF Size[x] = 1
    THEN Completed(i, x, <<packet>>)
    ELSE /\ buffer' = <<packet>>
         /\ expected' = Size[x]
         /\ UNCHANGED <<noted, decoded, entries>>

(* Any other packet is added to the buffer, if one is begun, with no look  *)
(* at which PID began it.                                                  *)
AddIn(i, x, packet) ==
    /\ expected > 0
    /\ IF Len(buffer) + 1 >= expected
       THEN Completed(i, x, Append(buffer, packet))
       ELSE /\ buffer' = Append(buffer, packet)
            /\ UNCHANGED <<expected, noted, decoded, entries>>

Ignores(x, packet) ==
    \/ PlacesOf(x) = {}
    \/ /\ packet.part = 1
       /\ \A i \in PlacesOf(x) : ~Wanted(i, packet.section.version)
    \/ packet.part > 1 /\ expected = 0

(* A packet of a PMT arrives.                                              *)
PmtArrives(x) ==
    LET packet == Head(Sent(x)) IN
    /\ Goes(x)
    /\ alone' = IF packet.part = 1 THEN x ELSE IF alone = x THEN x ELSE NONE
    /\ beat' = ~beat
    /\ UNCHANGED <<patSeen, listed>>
    /\ \/ /\ Ignores(x, packet)
          /\ UNCHANGED hubVars
       \/ \E i \in PlacesOf(x) :
            /\ packet.part = 1
            /\ Wanted(i, packet.section.version)
            /\ BeginIn(i, x, packet)
       \/ \E i \in PlacesOf(x) : packet.part > 1 /\ AddIn(i, x, packet)

(* The PAT arrives, in one packet. A new version empties the list and the  *)
(* marks of what is decoded; the versions noted by place, the entries and  *)
(* a section half put together stay.                                       *)
SameVersion == pat.version = patSeen[2]
SamePat == <<pat.ts, pat.version>> = patSeen
PatArrives ==
    /\ IF SamePat THEN UNCHANGED <<patSeen, listed, decoded>>
       ELSE /\ patSeen' = <<pat.ts, pat.version>>
            /\ listed' = pat.list
            /\ decoded' = [i \in Places |-> FALSE]
    /\ beat' = ~beat
    /\ UNCHANGED <<muxVars, noted, buffer, expected, entries, alone>>

-----------------------------------------------------------------------------
(* What the hub monitors: the place of its entry, 0 when there is none.    *)
ProgramOf(i) == entries[i].data[1].section.program
MonitoredEntry ==
    IF selected = NONE THEN 1
    ELSE IF \E i \in DOMAIN entries : ProgramOf(i) = selected
    THEN CHOOSE i \in DOMAIN entries :
           /\ ProgramOf(i) = selected
           /\ \A j \in 1 .. (i - 1) : ProgramOf(j) # selected
    ELSE 0

(* get_pid_summary: whether there are streams to show, of that entry.      *)
ProgramFound == listed # <<>> /\ MonitoredEntry \in DOMAIN entries

-----------------------------------------------------------------------------
Init ==
    /\ pat = [ts |-> 0, version |-> 0, list |-> FirstList]
    /\ pmt \in [Pids -> {s \in Section : s.version = 0 /\ s.edition = 0}]
    /\ \A x \in Pids : pmt[x].pid = x
    /\ Agrees(pmt, pat.list)
    /\ due = [x \in Pids |-> <<>>]
    /\ changes = 0
    /\ patSeen = <<0, -1>>
    /\ listed = <<>>
    /\ noted = [i \in Places |-> 0]
    /\ decoded = [i \in Places |-> FALSE]
    /\ buffer = <<>> /\ expected = 0
    /\ entries = <<>>
    /\ alone = NONE /\ beat = FALSE

Next ==
    \/ MuxChanges
    \/ PatArrives
    \/ \E x \in Pids : PmtArrives(x) \/ Lost(x)

Spec == Init /\ [][Next]_vars

-----------------------------------------------------------------------------
(* Properties                                                              *)

(* Fields and histories have their types; an assembly is shorter than what *)
(* it waits for.                                                           *)
TypeOK ==
    /\ listed \in Seq(Item) /\ Unmixed(listed)
    /\ patSeen \in (0 .. MaxChanges) \X ({-1} \cup Versions)
    /\ noted \in [Places -> Versions] /\ decoded \in [Places -> BOOLEAN]
    /\ expected \in {0} \cup {Size[x] : x \in Pids} /\ Len(buffer) <= expected
    /\ buffer = <<>> <=> expected = 0
    /\ Len(entries) <= MAX_PMT_PIDS

(* Every table of the hub is one section, whole, that was sent on the PID  *)
(* it is kept for, and no PID has two: no mix of packets of two PIDs or of *)
(* two editions, however they are lost and interleaved, becomes a table.   *)
(* And a table marked as decoded is of the version noted for it, unless it *)
(* found the hub's tables full.                                            *)
TablesExact ==
    /\ \A i \in DOMAIN entries :
         /\ \E s \in Section : s.pid = entries[i].pid /\ entries[i].data = Parts(s)
         /\ \A j \in DOMAIN entries : entries[i].pid = entries[j].pid => i = j
    /\ \A i \in DOMAIN listed : decoded[i] =>
         \/ \E j \in EntryOf(listed[i].pid) : entries[j].data[1].section.version = noted[i]
         \/ EntryOf(listed[i].pid) = {} /\ Len(entries) = MAX_PMT_PIDS

(* Once the multiplexer rests, and if the hub again and again receives the *)
(* PAT and, on each listed PID, a section with no packet of another PMT in *)
(* between and none lost, the tables of all programs become those of the   *)
(* multiplexer, for as many PIDs as the hub has room for. This is what     *)
(* starting over at each PAT is for: a place in the list may belong to     *)
(* another PID than when its version was noted.                            *)
Received(x) == PmtArrives(x) /\ due'[x] = <<>> /\ alone' = x
Current ==
    /\ listed = pat.list
    /\ \A i \in DOMAIN listed : LET x == listed[i].pid IN
         \/ \E j \in EntryOf(x) : entries[j].data = Parts(pmt[x])
         \/ EntryOf(x) = {} /\ Len(entries) = MAX_PMT_PIDS
TablesBecomeCurrent ==
    (/\ <>[][~MuxChanges]_vars
     /\ []<><<PatArrives>>_vars
     /\ \A x \in Pids : []<><<Received(x) \/ ~Live(x)>>_vars)
    => <>[]Current

(* "If the stream stops carrying the chosen program, srthub monitors       *)
(* nothing rather than switching to another one, and the card says the     *)
(* program was not found" (README.md:185).                                 *)
ChosenProgramOrNothing ==
    selected # NONE /\ ProgramFound => \E i \in DOMAIN listed : listed[i].program = selected
=============================================================================

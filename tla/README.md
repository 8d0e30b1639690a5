# A TLA+ development of opensrthub

opensrthub receives a live MPEG transport stream over UDP multicast or SRT and sends it on over SRT or UDP. One process
per service (`source/srthub.c`) runs one of three pipelines; a Node.js application (`webapp/server.js`) creates the
services, starts each in a container, and shows what they report. This directory holds specifications of the parts whose
correctness depends on the order in which threads and events interleave, TLC configurations for small instances of them,
and TLAPS proofs of every invariant and step property the passing configurations check: of the pools and queues everything
else rests on, of the three pipelines that use them, of what is reported, and of what the hub makes of its input.

## Reading order

| Module | Models | Uses |
|---|---|---|
| `Pool` | what a buffer pool promises | |
| `MemPool`, `MemPoolProofs` | `source/mempool.c` | implements `Pool` |
| `Deque` | what a message queue promises | |
| `DataQueue`, `DataQueueProofs` | `source/dataqueue.c`, and the loop of a consumer with its stop and restart | implements `Deque` |
| `SlotTable` | what the pull server promises its clients | |
| `PullServer`, `MCPullServer`, `PullServerProofs` | UDP in, SRT out, the hub being pulled from | implements `SlotTable` |
| `PushServer`, `PushServerProofs` | UDP in, SRT out, the hub pushing to a peer | |
| `SrtToUdp`, `SrtToUdpProofs` | SRT in (listener or caller), UDP out, thumbnails, audio, restart of all | |
| `ListenRetry` | the wait of an SRT listener for its port | |
| `CueDedup` | which SCTE-35 cues are reported | |
| `FormatChange` | which changes of the picture format are reported, and with what context | |
| `MCReports`, `ReportsProofs` | runs one of the last three, chosen in its initial state | `CueDedup`, `FormatChange`, `ListenRetry` |
| `TsTables` | the PAT and PMTs of `source/tsdecode.c`, put together from packets, and the program that is monitored | |
| `PesAssembly` | the streams of that program: continuity counters, frames put together from packets | |
| `Scte35`, `SpliceProofs` | the parser of SCTE-35 sections | |
| `SignalWatch` | the watch of a UDP input, with the table of sockets of `source/udpsource.c` | |
| `EventReports` | the way of an event to the event log: `source/esignal.c` and the end of it in `webapp/server.js` | |
| `Monitor`, `MonitorProofs` | runs one of the last five, chosen in its initial state | all five |
| `MCMonitor` | the instance of `Monitor` that TLC checks | `Monitor` |

## The system

### Components, their state and operations

**Buffer pools** (`mempool.c`). A table of records, each with a free flag and an address, and the position of the next
search. `memory_take` searches round-robin from that position, `memory_return` frees, all under one mutex. The hub has a
pool of messages, one of packets, one of audio frames, one of video frames. Correct if a buffer is never lost, never given
to two callers, and never refused while one is free.

**Message queues** (`dataqueue.c`). A doubly linked list with a count, a mutex and a condition variable. Puts at either
end, takes from either end, and a take that waits until there is a message or a caller's flag is cleared. Correct if it
is a double-ended queue, no wake-up is lost, and a stop is noticed.

**SRT receivers** (`srthub.c` 593-1342). The listener waits for its port, listens, accepts one source and reads; the
caller connects and reads. Each packet is queued for the UDP output and demultiplexed; whole frames reach
`receive_frame`, which queues them for the thumbnail and audio threads. On an error they send a restart message to the
main loop and end. Correct if no buffer is lost on any path and main can join them.

**Pull server** (1349-1587). The accept loop gives each client a queue in a table of slots and a detached worker that
empties it. Correct if a slot has one owner, a client is sent each packet once and in order, and a stop reaches every
worker.

**Push server** (1589-1865). Connects out, sends from one queue; without a connection it connects again on the same
socket, and when that fails it takes its queue out of the receiver's reach, empties it and starts over; a connection that is
lost ends it after a restart message. Correct if no way out of a send loses a buffer, no queue is left behind, and what is
sent after starting over is new.

**UDP receiver** (1867-2089) over **UDP sources** (`udpsource.c`). Reads datagrams, copies them into every slot's queue,
demultiplexes them; counts seconds without a datagram, after five of which it reports the loss and opens its socket anew.
The sockets are in a table of 32 slots. Correct if no way an opening can fail leaks a descriptor or a slot, a loss is
reported exactly when there is one and again while it lasts, and no streams are shown of an input that is gone.

**UDP server** (2182-2386). Sends the queue to the output, reports a dry one, drains it when it ends.

**Thumbnail thread** (2857-3445). Decodes frames, writes pictures, follows four properties of the picture through
`format_change_update` (2707-2757). Correct if it reports lasting changes, and no glitches, with what the picture was and is.

**Audio threads** (2388-2590). Decode and measure loudness; they do not drain their queue when they end.

**SCTE-35** (`tsdecode.c` 380-796, and 261-371 of `srthub.c` in `receive_frame`). The parser reads a section from the one
packet that starts it and hands on its cues; a table of the cues of the last seconds has a repeated cue reported once.
Correct if a cue that is reported is the one that was sent, field for field, wherever the packet ends.

**Main** (3745-4068). Starts the threads of the configured pipeline, waits for a restart message, clears the flags and
joins the threads one after another, and starts them again.

**Event signalling** (`esignal.c`). A thread takes events from a queue, words them and posts each over HTTP, once, without a
retry; it waits five seconds at most. Correct if the log has each event at most once, in order unless one was given up, with
the words of its kind, and what is queued arrives while both ends run.

**Transport stream monitor** (`tsdecode.c`). A list of programs from the PAT with what is known of each by its place in the
list, a table of PMTs by PID, one buffer to put a PMT together in, and for each stream of the monitored program a counter
and a buffer for one frame; a summary of streams read by another thread. Correct if only whole sections become tables,
the tables follow the stream, the errors counted are those of the stream, and a frame without one is genuine.

**Web application** (`server.js`). Keeps one configuration file per service, a lock file while it stops, containers while
it runs; receives status and events; reads rotated logs by day and follows the live one.

### How they interact

All threads of a process share the pools, and most share queues; a message travels from the thread that receives to the
thread that sends and its two buffers (message and payload) are returned by the latter. A stop flag per thread is a plain
int; the waiting take polls it. Restart messages go to main through a queue of their own but come from the same pool of
messages as everything else. The process talks to the web application through status files and HTTP posts.

### What is hard here

Threads outliving a restart (the workers are detached); joins of a thread that may sit in a call no flag reaches; a table
read under a lock and written under a second lock acquisition; pools shared by pipelines with unbounded queues; a pool
destroyed while its buffers may be lent; a stop that races a wait; retries that go on for days; state remembered with a
value and not refreshed; packets that are lost and interleave in one buffer; tables that change while they are being read
from the stream; counters that wrap; sections cut short at any byte; openings that fail at any call. `PROJECT.json` lists each at its line under "hazards".

## The models

**Granularity.** A step is one critical section, one queue or pool operation, or one read or write of a flag. Pools and
queues are modelled in full once (`MemPool`, `DataQueue`); the pipelines use what those modules implement: a pool is the
number of its free buffers, a queue is a sequence with its newest element first. `PoolSpec` and `DequeSpec`
justify that use.

**MemPool.** `TakeBlock`, `TakeHeap`, `TakeNoHeap`, `TakeNone` are the four ways through `memory_take`; `ReturnKnown` is
`memory_return` of a pointer that was taken. `srthub.c` never returns one twice, which `BuffersConserved` in the three
pipeline modules (in `PushServer` a part of `Inv`) shows. The heap kind of pool (size 0) is in the file and not used by the hub; it is modelled because its
lookup by address meets address reuse.

**DataQueue.** The list is kept as in C (`head`, `tail`, `next`, `prev`, `count`) so that a missing assignment shows.
`Call`, `Sleep`, `Timeout`, `Receive`, `GiveUp` are the steps of the waiting take around its condition variable; a put
that signals is seen in the consumer's pc. The count is bounded by the number of nodes, a finite supply that is given back.
The history variable `did` names the last operation and what it returned, so that `Deque` tells the two ends apart.

**PullServer.** `spc`, `rpc`, `wpc`, `mpc` are the places of the four kinds of thread. Every client connects at most once;
a client that returns is another client. `others` counts messages that decoded frames tie up: the audio and thumbnail
threads are represented by that count, and their joins are part of `Restart`. Worker flags start with any value, as the
core structure is not initialised.

**PushServer.** One queue, made by `CreateQueue` and ended by `Detach` and `Drain` or by `ServerExits`. The socket does not
block, so `Connect` succeeds when the connection has only begun, and every send may find there is none. The flag of the
server is cleared by main only on a restart message, and in this pipeline only the server sends one: `CheckFlag` and `Take`
have the branches of a flag that is down, and no run takes them. `last` and `since` are history: the newest packet sent, and
the newest one that was received before the queue was made. Of the invariant, `StopFollowsRequest` and `InOrder` are there to
make the rest inductive.

**SrtToUdp.** One receiver, the UDP output, the thumbnail and one of the eight equal audio threads. `caller`, chosen by
`Init` and never changed, tells which of the two receivers runs. A video frame is named by the pool it came from, which
makes a frame that outlives its pool visible.

**ListenRetry, CueDedup, FormatChange** are single-threaded and model one function each, with the environment (the port,
the cues, the pictures) free to do anything. They share no state, so `MCReports` lets its initial state choose which one
`part` of it moves: their state spaces add up and do not multiply. `Monitor` does the same with the five modules below, for
constants of any value; `MCMonitor` gives TLC its small ones.

**TsTables.** The multiplexer is part of the model: it lists programs in a PAT, sends a PMT in one packet or more, and at any
time makes a new edition of a PMT or of the PAT, with the next version (modulo `V`) or another stream id. Packets of
different PIDs interleave, and any may be lost. `PmtArrives` is `decode_packets` on a packet of a PMT, with `Completed`
for the check of the checksum and `Decoded` for `decode_pmt_table`; `PatArrives` is the branch of PID 0. A section is a
sequence of parts that carry what they are a part of; the checksum agrees when the parts in the buffer are those of one
section in order. A table is kept as the parts it was made from.

**PesAssembly.** A source sends packets on several PIDs, some of which start a frame; packets are lost in bursts shorter than
the cycle of the counter, and the last one, a start or not, may arrive twice. `StartAt` and `AddAt` are `decode_packets` on the
packets of a stream; the counter a stream begins with is a constant (`offset`), that of a new engine is 0, as in the code;
`NewPmt` is the rewriting of the list of streams under the frames that are being put together. `IsAudio` is
the walk through the descriptors of private data, in which the first one that tells decides.

A packet has the size of what it carries of the PES (184 bytes less its adaptation field, and less the header of the PES in a
start); `index` is `data_index`, and each packet is compared with what the buffer has left (`Added`, tsdecode.c:2219-2228). So a
full packet may be left out and a shorter one behind it, such as the stuffed last packet of the PES, still go in: the frame is
handed on with a hole, and no error is counted. `sent` keeps what the source sent and `data` which packet lies where, so that
`FramesGenuine` says how far a frame without error can be trusted: it begins with the start of a PES, its packets are of that
PES, in order, each directly behind the one before, and the ones that are missing arrived and were each longer than what the
buffer had left at that place. What a lost packet carried is not recorded: it stands in `sent` as a start that brings nothing, so
that a frame that went on over it would not be genuine.

**Scte35.** A section is a set of fields, each at its place with its size and what it says; the places follow from what the
splicer put before them (`Offsets`). Reading a field at the wrong place or of the wrong size, or past what arrived, is visible.
Each read of `scte35_parse_splice_insert` is a step with the bytes it needs; `Descriptor` is one pass of the loop of
`scte35_parse_time_signal`. The splicer follows the standard; the packet may end anywhere behind the first byte. The numbers
of components and of descriptors, and which descriptors (`Segmentations`, of those in `Kinds`), are constants.

**SignalWatch.** `Silence`, `Datagram`, `Interrupted`, `Reopen` are the four ways through the loop of `udp_receiver_thread`.
`Openings` is every way `socket_udp_open` can end: no socket, one closed again after a call that failed or for want of a
slot, or one in the table.

**EventReports.** `Take`, `Post`, `Return` are the signal thread; a post on its way to the web application may arrive after the
thread has given it up. Either side may stop at any moment: the hub loses its queue, the web application what was on
its way. The words of an event are those of its kind, as far as `classifyLogEntry` of `server.js` tells them apart.

## Abstract specifications

* `Pool`: a taken buffer is one nobody holds; a take fails only when all are taken or the heap may fail.
* `Deque`: a sequence of messages; a waiting take is empty-handed only from an empty queue or after a stop.
* `SlotTable`: a client is assigned a free slot or refused when none is free, and is sent packets newer than those
  before.

`PoolSpec`, `DequeSpec` and `SlotTableSpec` are the refinements; the mapping stands next to each.

## Runs

| Run | Question | Bounds |
|---|---|---|
| `pools` | does the round-robin search find every free buffer and keep the books, and is a return right when addresses come back and allocations fail? | 4 buffers: more than the search needs to start in the middle, wrap, and meet a run of taken ones; 5 addresses, one more than buffers, so that a freed one may return or stay away; both kinds of pool |
| `queue` | is the linked list a double-ended queue for any mix of calls, and is a stop noticed, a message taken? | 3 nodes and 3 messages reach lists of length 0 to 3, hence first, last, only and middle node; 2 stops, so that a consumer is started again after one |
| `pull_safety` | does a slot have one owner, and is no buffer lost, through accepts, losses and restarts? | 2 slots, 3 symmetric clients (one must wait or be refused), few enough packets and messages to run out of either |
| `pull_live` | do restarts complete, and do workers stop? | 1 slot, 2 clients: the second reuses the slot the first leaves |
| `pull_restart` | does the log line "restarting" come true? (violated) | as `pull_live` |
| `srt_to_udp` | are buffers conserved, is no stale packet sent and no frame used after its pool, and do restarts complete? | both receivers; 5 messages, 2 packets, 2 video and 1 audio buffer, 4 packets received, 2 errors: two restarts, so that a packet or frame of the time before either would show |
| `nodata` | is a dry output reported? (violated) | 1 packet |
| `push` | does the sender lose no buffer, leave no queue behind and send nothing stale, however sends, reconnections and set-ups end? | 3 messages for 4 packet buffers: messages run out first, as with the code's 8192 and 16384; the datagrams are more than the messages, so that the queue is filled again after a restart |
| `reports` | is each cue reported once and each new one at all; are lasting changes reported and glitches not; is every reason a listener fails shown, recovery too, without a flood? | more cues than the table holds, so one is forgotten; a window that ends within the run; a change lasting when seen in 2 frames; 3 reasons and an interval of 4 retries for the code's hourly report |
| `context` | does an event tell the picture on both sides? (violated) | the same pictures as `reports` |
| `monitor` | are tables whole and do they follow the stream; are the errors counted those of the stream, and is a frame without one filled from one PES as far as the buffer had room; are cues as sent; is no socket leaked and every loss reported; is the log what the hub sent? | 3 PIDs of PMTs, one more than the hub has room for, two of them in 2 packets, and one change by the multiplexer, with 3 versions, so that none comes back; 2 streams whose counter wraps at 3 and begins at 2 (so that the first packet is an error, unless two are lost before it), bursts of up to 2, one new PMT, and 4 packets of 1 or 2 units for a buffer of 3: a start of 2 leaves room for 1, so that a packet of 2 is left out, one of 1 goes in behind it, and the next start hands the frame on; 0 to 2 components or descriptors, a packet that ends at any byte; 2 slots for 3 descriptors and the 5 seconds of the code; 2 events of any two kinds |
| `chosen` | is a chosen program that is gone reported as not found? (violated) | the tables of `monitor` |

The numeric constants of the code are scaled: `Hour` for the reports per hour, `FRAMES` for the frames a change must
last, `K` and `W` for the cue table and its window, `N` for the worker slots. The boundaries met (equal to the limit, one less, one
more) are the same ones. All actions fire in the passing runs.

Deadlock is checked except in `SrtToUdp` and `PushServer`, where the code may stop: a caller that cannot set up its socket
ends without asking for a restart, a restart request may find no message, and the packets are bounded; and in `MCMonitor`,
where the packets sent and the sections to parse are bounded.

## Fairness

Weak fairness is assumed of threads that can run: a worker, the receiver's and the server's steps that do not wait for
the network, the outputs, and main. No datagram, client, port or frame need ever come, and nothing need fail. In
`DataQueue` a consumer that waits is scheduled because its wait times out; `AllTaken` speaks only of executions in which
from some time on nothing more is added at the end the consumer takes from. In `PushServer` the server is scheduled, and
whether any connection or send succeeds is left to the peer. In `MCMonitor` the UDP receiver is scheduled, because its waits
end after a second; the signal thread, because it polls and its posts end after five seconds; and the web application answers
what reaches it. `TablesBecomeCurrent` assumes nothing of the code: its premises are that the multiplexer rests, and that
the hub again and again receives the PAT and, PID by PID, a section that no other PMT interrupts. No strong fairness is used, and none
is needed: the mutexes of the code are held for one step of a model.

## What the runs show

The passing runs are evidence that the pools and queues do what the pipelines take for granted, that workers which outlive
a restart never share a slot or a queue with new ones, that main never joins a thread that cannot end, that frames
never outlive their pool, that a push server's peer may come and go without a buffer lost, that the three reporting
functions report what their comments say, that loss and interleaving of packets never give the monitor a table or a cue that
was not sent, that a frame without error lacks nothing but packets its full buffer refused, that a silent input is noticed and tried again for ever, and that the event log is what the hub
said, with these exceptions:

* `pull_restart`: a failed `srt_listen` is logged as "restarting" (srthub.c:1508), but the request needs a message of
  the shared pool (srthub.c:539) and is dropped when there is none (548). If packets queued for clients and decoded frames hold
  every message, the service stays without a listener.
* `nodata`: the report "No Data on SRT Connection" (srthub.c:2286) is in a branch that needs a waiting take to
  return nothing while the thread runs; it never does (dataqueue.c:301), and a silent source is never reported.
* `context`: the old side of a reported change is the context stored when that value last changed (srthub.c:2716-2754),
  not the picture before the change as the comment at srthub.c:2689-2690 says. In the trace the aspect ratio changes alone, from
  wide to narrow, under a resolution that stays; when the resolution changes later, its event says the old picture was wide.
* `chosen`: "If the stream stops carrying the chosen program, srthub monitors nothing" (README.md:185). No entry of
  `master_pmt_table` is ever removed (tsdecode.c:876-896), so `find_monitored_index` finds the program that is gone and the
  summary says it was found (tsdecode.c:285).

## Proofs

`MemPoolProofs` proves, for every number of buffers, either kind of pool and any set of addresses:

* `Invariance`: `Spec => []Inv`, where `Inv` is `TypeOK /\ BooksMatch /\ RecordsClean`. Neither of the last two is
  inductive alone: that a return frees the right slot needs the record of a free heap buffer to be empty, and that needs the
  books to name each pointer once.
* `ConservedAlways`: the counts of free and of held buffers sum to the size of the pool. From `BooksMatch`, held pointers and
  taken records are in bijection; the rest is the cardinality of a disjoint union.
* `ReturnAlwaysFindsOwner`: from `Inv`, for sized pools directly, for heap pools as the least index that matches.
* `ImplementsPool`: `Spec => PoolSpec`, initial state by initial state and step by step. The lemma it needs is that
  `Count` probes from any position visit every record (`ProbeCovers`).

`DataQueueProofs` proves, for every set of nodes and messages and any number of stops:

* `ListInvariance`: `Spec => []Inv`: the links agree with one another, with the count and with the set of nodes in use. It goes
  operation by operation: one lemma for each of the two puts and the two ways a node is unlinked (`PutFrontList`,
  `PutBackList`, `UnlinkFrontList`, `UnlinkBackList`), and every action is one of these or leaves the list alone.
* `NoLostWakeup`: `Spec => []SleepsOnlyWhenEmpty`: a consumer sleeps on an empty queue only.
* `ImplementsDeque`: `Spec => DequeSpec`. The nodes in order are seen as the sequence of their messages; each of the four
  list operations is shown to add or remove that sequence's first or last element (`ViewFront`, `ViewBack`,
  `ViewWithoutFirst`, `ViewWithoutLast`), and every step is then a step of `Deque` or a stutter.

`PushServerProofs` proves, for pools of any size and any number of datagrams and frames:

* `Invariance`: `Spec => []Inv`. What is preserved step by step is `Shape`, the types without the limits of the pools, with
  the other conjuncts; a pool cannot hold more than it began with because the buffers are conserved (`ShapeIsEnough`). That
  conservation and `NoQueueLeftBehind` survive a stop rests on `StopFollowsRequest`: a stop never meets a server with a
  queue or a packet it would forget. The steps fall into those that put the packet in hand down (one lemma for all,
  `PutDownInv`), those that make, empty or destroy a queue, those that only move messages, and the rest.
* `OnlyFreshOutput`: `Spec => NoStaleOutput`, an action property: only `Send` changes `last`, and `InOrder` says of the packet
  in hand that it is newer than `last` and `since`.

`SrtToUdpProofs` proves, for pools of any size and any number of packets, frames and errors:

* `Invariance`: `Spec => []IInv`. `Phase` says what main's place in a restart tells of the threads: which run, which have
  been told to stop, which have ended. `Hands` says that a thread holds something only while it handles it and has emptied
  its queue when it ends. Without these `VideoBuffersLive` is not inductive: that the video pool is destroyed with
  nothing lent is a fact about the order of the joins. `InOrder` is the order of the queue to the output.
* `BuffersConservedAlways`, `VideoBuffersLiveAlways`: `Spec => []BuffersConserved`, `Spec => []VideoBuffersLive`.
* `TypeCorrect`: `Spec => []TypeOK`. `IInv` bounds no pool from above; conservation does.
* `OnlyFreshOutput`: `Spec => NoStaleOutput`, from `InOrder` and the conjunct that a restart leaves the queue empty.

`PullServerProofs` proves, for any number of slots and of clients, pools of any size and any number of datagrams:

* `Invariance`: `Spec => []IInv`. A client that has been accepted is the server's and nobody else's until its worker starts
  (`Phase`); a slot's queue and what its owner holds are in order, also while a fan-out is under way and only some slots have
  the newest packet (`InOrder`, with `Handled`). `Clients` need not be finite: what is counted are the places in queues and the
  clients with a packet in hand, which stay finite sets (`Finite`), as each step changes one queue or one hand.
* `OneOwnerAlways`, `BuffersConservedAlways`, `TypeCorrect`: the three invariants the run checks.
* `ImplementsSlotTable`: `Spec => SlotTableSpec`. `CreateQueue` claims a slot, `LeaveSlot` releases it, `Send` delivers; every other
  step is shown to leave what the table shows alone (`ServerStutters`, `ArrivalStutters`, `WorkerStutters`, `RestStutters`,
  `SpawnStutters`).

`ReportsProofs` proves, for any cues, formats and reasons, and tables, windows and intervals of any size:

* `Invariance`: `AllSpec => []AllInv`. For the cues, `Forgotten` is what makes `TableExact` enough: a cue that was seen and is not
  in the table is no younger than anything in it, as the victim is always the oldest. For the formats, `Tracked` relates the
  pending value and its count to the run of equal frames that ends now. For the listener, `Told` and `Untold` say what file and
  event show between two tries.
* `TableExactAlways`, `LastingChangesAlways`, `StatusTrueAlways`, `TypesCorrect`: the invariants of the run.
* `NoCueLost`, `NoReportSpurious`, `NoFloodEver`: its action properties. The second counts: the cues in a full table
  are as many as its slots and were all seen since.

`MonitorProofs` proves, for any programs, PMTs, streams and events and any number of packets:

* `Invariance`: `AllSpec => []AllInv`, where `AllInv` is `TableInv /\ FrameInv /\ SpliceInv /\ EventInv /\ IInv`: of the tables,
  the frames, the parser (proved in `SpliceProofs`), the events and the watch. The parts share no variable, so each is proved
  to be preserved by its own steps.
* `TablesExactAlways`: `AllSpec => []TablesExact`. What the multiplexer has under way on a PID is of that PID (`MuxInv`); a buffer
  whose checksum agrees is one section in order, and as its last packet is of the PID that is being read, all of it is.
* `LossCountedAlways`, `FramesGenuineAlways`: `AllSpec => []LossCounted`, `AllSpec => []FramesGenuine`. `HeardRight` says that what
  was sent is what was heard and one run of losses, and what the counter therefore is; `NextCounter` is the arithmetic: after
  fewer losses than the cycle of the counter has values, the next value tells that there were none. `AssembledRight` says of a
  frame without error that it is filled from its PES up to the last packet heard (`FromPes`): a start begins it
  (`FromPesBegins`), the next packet goes on with it (`FromPesGoesOn`) or finds no room (`FromPesLeavesOut`), and what was sent
  stays sent (`FromPesGrows`). Sizes of packets and of the buffer are any.
* `LogFaithfulAlways`: `AllSpec => []LogFaithful`. `InTurn` orders the four places an event can be in (queue, thread, on its way,
  log), and `OnceOnTheWay` says that what is on its way is the thread's or was given up; neither is about the log alone.
* `WatchTypes`, `WatchTrue`: `Spec => []TypeOK`, `Spec => []InputWatched` of `SignalWatch` by itself, for a table of sockets of
  any size, any set of descriptors and any number of seconds. `InputWatched` is `SocketsAccounted /\ EventsTrue`. `EventsTrue` is
  not inductive: that the count of the loop reaches its limit exactly when there have been so many seconds of silence needs
  `QuietCounted`, which relates the two before the limit is reached and after the first report. `SocketsAccounted` is carried
  from closing to opening (`CloseAccounted`, `OpenAccounted`): each of the endings of `socket_udp_open` is one case.
* `CueAsSentAlways`: `AllSpec => []CueAsSent`, from `SpliceInv`.
* `InputWatchedAlways`, `TypesAlways`: the watch beside the other parts, and the types of all parts (`MonitorTypeOK`).

`SpliceProofs` proves what `CueAsSentAlways` rests on, for splice_inserts of any number of components, time_signals of any number
of descriptors of any kind, any padding and a packet that ends at any byte:

* `SpliceInv` is the inductive invariant: nothing was sent, or a splice_insert `c` (`Inserting(c)`), or a time_signal `s`
  (`Signalling(s, known)`). Each says, for every place of the parser, where the cursor is in what the splicer laid out and which
  fields of the cue are filled, with what the splicer means by them; of a time_signal, also that the cues handed on are those
  of the descriptors before the cursor (`Meant(s)[j]`). `CueAsSent` alone says nothing of a cue that is still being filled in.
* The layout: `Laid(fields, lo, hi)` says that fields have places from `lo` on and before `hi`, each a place of its own. It holds of
  one field, and of two parts one behind the other (`LaidOne`, `LaidBehind`, `LaidParts`), hence of every section (`InsertLaid`,
  `LoopLaid`, `SectionLaid`); what is read at a place is then the field laid there (`FieldIs`, `FieldRead`).
* The places of a list of parts (`Offsets`) and what the first descriptors mean (`Meant`) are recursive functions. The
  library's theorems on such functions take an operator as a parameter; instead, that the function exists is shown by the least
  number for which no beginning of it does, and what holds of all its values by the least number for which it fails
  (`LeastOf`, from the library's fact that `<` is well-founded on the natural numbers).
* `SpliceSafe`: `SpliceInv` gives `CueAsSent` and the parser's part of `MonitorTypeOK`.

The model has `Kinds` with numbers of any size where the code has bytes: that the lengths a descriptor announces fit their bytes is
the splicer's business, and the run uses lengths that do.

Assumed are only the named assumptions of the modules on their constants. Those of `Monitor` are the ones the code's
constants meet (a counter of 16 values and a run of fewer losses, a room for 1 table or more), with finitely many PIDs and, for
`PesAssembly`, PMTs that give each stream its own PID and of which one is the longest, as the table of streams has an end.

## Only model-checked

* Liveness (`StopNoticed`, `AllTaken`, `WorkersStop`, `RestartCompletes`, `LossReported`, `TablesBecomeCurrent`): it rests on
  fairness, hence on `ENABLED`, which the prover does not reach.
* `ChosenProgramOrNothing`, `ListenFailureRestarts`, `NoDataReported` and `OldSideIsTrue` do not hold; a run shows each violated,
  and a counterexample is its own proof.

## Not modelled

* `cJSON` is third-party; `crc.c` and the decoders compute without shared state; the user interface, sessions and packaging
  keep no protocol state. Node allocation in `dataqueue_put_*` is taken to succeed: no caller looks at its result.
* Transport stream: the rates and times measured from PCRs and tables, the table of all PIDs, time stamps of frames, tables
  that do not parse, a PMT section that begins behind the rest of another one (a `pointer_field` other than 0). The
  `current_next_indicator` of a PAT or PMT and the section numbers of a PAT are read and not used by the code: the multiplexer
  of the model sends current tables and a PAT of one packet. A burst of exactly a whole cycle of the counter cannot be seen by
  it, and bursts in the model are shorter. `FramesGenuine` speaks of places that stay what they are: the frame under way when a
  new PMT renumbers the streams is handed on under its new type. A frame too long for its buffer is no error to the code, and so
  none to the model: `FramesGenuine` allows the hole it leaves.
* SCTE-35: of the fields of a cue, `pts_adjustment`, `auto_return`, `segment_num` and `segments_expected` are left out; `CueAsSent`
  speaks of the others.
* The summary of streams is copied field by field without a lock between threads; a torn one is written over two seconds
  later.
* Events: a post that fails or is refused is dropped without a retry (esignal.c:190), and one for which curl cannot even be set
  up likewise; the web application of the model answers every post while it runs, so that the log half of `LossReported` says that
  what is posted then arrives, not that nothing is dropped. The messages that no part of
  the hub sends now are left out of `Words`.
* Web application: the routes that create, start, stop, replace and restore services are synchronous handlers over files
  and shell commands; the page of the log reads files that grow. Neither is modelled yet.

## Plan

1. Proofs: a simulation between the hub and an abstract event log.
2. Services of the web application: files, lock files and containers, with a hub that stops by itself.
3. The event log: a day scanned while it is written, the follower over a log that grows and rotates.

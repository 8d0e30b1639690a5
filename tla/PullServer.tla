----------------------------- MODULE PullServer -----------------------------
(***************************************************************************)
(* UDP in, SRT out, with the hub as the SRT listener that clients pull     *)
(* from (source/srthub.c). Four kinds of threads share the slot table      *)
(* srtserverqueue[], its lock srtserverlock and two buffer pools:          *)
(*                                                                         *)
(*   server    srt_server_thread_pull: binds, listens, accepts a client,   *)
(*             looks for a free slot, gives it a queue and a worker        *)
(*   worker    srt_server_worker_output_thread: one per client, detached;  *)
(*             sends what its queue holds, empties and destroys the queue  *)
(*             when told to stop or when the connection is lost            *)
(*   receiver  udp_receiver_thread: copies each datagram into every queue  *)
(*   main      joins and restarts the receiver and the server when a       *)
(*             restart message arrives; it does not join the workers, so   *)
(*             old ones live on next to the new server                     *)
(*                                                                         *)
(* One step is one section under srtserverlock, one queue operation (see   *)
(* DataQueue) or one read or write of a flag.                              *)
(***************************************************************************)
EXTENDS Sequences, FiniteSets, Integers

CONSTANTS
    N,          \* MAX_WORKER_THREADS: the number of slots
    Clients,    \* the SRT callers that connect, each at most once
    Packets,    \* the size of packetpool
    Msgs,       \* the size of msgpool
    NULL,
    MaxPackets, \* bound: the datagrams received
    MaxOthers,  \* bound: the messages audio and video frames tie up
    MaxFails    \* bound: how often srt_listen fails

ASSUME SlotsAssumption == N \in Nat \ {0}
ASSUME PoolsAssumption == Packets \in Nat /\ Msgs \in Nat
ASSUME BoundsAssumption == MaxPackets \in Nat /\ MaxOthers \in Nat /\ MaxFails \in Nat
ASSUME NullAssumption == NULL \notin Clients \cup Seq(Nat) \cup Nat

VARIABLES
    mpc,        \* where main is: its loop, or waiting for a thread to exit
    restarts,   \* the restart messages in msgqueue
    srun, spc,  \* the server: srt_server_thread_running, where it is
    slot,       \* the slot the server is looking at
    client,     \* the client it has accepted
    fails,      \* how often srt_listen has failed
    rrun, rpc,  \* the receiver: udp_receiver_thread_running, where it is
    rslot,      \* the slot the receiver is copying to
    npkt,       \* the datagrams received; a packet is named by its number
    queue,      \* srtserverqueue[]: NULL, or the queued packets, front first
    wrun,       \* srt_server_worker_thread_running[]
    wpc, wslot, held,   \* each client's worker: where, its slot, its packet
    last,       \* history: the newest packet each client was sent
    freePkt, freeMsg,   \* buffers left in packetpool and msgpool
    others      \* messages tied up by audio and video frames

main == <<mpc, restarts>>
server == <<srun, spc, slot, client, fails>>
receiver == <<rrun, rpc, rslot, npkt>>
workers == <<wpc, wslot, held, last>>
pools == <<freePkt, freeMsg, others>>
vars == <<main, server, receiver, queue, wrun, workers, pools>>

Slots == 1 .. N

(* main starts both threads; no slot is taken. The flags of the workers are *)
(* fields of an uninitialised structure on main's stack.                    *)
Init ==
    /\ mpc = "run" /\ restarts = 0
    /\ srun = TRUE /\ spc = "bind" /\ slot = 1 /\ client = NULL /\ fails = 0
    /\ rrun = TRUE /\ rpc = "wait" /\ rslot = 1 /\ npkt = 0
    /\ queue = [s \in Slots |-> NULL]
    /\ wrun \in [Slots -> BOOLEAN]
    /\ wpc = [c \in Clients |-> "new"]
    /\ wslot = [c \in Clients |-> 1]
    /\ held = [c \in Clients |-> NULL]
    /\ last = [c \in Clients |-> 0]
    /\ freePkt = Packets /\ freeMsg = Msgs /\ others = 0

-----------------------------------------------------------------------------
(* The server                                                              *)

(* srt_bind_listener_retrying gets its port. Both this wait and the loop    *)
(* that follows end when the server's flag is clear.                        *)
Bind ==
    /\ spc = "bind"
    /\ spc' = IF srun THEN "listen" ELSE "cleanup"
    /\ UNCHANGED <<main, srun, slot, client, fails, receiver, queue, wrun, workers, pools>>

(* srt_listen succeeds; the server waits in srt_accept.                     *)
Listen ==
    /\ spc = "listen"
    /\ spc' = IF srun THEN "accept" ELSE "cleanup"
    /\ UNCHANGED <<main, srun, slot, client, fails, receiver, queue, wrun, workers, pools>>

(* srt_listen fails: the failure is reported and five seconds go by.        *)
ListenFails ==
    /\ spc = "listen" /\ srun /\ fails < MaxFails
    /\ spc' = "failed"
    /\ fails' = fails + 1
    /\ UNCHANGED <<main, srun, slot, client, receiver, queue, wrun, workers, pools>>

(* send_restart_message: without a free message nothing is sent.            *)
Report ==
    /\ spc = "failed"
    /\ spc' = "cleanup"
    /\ IF freeMsg > 0
       THEN restarts' = restarts + 1 /\ freeMsg' = freeMsg - 1
       ELSE UNCHANGED <<restarts, freeMsg>>
    /\ UNCHANGED <<mpc, srun, slot, client, fails, receiver, queue, wrun,
                   workers, freePkt, others>>

(* srt_accept returns an invalid socket: the server leaves, with no restart *)
(* message.                                                                 *)
AcceptFails ==
    /\ spc = "accept"
    /\ spc' = "cleanup"
    /\ UNCHANGED <<main, srun, slot, client, fails, receiver, queue, wrun, workers, pools>>

Accept(c) ==
    /\ spc = "accept" /\ wpc[c] = "new"
    /\ spc' = "scan" /\ slot' = 1 /\ client' = c
    /\ wpc' = [wpc EXCEPT ![c] = "accepted"]
    /\ UNCHANGED <<main, srun, fails, receiver, queue, wrun, wslot, held, last, pools>>

(* What the server takes for a free slot, read under the lock.              *)
FreeSlotByFlag(s) == ~wrun[s]
FreeSlot(s) == queue[s] = NULL

ScanBusy ==
    /\ spc = "scan" /\ ~FreeSlot(slot) /\ slot < N
    /\ slot' = slot + 1
    /\ UNCHANGED <<main, srun, spc, client, fails, receiver, queue, wrun, workers, pools>>

(* The last slot is busy too: the client's socket is closed.                *)
Reject ==
    /\ spc = "scan" /\ ~FreeSlot(slot) /\ slot = N
    /\ spc' = "listen" /\ client' = NULL
    /\ wpc' = [wpc EXCEPT ![client] = "rejected"]
    /\ UNCHANGED <<main, srun, slot, fails, receiver, queue, wrun, wslot, held, last, pools>>

ScanFree ==
    /\ spc = "scan" /\ FreeSlot(slot)
    /\ spc' = "create"
    /\ UNCHANGED <<main, srun, slot, client, fails, receiver, queue, wrun, workers, pools>>

(* The lock was let go of after the look: it is taken again for the new     *)
(* queue. From here on the client may get packets.                          *)
CreateQueue ==
    /\ spc = "create"
    /\ spc' = "spawn"
    /\ queue' = [queue EXCEPT ![slot] = <<>>]
    /\ last' = [last EXCEPT ![client] = IF rpc = "copy" THEN npkt - 1 ELSE npkt]
    /\ UNCHANGED <<main, srun, slot, client, fails, receiver, wrun, wpc, wslot, held, pools>>

(* The worker's flag is set and its thread started and detached.            *)
Spawn ==
    /\ spc = "spawn"
    /\ spc' = "listen" /\ client' = NULL
    /\ wrun' = [wrun EXCEPT ![slot] = TRUE]
    /\ wpc' = [wpc EXCEPT ![client] = "loop"]
    /\ wslot' = [wslot EXCEPT ![client] = slot]
    /\ UNCHANGED <<main, srun, slot, fails, receiver, queue, held, last, pools>>

(* Every worker is told to stop and the listener is closed.                 *)
FlagsCleared == [s \in Slots |-> FALSE]
ServerExits ==
    /\ spc = "cleanup"
    /\ spc' = "exited"
    /\ wrun' = FlagsCleared
    /\ UNCHANGED <<main, srun, slot, client, fails, receiver, queue, workers, pools>>

-----------------------------------------------------------------------------
(* The receiver                                                            *)

Receive ==
    /\ rpc = "wait" /\ rrun /\ npkt < MaxPackets
    /\ npkt' = npkt + 1
    /\ rpc' = "copy" /\ rslot' = 1
    /\ UNCHANGED <<main, server, rrun, queue, wrun, workers, pools>>

(* dataqueue_put_front                                                      *)
AddAtBack(q, p) == Append(q, p)
Add(q, p) == <<p>> \o q

(* A packet buffer is taken before the message that points at it; if there  *)
(* is no message the packet buffer goes back.                               *)
PacketsAfterNoMsgLeaked == IF freePkt > 0 THEN freePkt - 1 ELSE freePkt
PacketsAfterNoMsg == freePkt

NextSlot ==
    IF rslot = N THEN rpc' = "wait" /\ UNCHANGED rslot
    ELSE rslot' = rslot + 1 /\ UNCHANGED rpc

(* The section under the lock for one slot of the table.                    *)
Copy ==
    /\ rpc = "copy"
    /\ NextSlot
    /\ IF queue[rslot] # NULL /\ freePkt > 0 /\ freeMsg > 0
       THEN /\ queue' = [queue EXCEPT ![rslot] = Add(queue[rslot], npkt)]
            /\ freePkt' = freePkt - 1 /\ freeMsg' = freeMsg - 1
       ELSE /\ freePkt' = IF queue[rslot] # NULL THEN PacketsAfterNoMsg ELSE freePkt
            /\ UNCHANGED <<queue, freeMsg>>
    /\ UNCHANGED <<main, server, rrun, npkt, wrun, workers, others>>

(* Frames decoded from a datagram take messages of the same pool; the audio *)
(* and thumbnail threads give them back.                                    *)
Borrow ==
    /\ rpc = "wait" /\ rrun /\ others < MaxOthers /\ freeMsg > 0
    /\ others' = others + 1 /\ freeMsg' = freeMsg - 1
    /\ UNCHANGED <<main, server, receiver, queue, wrun, workers, freePkt>>

GiveBack ==
    /\ others > 0
    /\ others' = others - 1 /\ freeMsg' = freeMsg + 1
    /\ UNCHANGED <<main, server, receiver, queue, wrun, workers, freePkt>>

ReceiverExits ==
    /\ rpc = "wait" /\ ~rrun
    /\ rpc' = "exited"
    /\ UNCHANGED <<main, server, rrun, rslot, npkt, queue, wrun, workers, pools>>

-----------------------------------------------------------------------------
(* The workers                                                             *)

(* The buffers of the packet the worker holds go back to the pools.         *)
ReturnedAlways(c) == 1
Returned(c) == IF held[c] = NULL THEN 0 ELSE 1
PutDown(c) ==
    /\ held' = [held EXCEPT ![c] = NULL]
    /\ freePkt' = freePkt + Returned(c) /\ freeMsg' = freeMsg + Returned(c)
    /\ UNCHANGED others

LeaveLoop(c) ==
    /\ wpc[c] = "loop" /\ ~wrun[wslot[c]]
    /\ wpc' = [wpc EXCEPT ![c] = "cleanup"]
    /\ UNCHANGED <<main, server, receiver, queue, wrun, wslot, held, last, pools>>

(* dataqueue_take_back_wait on the worker's queue returns: a message, or,   *)
(* told to stop or given no queue, NULL.                                    *)
Length(s) == IF queue[s] = NULL THEN 0 ELSE Len(queue[s])
Take(c) ==
    LET s == wslot[c] IN
    /\ wpc[c] = "loop"
    /\ wpc' = [wpc EXCEPT ![c] = "got"]
    /\ \/ /\ wrun[s] /\ Length(s) > 0
          /\ held' = [held EXCEPT ![c] = queue[s][Len(queue[s])]]
          /\ queue' = [queue EXCEPT ![s] = SubSeq(@, 1, Len(@) - 1)]
       \/ (~wrun[s] \/ queue[s] = NULL) /\ UNCHANGED <<held, queue>>
    /\ UNCHANGED <<main, server, receiver, wrun, wslot, last, pools>>

(* The flag is read once more; a message taken meanwhile is given up.       *)
Stopped(c) ==
    /\ wpc[c] = "got" /\ ~wrun[wslot[c]]
    /\ wpc' = [wpc EXCEPT ![c] = "cleanup"]
    /\ PutDown(c)
    /\ UNCHANGED <<main, server, receiver, queue, wrun, wslot, last>>

GoesOn(c) ==
    /\ wpc[c] = "got" /\ wrun[wslot[c]]
    /\ wpc' = [wpc EXCEPT ![c] = "send"]
    /\ UNCHANGED <<main, server, receiver, queue, wrun, wslot, held, last, pools>>

(* srt_sendmsg2 sends the packet, or fails in a way that drops it.          *)
Send(c) ==
    /\ wpc[c] = "send"
    /\ wpc' = [wpc EXCEPT ![c] = "loop"]
    /\ last' = [last EXCEPT ![c] = held[c]]
    /\ PutDown(c)
    /\ UNCHANGED <<main, server, receiver, queue, wrun, wslot>>

SendFails(c) ==
    /\ wpc[c] = "send"
    /\ wpc' = [wpc EXCEPT ![c] = "loop"]
    /\ PutDown(c)
    /\ UNCHANGED <<main, server, receiver, queue, wrun, wslot, last>>

ConnectionLostRestarts(c) ==
    /\ wpc[c] = "send" /\ freeMsg > 0
    /\ wpc' = [wpc EXCEPT ![c] = "cleanup"]
    /\ held' = [held EXCEPT ![c] = NULL]
    /\ restarts' = restarts + 1
    /\ freePkt' = freePkt + 1 /\ UNCHANGED <<freeMsg, others>>
    /\ UNCHANGED <<mpc, server, receiver, queue, wrun, wslot, last>>
ConnectionLost(c) ==
    /\ wpc[c] = "send"
    /\ wpc' = [wpc EXCEPT ![c] = "cleanup"]
    /\ PutDown(c)
    /\ UNCHANGED <<main, server, receiver, queue, wrun, wslot, last>>

ClearFlag(c) ==
    /\ wpc[c] = "cleanup"
    /\ wpc' = [wpc EXCEPT ![c] = "drain"]
    /\ wrun' = [wrun EXCEPT ![wslot[c]] = FALSE]
    /\ UNCHANGED <<main, server, receiver, queue, wslot, held, last, pools>>

(* Under the lock: the queue is emptied into the pools, destroyed, and the  *)
(* slot cleared.                                                            *)
Drained(c) == Length(wslot[c])
LeaveSlot(c) ==
    /\ wpc[c] = "drain"
    /\ wpc' = [wpc EXCEPT ![c] = "closing"]
    /\ queue' = [queue EXCEPT ![wslot[c]] = NULL]
    /\ freePkt' = freePkt + Drained(c) /\ freeMsg' = freeMsg + Drained(c)
    /\ UNCHANGED <<main, server, receiver, wrun, wslot, held, last, others>>

(* srt_close; the thread ends.                                              *)
WorkerEnds(c) ==
    /\ wpc[c] = "closing"
    /\ wpc' = [wpc EXCEPT ![c] = "gone"]
    /\ UNCHANGED <<main, server, receiver, queue, wrun, wslot, held, last, pools>>

-----------------------------------------------------------------------------
(* main: a message in msgqueue stops both threads and starts them again    *)

StopReceiver ==
    /\ mpc = "run" /\ restarts > 0
    /\ restarts' = restarts - 1
    /\ rrun' = FALSE
    /\ mpc' = "joinReceiver"
    /\ UNCHANGED <<server, rpc, rslot, npkt, queue, wrun, workers, pools>>

StopServer ==
    /\ mpc = "joinReceiver" /\ rpc = "exited"
    /\ srun' = FALSE
    /\ mpc' = "joinServer"
    /\ UNCHANGED <<restarts, spc, slot, client, fails, receiver, queue, wrun, workers, pools>>

Restart ==
    /\ mpc = "joinServer" /\ spc = "exited"
    /\ mpc' = "run"
    /\ freeMsg' = freeMsg + 1
    /\ srun' = TRUE /\ spc' = "bind" /\ client' = NULL
    /\ rrun' = TRUE /\ rpc' = "wait"
    /\ UNCHANGED <<restarts, slot, fails, rslot, npkt, queue, wrun, workers,
                   freePkt, others>>

-----------------------------------------------------------------------------
ServerSteps == Listen \/ Report \/ ScanBusy \/ Reject \/ ScanFree
               \/ CreateQueue \/ Spawn \/ ServerExits

ReceiverSteps == Copy \/ ReceiverExits

WorkerSteps(c) ==
    \/ LeaveLoop(c) \/ Take(c) \/ Stopped(c) \/ GoesOn(c)
    \/ Send(c) \/ SendFails(c) \/ ConnectionLost(c)
    \/ ClearFlag(c) \/ LeaveSlot(c) \/ WorkerEnds(c)

MainSteps == StopReceiver \/ StopServer \/ Restart

Next ==
    \/ Bind \/ ListenFails \/ AcceptFails \/ \E c \in Clients : Accept(c)
    \/ ServerSteps
    \/ Receive \/ Borrow \/ GiveBack \/ ReceiverSteps
    \/ \E c \in Clients : WorkerSteps(c)
    \/ MainSteps

Spec == Init /\ [][Next]_vars

(* Every thread that is not waiting for the network is scheduled: a bind, a *)
(* client, a datagram or a frame may never come, and nothing has to fail.   *)
FairSpec ==
    /\ Spec
    /\ WF_vars(ServerSteps)
    /\ WF_vars(ReceiverSteps)
    /\ WF_vars(MainSteps)
    /\ \A c \in Clients : WF_vars(WorkerSteps(c))

-----------------------------------------------------------------------------
(* Properties                                                              *)

(* The clients whose worker still uses its slot.                            *)
Active(c) == wpc[c] \in {"loop", "got", "send", "cleanup", "drain"}

(* Every field has its type; the pools never hand out more than they have.  *)
TypeOK ==
    /\ mpc \in {"run", "joinReceiver", "joinServer"} /\ restarts \in 0 .. MaxFails
    /\ srun \in BOOLEAN
    /\ spc \in {"bind", "listen", "failed", "accept", "scan", "create",
                "spawn", "cleanup", "exited"}
    /\ slot \in Slots /\ client \in Clients \cup {NULL} /\ fails \in 0 .. MaxFails
    /\ rrun \in BOOLEAN /\ rpc \in {"wait", "copy", "exited"}
    /\ rslot \in Slots /\ npkt \in 0 .. MaxPackets
    /\ queue \in [Slots -> Seq(1 .. MaxPackets) \cup {NULL}]
    /\ wrun \in [Slots -> BOOLEAN]
    /\ wpc \in [Clients -> {"new", "accepted", "rejected", "loop", "got", "send",
                            "cleanup", "drain", "closing", "gone"}]
    /\ wslot \in [Clients -> Slots]
    /\ held \in [Clients -> (1 .. MaxPackets) \cup {NULL}]
    /\ last \in [Clients -> 0 .. MaxPackets]
    /\ freePkt \in 0 .. Packets /\ freeMsg \in 0 .. Msgs /\ others \in 0 .. MaxOthers

(* A slot has a queue exactly while one client owns it, from the creation   *)
(* of the queue to its destruction by that client's worker: an old worker   *)
(* that outlives a restart never shares its slot with a new one, and never  *)
(* works on a queue that is gone. The slot the server found free is still   *)
(* free when it takes the lock again to put a queue there. And a worker     *)
(* that finds its flag set after the wait holds a message, never a NULL     *)
(* one, since the flag is not set again before the worker saw it clear.     *)
Owns(c, s) == \/ Active(c) /\ wslot[c] = s
              \/ spc = "spawn" /\ client = c /\ slot = s
OneOwnerPerSlot ==
    /\ \A s \in Slots : queue[s] # NULL <=> \E c \in Clients : Owns(c, s)
    /\ \A s \in Slots, c, d \in Clients : Owns(c, s) /\ Owns(d, s) => c = d
    /\ spc = "create" => queue[slot] = NULL
    /\ \A c \in Clients :
         wpc[c] = "send" \/ (wpc[c] = "got" /\ wrun[wslot[c]]) => held[c] # NULL

(* Every buffer is in its pool, in a queue, in a worker's hands or, for     *)
(* messages, on its way to main or with a frame: no path of any thread      *)
(* loses one or returns it twice. A queued packet is counted by its slot    *)
(* and its place in the queue.                                              *)
Queued == Cardinality(UNION {{s} \X (1 .. Length(s)) : s \in Slots})
Held == Cardinality({c \in Clients : held[c] # NULL})
BuffersConserved ==
    /\ freePkt + Queued + Held = Packets
    /\ freeMsg + Queued + Held + others + restarts + (IF mpc = "run" THEN 0 ELSE 1) = Msgs

(* What a client is sent are packets received since its queue was made,     *)
(* oldest first and none twice, and a slot has one client at a time.        *)
Owner == [s \in Slots |-> IF \E c \in Clients : Owns(c, s)
                          THEN CHOOSE c \in Clients : Owns(c, s) ELSE NULL]
Served == {c \in Clients : \/ wpc[c] \notin {"new", "accepted", "rejected"}
                           \/ spc = "spawn" /\ client = c}
Promise == INSTANCE SlotTable WITH owner <- Owner, served <- Served
(* The threads together implement module SlotTable.                         *)
SlotTableSpec == Promise!Spec

(* A worker told to stop by the server's exit does so, whatever its queue   *)
(* holds and whatever a new server does meanwhile.                          *)
WorkersStop ==
    \A c \in Clients : Active(c) /\ ~wrun[wslot[c]] ~> wpc[c] = "gone"

(* A restart that main has begun comes to an end: main never joins a server *)
(* that sits in srt_accept, which its flag cannot wake.                     *)
RestartCompletes == mpc # "run" ~> mpc = "run"

(* The event of a failed srt_listen says "restarting" (srthub.c:1508): the  *)
(* service listens again.                                                   *)
ListenFailureRestarts == spc = "failed" ~> spc = "bind"
=============================================================================

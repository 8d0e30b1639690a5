----------------------------- MODULE PushServer -----------------------------
(***************************************************************************)
(* UDP in, SRT out, with the hub as the SRT caller that pushes to one      *)
(* destination (source/srthub.c).                                          *)
(*                                                                         *)
(*   server    srt_server_thread_push: connects, makes a queue, sends what *)
(*             is queued; when the connection has gone bad it connects     *)
(*             again, and when that fails it detaches its queue, empties   *)
(*             it and starts over; when the connection is lost it asks     *)
(*             main for a restart and ends                                 *)
(*   receiver  udp_receiver_thread: copies each datagram into the queue,   *)
(*             if there is one                                             *)
(*   main      stops, joins and starts both threads on a restart message   *)
(*                                                                         *)
(* The socket does not block, so a connect that succeeds has only begun.   *)
(* The loop that connects does not look at the stop flag.                  *)
(***************************************************************************)
EXTENDS Sequences, Integers

CONSTANTS
    Packets, Msgs,  \* the sizes of packetpool and msgpool
    NULL,
    MaxPackets,     \* bound: the datagrams received
    MaxOthers       \* bound: the messages audio and video frames tie up

ASSUME PoolsAssumption == Packets \in Nat /\ Msgs \in Nat
ASSUME BoundsAssumption == MaxPackets \in Nat /\ MaxOthers \in Nat
ASSUME NullAssumption == NULL \notin Seq(Nat) \cup Nat

VARIABLES
    mpc, restarts,      \* main, and the restart messages in msgqueue
    srun, spc, held,    \* the server: its flag, where it is, its packet
    local,              \* the queue it has detached, or NULL
    last, since,        \* history: the newest packet sent, and the newest one
                        \*          handed around before the queue was made
    rrun, rpc, npkt,    \* the receiver, and the datagrams received
    queue,              \* srtserverqueue[0]: NULL, or the packets, front first
    freePkt, freeMsg, others

main == <<mpc, restarts>>
server == <<srun, spc, held, local, last, since>>
receiver == <<rrun, rpc, npkt>>
pools == <<freePkt, freeMsg, others>>
vars == <<main, server, receiver, queue, pools>>

Init ==
    /\ mpc = "run" /\ restarts = 0
    /\ srun = TRUE /\ spc = "socket" /\ held = NULL /\ local = NULL
    /\ last = 0 /\ since = 0
    /\ rrun = TRUE /\ rpc = "wait" /\ npkt = 0
    /\ queue = NULL
    /\ freePkt = Packets /\ freeMsg = Msgs /\ others = 0

Length(q) == IF q = NULL THEN 0 ELSE Len(q)

-----------------------------------------------------------------------------
(* The server: getting a connection                                        *)

Goes(from, to) ==
    /\ spc = from /\ spc' = to
    /\ UNCHANGED <<main, srun, last, since, receiver>>

Keeps == UNCHANGED <<held, local, queue, pools>>

(* A socket is created; if it cannot be, the thread just ends.              *)
Socket == Keeps /\ \E to \in {"connect", "exited"} : Goes("socket", to)

(* The options are set and the connection is begun. An option that is       *)
(* refused ends the thread; a connect that fails is tried again after a     *)
(* second with a new socket.                                                *)
Connect == Keeps /\ \E to \in {"create", "socket", "cleanup"} : Goes("connect", to)

CreateQueue ==
    /\ spc = "create"
    /\ spc' = "take"
    /\ queue' = <<>>
    /\ since' = IF rpc = "copy" THEN npkt - 1 ELSE npkt
    /\ UNCHANGED <<main, srun, held, local, last, receiver, pools>>

-----------------------------------------------------------------------------
(* The server: sending                                                     *)

(* dataqueue_take_back under the lock, tried every millisecond while the    *)
(* flag is up.                                                              *)
Take ==
    /\ spc = "take"
    /\ IF Length(queue) > 0
       THEN /\ spc' = "got"
            /\ held' = queue[Len(queue)]
            /\ queue' = SubSeq(queue, 1, Len(queue) - 1)
       ELSE ~srun /\ spc' = "cleanup" /\ UNCHANGED <<held, queue>>
    /\ UNCHANGED <<main, srun, local, last, since, receiver, pools>>

(* Both buffers of the packet in hand go back.                              *)
PutDown ==
    /\ held' = NULL
    /\ freePkt' = freePkt + 1 /\ freeMsg' = freeMsg + 1
    /\ UNCHANGED <<local, queue, others>>

(* The flag is looked at once more. No run finds it down: main clears it    *)
(* for a restart, which in this pipeline only this thread asks for.         *)
CheckFlag ==
    IF srun THEN Goes("got", "send") /\ Keeps
            ELSE Goes("got", "cleanup") /\ PutDown

(* srt_sendmsg2 sends the packet.                                           *)
Send ==
    /\ spc = "send" /\ spc' = "take"
    /\ last' = held
    /\ PutDown
    /\ UNCHANGED <<main, srun, since, receiver>>

(* It sends nothing, or fails in a way that is only logged.                 *)
SendFails == Goes("send", "take") /\ PutDown

(* There is no connection (any more, or yet): a second later the server     *)
(* connects again on the same socket.                                       *)
NoConnection == Goes("send", "reconnect") /\ Keeps
Reconnects == Goes("reconnect", "take") /\ PutDown
ReconnectFails == Goes("reconnect", "detach") /\ PutDown

(* The queue is taken out of the receiver's reach, under the lock.          *)
QueueAfterDetachKept == queue
QueueAfterDetach == NULL
Detach ==
    /\ Goes("detach", "drain")
    /\ local' = queue
    /\ queue' = QueueAfterDetach
    /\ UNCHANGED <<held, pools>>

Drain ==
    /\ Goes("drain", "drain")
    /\ Length(local) > 0
    /\ local' = SubSeq(local, 1, Len(local) - 1)
    /\ freePkt' = freePkt + 1 /\ freeMsg' = freeMsg + 1
    /\ UNCHANGED <<held, queue, others>>

(* It is destroyed, and the server starts over.                             *)
Drained == Length(local) = 0
StartOver ==
    /\ Drained
    /\ Goes("drain", "socket")
    /\ local' = NULL
    /\ UNCHANGED <<held, queue, pools>>

(* The connection is lost: send_restart_message comes before the packet is  *)
(* put down, so it finds no message if the pool is empty.                   *)
ConnectionLost ==
    /\ spc = "send" /\ spc' = "lost"
    /\ IF freeMsg > 0
       THEN restarts' = restarts + 1 /\ freeMsg' = freeMsg - 1
       ELSE UNCHANGED <<restarts, freeMsg>>
    /\ UNCHANGED <<mpc, srun, held, local, last, since, receiver, queue, freePkt, others>>

AfterLostRetries == "detach"
AfterLost == "cleanup"
Ends == Goes("lost", AfterLost) /\ PutDown

(* Under the lock, the queue, if there is one, is emptied and destroyed.    *)
ServerExits ==
    /\ Goes("cleanup", "exited")
    /\ queue' = NULL
    /\ freePkt' = freePkt + Length(queue) /\ freeMsg' = freeMsg + Length(queue)
    /\ UNCHANGED <<held, local, others>>

-----------------------------------------------------------------------------
(* The receiver                                                            *)

Receive ==
    /\ rpc = "wait" /\ rrun /\ npkt < MaxPackets
    /\ npkt' = npkt + 1 /\ rpc' = "copy"
    /\ UNCHANGED <<main, server, rrun, queue, pools>>

(* dataqueue_put_front                                                      *)
AddAtBack(q, p) == Append(q, p)
Add(q, p) == <<p>> \o q

(* Under the lock: a packet buffer and a message are taken for the queue;   *)
(* a packet buffer that finds no message is returned.                       *)
Copy ==
    /\ rpc = "copy" /\ rpc' = "wait"
    /\ IF queue # NULL /\ freePkt > 0 /\ freeMsg > 0
       THEN /\ queue' = Add(queue, npkt)
            /\ freePkt' = freePkt - 1 /\ freeMsg' = freeMsg - 1
            /\ UNCHANGED others
       ELSE UNCHANGED <<queue, pools>>
    /\ UNCHANGED <<main, server, rrun, npkt>>

(* Frames decoded from a datagram take messages of the same pool; the audio *)
(* and thumbnail threads give them back.                                    *)
Borrow ==
    /\ rpc = "wait" /\ rrun /\ others < MaxOthers /\ freeMsg > 0
    /\ others' = others + 1 /\ freeMsg' = freeMsg - 1
    /\ UNCHANGED <<main, server, receiver, queue, freePkt>>

GiveBack ==
    /\ others > 0
    /\ others' = others - 1 /\ freeMsg' = freeMsg + 1
    /\ UNCHANGED <<main, server, receiver, queue, freePkt>>

ReceiverExits ==
    /\ rpc = "wait" /\ ~rrun
    /\ rpc' = "exited"
    /\ UNCHANGED <<main, server, rrun, npkt, queue, pools>>

-----------------------------------------------------------------------------
(* main                                                                    *)

StopReceiver ==
    /\ mpc = "run" /\ restarts > 0
    /\ mpc' = "joinReceiver" /\ restarts' = restarts - 1
    /\ rrun' = FALSE
    /\ UNCHANGED <<server, rpc, npkt, queue, pools>>

StopServer ==
    /\ mpc = "joinReceiver" /\ rpc = "exited"
    /\ mpc' = "joinServer"
    /\ srun' = FALSE
    /\ UNCHANGED <<restarts, spc, held, local, last, since, receiver, queue, pools>>

Restart ==
    /\ mpc = "joinServer" /\ spc = "exited"
    /\ mpc' = "run" /\ freeMsg' = freeMsg + 1
    /\ srun' = TRUE /\ spc' = "socket"
    /\ rrun' = TRUE /\ rpc' = "wait"
    /\ UNCHANGED <<restarts, held, local, last, since, npkt, queue, freePkt, others>>

-----------------------------------------------------------------------------
ServerSteps ==
    \/ Socket \/ Connect \/ CreateQueue
    \/ Take \/ CheckFlag
    \/ Send \/ SendFails \/ NoConnection \/ Reconnects \/ ReconnectFails
    \/ Detach \/ Drain \/ StartOver
    \/ ConnectionLost \/ Ends \/ ServerExits
ReceiverSteps == Copy \/ ReceiverExits
MainSteps == StopReceiver \/ StopServer \/ Restart

Next == ServerSteps \/ Receive \/ Borrow \/ GiveBack \/ ReceiverSteps \/ MainSteps

(* The threads are scheduled. Whether a connect or a send succeeds is the   *)
(* peer's choice, for ever if it likes; no datagram need come.              *)
Spec ==
    /\ Init /\ [][Next]_vars
    /\ WF_vars(ServerSteps) /\ WF_vars(ReceiverSteps) /\ WF_vars(MainSteps)

-----------------------------------------------------------------------------
(* Properties                                                              *)

(* Every field has its type; no pool gives out more than it has.            *)
TypeOK ==
    /\ mpc \in {"run", "joinReceiver", "joinServer"} /\ restarts \in {0, 1}
    /\ {srun, rrun} \subseteq BOOLEAN
    /\ spc \in {"socket", "connect", "create", "take", "got", "send", "reconnect",
                "detach", "drain", "lost", "cleanup", "exited"}
    /\ rpc \in {"wait", "copy", "exited"}
    /\ held \in (1 .. MaxPackets) \cup {NULL}
    /\ {queue, local} \subseteq Seq(1 .. MaxPackets) \cup {NULL}
    /\ {npkt, last, since} \subseteq 0 .. MaxPackets
    /\ freePkt \in 0 .. Packets /\ freeMsg \in 0 .. Msgs /\ others \in 0 .. MaxOthers

(* A queue exists only while the server is connected or about to destroy    *)
(* it: the server never makes one over another, never ends or starts over   *)
(* with one in the receiver's reach, and a restart finds none.              *)
NoQueueLeftBehind ==
    /\ queue # NULL => spc \in {"take", "got", "send", "reconnect", "detach", "lost", "cleanup"}
    /\ local # NULL => spc = "drain"
    /\ held # NULL <=> spc \in {"got", "send", "reconnect", "lost"}

(* Every buffer is in its pool, in the queue or the detached one, in the    *)
(* server's hands, with a frame or, a message, on its way to main: no       *)
(* outcome of a send, a reconnection or a stop loses one.                   *)
InHand == IF held = NULL THEN 0 ELSE 1
AtMain == IF mpc = "run" THEN 0 ELSE 1
BuffersConserved ==
    /\ freePkt + Length(queue) + Length(local) + InHand = Packets
    /\ freeMsg + Length(queue) + Length(local) + InHand + others + restarts
       + AtMain = Msgs

(* main clears the server's flag only when the server has asked for a       *)
(* restart and is on its way out, so the stop never reaches a server that   *)
(* connects or sends, where nothing would look at it.                       *)
Leaving == {"lost", "cleanup", "exited"}
StopFollowsRequest ==
    /\ restarts # 0 => mpc = "run" /\ spc \in Leaving
    /\ mpc # "run" => restarts = 0 /\ spc \in Leaving
    /\ ~srun => mpc = "joinServer"

(* The queue holds its packets newest first, all newer than the one in hand *)
(* and than any sent, and none older than the queue itself.                 *)
Handled == IF rpc = "copy" THEN npkt - 1 ELSE npkt
Fresh(p) == last < p /\ since < p /\ p <= Handled
InOrder ==
    /\ rpc = "copy" => npkt > 0
    /\ last <= Handled /\ since <= Handled
    /\ held # NULL => Fresh(held)
    /\ queue # NULL => \A i \in 1 .. Len(queue) :
          /\ Fresh(queue[i])
          /\ held # NULL => held < queue[i]
          /\ \A j \in 1 .. (i - 1) : queue[i] < queue[j]

(* The inductive invariant.                                                 *)
Inv ==
    /\ TypeOK /\ NoQueueLeftBehind /\ BuffersConserved
    /\ StopFollowsRequest /\ InOrder

(* Packets leave in the order they came in, none twice; and once the server *)
(* has started over, only packets that came in since.                       *)
NoStaleOutput == [][last' # last => last' > last /\ last' > since]_vars

(* A restart that main has begun comes to an end: the server that main      *)
(* joins is never one that is trying to connect, which would go on as long  *)
(* as the peer is away.                                                     *)
RestartCompletes == mpc # "run" ~> mpc = "run"
=============================================================================

------------------------------ MODULE SrtToUdp ------------------------------
(***************************************************************************)
(* SRT in, UDP out (source/srthub.c), and the restart of all its threads.  *)
(*                                                                         *)
(*   receiver    srt_receiver_thread_listener or srt_receiver_thread_caller*)
(*               queues each packet for the UDP output; decoding it may    *)
(*               call receive_frame, which queues audio and video frames   *)
(*   udp server  udp_server_thread: sends what is queued                   *)
(*   thumbnail   srthub_thumbnail_thread, which receive_frame starts with  *)
(*               a pool of its own (videopool) at the first video frame    *)
(*   audio       srthub_audio_thread; the hub runs eight alike, of which   *)
(*               one is modelled                                           *)
(*   main        on a restart message, stops and joins the threads one     *)
(*               after another, destroys videopool, starts all again       *)
(*                                                                         *)
(* Every error of the receiver ends its thread, most of them after a       *)
(* restart message that is taken from the same pool as everything else.    *)
(***************************************************************************)
EXTENDS Sequences, Integers

CONSTANTS
    Msgs, Packets, Videos, Audios,  \* the sizes of the four pools
    MaxPackets, \* bound: the packets received
    MaxFails    \* bound: the errors of the receiver

ASSUME PoolsAssumption == {Msgs, Packets, Videos, Audios} \subseteq Nat \ {0}
ASSUME BoundsAssumption == MaxPackets \in Nat /\ MaxFails \in Nat

VARIABLES
    caller,                 \* the configured mode: the receiver calls, or listens
    mpc, restarts,          \* main, and the restart messages in msgqueue
    rrun, rpc,              \* the receiver
    npkt, fails,            \* the packets received, the errors met
    urun, upc, uheld, uqueue,   \* the UDP server, its packet (0: none), udpserverqueue
    last,                   \* history: the newest packet sent
    before,                 \* history: the packets received before the last restart
    flagged,                \* signal_outage_flagged
    trun, tpc, theld, tqueue,   \* the thumbnail thread, its frame, thumbnailqueue
    gen, vpool,             \* how many videopools were made; which one lives (0: none)
    arun, apc, aheld, aqueue,   \* the audio thread, its frame, audiodecodequeue
    freeMsg, freePkt, freeVid, freeAud  \* buffers left in the pools

main == <<mpc, restarts>>
receiver == <<caller, rrun, rpc, npkt, fails>>
udp == <<urun, upc, uheld, uqueue, last, flagged>>
thumb == <<trun, tpc, theld, tqueue>>
video == <<gen, vpool>>
audio == <<arun, apc, aheld, aqueue>>
pools == <<freeMsg, freePkt, freeVid, freeAud>>
vars == <<main, receiver, udp, before, thumb, video, audio, pools>>

(* A frame queued for the thumbnail thread is named by the videopool its    *)
(* buffer is from; audio frames are all alike and are counted.              *)
Init ==
    /\ caller \in BOOLEAN
    /\ mpc = "run" /\ restarts = 0
    /\ rrun = TRUE /\ rpc = "setup" /\ npkt = 0 /\ fails = 0
    /\ urun = TRUE /\ upc = "wait" /\ uheld = 0 /\ uqueue = <<>>
    /\ last = 0 /\ before = 0 /\ flagged = FALSE
    /\ trun = FALSE /\ tpc = "none" /\ theld = 0 /\ tqueue = <<>>
    /\ gen = 0 /\ vpool = 0
    /\ arun = TRUE /\ apc = "wait" /\ aheld = 0 /\ aqueue = 0
    /\ freeMsg = Msgs /\ freePkt = Packets /\ freeVid = 0 /\ freeAud = Audios

PutFront(q, x) == <<x>> \o q
Oldest(q) == q[Len(q)]
WithoutOldest(q) == SubSeq(q, 1, Len(q) - 1)

-----------------------------------------------------------------------------
(* The receiver                                                            *)

Goes(from, to) ==
    /\ rpc = from /\ rpc' = to
    /\ UNCHANGED <<main, caller, rrun, npkt, udp, before, thumb, video, audio, pools>>

(* The receiver's loops end the thread when its flag is clear.              *)
IfRunning(state) == IF rrun THEN state ELSE "exited"

(* The listener has its port; the caller has its socket and has connected.  *)
SetUp ==
    /\ Goes("setup", IF caller THEN "recv" ELSE IfRunning("listen"))
    /\ UNCHANGED fails

(* A caller that cannot set up its socket leaves, with no restart message.  *)
SetUpFails ==
    /\ caller /\ fails < MaxFails
    /\ Goes("setup", "exited")
    /\ fails' = fails + 1

(* The listener listens, and accepts a source.                              *)
Listen == Goes("listen", IfRunning("accept")) /\ UNCHANGED fails

Accept == Goes("accept", "recv") /\ UNCHANGED fails

(* srt_listen or srt_accept fails; the connection is lost, errs, or has     *)
(* been missing for five seconds.                                           *)
Errs ==
    /\ fails < MaxFails
    /\ \/ rrun /\ Goes("listen", "report")
       \/ Goes("accept", "report")
       \/ rrun /\ Goes("recv", "report")
    /\ fails' = fails + 1

(* Less than five seconds without connection: the listener listens anew,    *)
(* the caller, whose socket does not block, tries to receive again.         *)
Retries ==
    /\ Goes("recv", IfRunning(IF caller THEN "recv" ELSE "listen"))
    /\ UNCHANGED fails

(* send_restart_message: without a free message nothing is sent. Then the   *)
(* thread ends.                                                             *)
AfterReportGoesOn == IF caller THEN "recv" ELSE "listen"
AfterReport == "exited"
Report ==
    /\ rpc = "report"
    /\ rpc' = AfterReport
    /\ IF freeMsg > 0
       THEN restarts' = restarts + 1 /\ freeMsg' = freeMsg - 1
       ELSE UNCHANGED <<restarts, freeMsg>>
    /\ UNCHANGED <<mpc, caller, rrun, npkt, fails, udp, before, thumb, video, audio,
                   freePkt, freeVid, freeAud>>

(* A packet comes in and is decoded.                                        *)
Arrive ==
    /\ rpc = "recv" /\ rrun /\ npkt < MaxPackets
    /\ rpc' = "decode"
    /\ npkt' = npkt + 1
    /\ UNCHANGED <<main, caller, rrun, fails, udp, before, thumb, video, audio, pools>>

(* receive_frame meets its first video frame since the last restart.        *)
InitVideo ==
    /\ rpc = "decode" /\ vpool = 0
    /\ gen' = gen + 1 /\ vpool' = gen + 1 /\ freeVid' = Videos
    /\ trun' = TRUE /\ tpc' = "wait"
    /\ UNCHANGED <<main, receiver, udp, before, theld, tqueue, audio,
                   freeMsg, freePkt, freeAud>>

(* A video frame is queued if there are a message and a buffer for it; a    *)
(* message taken in vain is returned.                                       *)
VideoFrame ==
    /\ rpc = "decode" /\ vpool # 0
    /\ freeMsg > 0 /\ freeVid > 0
    /\ tqueue' = PutFront(tqueue, vpool)
    /\ freeMsg' = freeMsg - 1 /\ freeVid' = freeVid - 1
    /\ UNCHANGED <<main, receiver, udp, before, trun, tpc, theld, video, audio,
                   freePkt, freeAud>>

AudioFrame ==
    /\ rpc = "decode"
    /\ freeMsg > 0 /\ freeAud > 0
    /\ aqueue' = aqueue + 1
    /\ freeMsg' = freeMsg - 1 /\ freeAud' = freeAud - 1
    /\ UNCHANGED <<main, receiver, udp, before, thumb, video, arun, apc, aheld,
                   freePkt, freeVid>>

(* A message taken for a packet that finds no buffer goes back.             *)
MsgsAfterNoPacketLeaked == IF freeMsg > 0 THEN freeMsg - 1 ELSE freeMsg
MsgsAfterNoPacket == freeMsg

(* The packet is queued for the output, message first, then buffer.         *)
Forward ==
    /\ rpc = "decode"
    /\ rpc' = IfRunning("recv")
    /\ IF freeMsg > 0 /\ freePkt > 0
       THEN /\ uqueue' = PutFront(uqueue, npkt)
            /\ freeMsg' = freeMsg - 1 /\ freePkt' = freePkt - 1
       ELSE freeMsg' = MsgsAfterNoPacket /\ UNCHANGED <<uqueue, freePkt>>
    /\ UNCHANGED <<main, caller, rrun, npkt, fails, urun, upc, uheld, last, flagged,
                   before, thumb, video, audio, freeVid, freeAud>>

-----------------------------------------------------------------------------
(* The UDP server                                                          *)

UnchangedByUdp == <<main, receiver, urun, before, thumb, video, audio>>

(* dataqueue_take_back_wait returns a packet, or nothing once told to stop; *)
(* the loop's own look at the flag may come first.                          *)
UdpTake ==
    /\ upc = "wait" /\ urun /\ uqueue # <<>>
    /\ upc' = "got"
    /\ uheld' = Oldest(uqueue) /\ uqueue' = WithoutOldest(uqueue)
    /\ UNCHANGED <<UnchangedByUdp, last, flagged, pools>>

UdpTold ==
    /\ upc = "wait" /\ ~urun
    /\ \E to \in {"got", "drain"} : upc' = to
    /\ UNCHANGED <<UnchangedByUdp, uheld, uqueue, last, flagged, pools>>

(* The buffers a thread gives back with what it holds.                      *)
ReturnedAlways(x) == 1
Returned(x) == IF x = 0 THEN 0 ELSE 1

(* A packet that was taken is sent, or dropped if the send fails or the     *)
(* thread has been told to stop meanwhile. Nothing taken, and not told to   *)
(* stop: after two seconds the outage is signalled.                         *)
Sends == uheld # 0 /\ urun
UdpHandle ==
    /\ upc = "got"
    /\ upc' = IF urun THEN "wait" ELSE "drain"
    /\ \E sent \in {Sends, FALSE} :
        /\ last' = IF sent THEN uheld ELSE last
        /\ flagged' = IF sent THEN FALSE
                      ELSE flagged \/ (uheld = 0 /\ urun)
    /\ uheld' = 0
    /\ freeMsg' = freeMsg + Returned(uheld)
    /\ freePkt' = freePkt + Returned(uheld)
    /\ UNCHANGED <<UnchangedByUdp, uqueue, freeVid, freeAud>>

(* Before it ends, the thread returns what is queued.                       *)
UdpDrain ==
    /\ upc = "drain" /\ uqueue # <<>>
    /\ uqueue' = WithoutOldest(uqueue)
    /\ freeMsg' = freeMsg + 1 /\ freePkt' = freePkt + 1
    /\ UNCHANGED <<UnchangedByUdp, upc, uheld, last, flagged, freeVid, freeAud>>

UdpDrainedAnyhow == TRUE
UdpDrained == uqueue = <<>>
UdpEnds ==
    /\ upc = "drain" /\ UdpDrained
    /\ upc' = "exited"
    /\ UNCHANGED <<UnchangedByUdp, uheld, uqueue, last, flagged, pools>>

-----------------------------------------------------------------------------
(* The thumbnail thread                                                    *)

UnchangedByThumb == <<main, receiver, udp, before, trun, video, audio, freePkt, freeAud>>

ThumbTake ==
    /\ tpc = "wait" /\ trun /\ tqueue # <<>>
    /\ tpc' = "got"
    /\ theld' = Oldest(tqueue) /\ tqueue' = WithoutOldest(tqueue)
    /\ UNCHANGED <<UnchangedByThumb, freeMsg, freeVid>>

ThumbTold ==
    /\ tpc = "wait" /\ ~trun
    /\ tpc' = "drain"
    /\ UNCHANGED <<UnchangedByThumb, theld, tqueue, freeMsg, freeVid>>

(* The frame is decoded, or dropped after a stop; its buffers go back.      *)
ThumbHandle ==
    /\ tpc = "got"
    /\ tpc' = IF trun THEN "wait" ELSE "drain"
    /\ theld' = 0
    /\ freeMsg' = freeMsg + 1 /\ freeVid' = freeVid + 1
    /\ UNCHANGED <<UnchangedByThumb, tqueue>>

ThumbDrain ==
    /\ tpc = "drain" /\ tqueue # <<>>
    /\ tqueue' = WithoutOldest(tqueue)
    /\ freeMsg' = freeMsg + 1 /\ freeVid' = freeVid + 1
    /\ UNCHANGED <<UnchangedByThumb, tpc, theld>>

ThumbEnds ==
    /\ tpc = "drain" /\ tqueue = <<>>
    /\ tpc' = "exited"
    /\ UNCHANGED <<UnchangedByThumb, theld, tqueue, freeMsg, freeVid>>

-----------------------------------------------------------------------------
(* The audio thread                                                        *)

UnchangedByAudio == <<main, receiver, udp, before, thumb, video, arun, freePkt, freeVid>>

AudioTake ==
    /\ apc = "wait" /\ arun /\ aqueue > 0
    /\ apc' = "got"
    /\ aheld' = 1 /\ aqueue' = aqueue - 1
    /\ UNCHANGED <<UnchangedByAudio, freeMsg, freeAud>>

AudioHandle ==
    /\ apc = "got"
    /\ apc' = IF arun THEN "wait" ELSE "exited"
    /\ aheld' = 0
    /\ freeMsg' = freeMsg + 1 /\ freeAud' = freeAud + 1
    /\ UNCHANGED <<UnchangedByAudio, aqueue>>

(* It ends without emptying its queue, which its successor will.            *)
AudioEnds ==
    /\ apc = "wait" /\ ~arun
    /\ apc' = "exited"
    /\ UNCHANGED <<UnchangedByAudio, aheld, aqueue, freeMsg, freeAud>>

-----------------------------------------------------------------------------
(* main                                                                    *)

UnchangedByMain == <<caller, npkt, fails, upc, uheld, uqueue, last, flagged, tpc, theld,
                     tqueue, gen, apc, aheld, aqueue, freePkt, freeAud>>

StopReceiver ==
    /\ mpc = "run" /\ restarts > 0
    /\ restarts' = restarts - 1
    /\ rrun' = FALSE /\ mpc' = "joinReceiver"
    /\ UNCHANGED <<UnchangedByMain, rpc, urun, before, trun, vpool, arun, freeMsg, freeVid>>

(* The receiver has ended; the UDP server's flag is cleared.                *)
UdpFlagForgotten == urun
UdpFlag == FALSE
StopUdp ==
    /\ mpc = "joinReceiver" /\ rpc = "exited"
    /\ urun' = UdpFlag /\ mpc' = "joinUdp"
    /\ UNCHANGED <<UnchangedByMain, restarts, rrun, rpc, before, trun, vpool, arun, freeMsg, freeVid>>

(* The thumbnail thread is stopped only if there is one.                    *)
StopThumb ==
    /\ mpc = "joinUdp" /\ upc = "exited"
    /\ IF vpool # 0
       THEN trun' = FALSE /\ mpc' = "joinThumb" /\ UNCHANGED arun
       ELSE arun' = FALSE /\ mpc' = "joinAudio" /\ UNCHANGED trun
    /\ UNCHANGED <<UnchangedByMain, restarts, rrun, rpc, urun, before, vpool, freeMsg, freeVid>>

(* videopool is destroyed behind the thumbnail thread.                      *)
ThumbJoinedAtOnce == TRUE
ThumbJoined == tpc = "exited"
StopAudio ==
    /\ mpc = "joinThumb" /\ ThumbJoined
    /\ vpool' = 0 /\ freeVid' = 0
    /\ arun' = FALSE /\ mpc' = "joinAudio"
    /\ UNCHANGED <<UnchangedByMain, restarts, rrun, rpc, urun, before, trun, freeMsg>>

Restart ==
    /\ mpc = "joinAudio" /\ apc = "exited"
    /\ mpc' = "run" /\ freeMsg' = freeMsg + 1
    /\ arun' = TRUE /\ apc' = "wait"
    /\ urun' = TRUE /\ upc' = "wait" /\ flagged' = FALSE
    /\ rrun' = TRUE /\ rpc' = "setup"
    /\ before' = npkt
    /\ UNCHANGED <<caller, restarts, npkt, fails, uheld, uqueue, last, thumb, video,
                   aheld, aqueue, freePkt, freeVid, freeAud>>

-----------------------------------------------------------------------------
ReceiverWaits == SetUp \/ SetUpFails \/ Accept \/ Errs \/ Retries \/ Arrive
ReceiverSteps == Listen \/ Report \/ Forward \/ (caller /\ Retries)
Frames == InitVideo \/ VideoFrame \/ AudioFrame
UdpSteps == UdpTake \/ UdpTold \/ UdpHandle \/ UdpDrain \/ UdpEnds
ThumbSteps == ThumbTake \/ ThumbTold \/ ThumbHandle \/ ThumbDrain \/ ThumbEnds
AudioSteps == AudioTake \/ AudioHandle \/ AudioEnds
MainSteps == StopReceiver \/ StopUdp \/ StopThumb \/ StopAudio \/ Restart

Next ==
    \/ ReceiverWaits \/ ReceiverSteps \/ Frames
    \/ UdpSteps \/ ThumbSteps \/ AudioSteps \/ MainSteps

Spec == Init /\ [][Next]_vars

(* Every thread that does not wait for the network is scheduled.            *)
FairSpec ==
    /\ Spec
    /\ WF_vars(ReceiverSteps) /\ WF_vars(UdpSteps) /\ WF_vars(ThumbSteps)
    /\ WF_vars(AudioSteps) /\ WF_vars(MainSteps)

-----------------------------------------------------------------------------
(* Properties                                                              *)

(* Every field has its type; no pool gives out more than it has.            *)
TypeOK ==
    /\ mpc \in {"run", "joinReceiver", "joinUdp", "joinThumb", "joinAudio"}
    /\ restarts \in 0 .. MaxFails
    /\ {caller, rrun, urun, trun, arun, flagged} \subseteq BOOLEAN
    /\ rpc \in {"setup", "listen", "accept", "recv", "decode", "report",
                "exited"}
    /\ upc \in {"wait", "got", "drain", "exited"}
    /\ tpc \in {"none", "wait", "got", "drain", "exited"}
    /\ apc \in {"wait", "got", "exited"}
    /\ {npkt, uheld, last, before} \subseteq 0 .. MaxPackets
    /\ fails \in 0 .. MaxFails
    /\ uqueue \in Seq(1 .. MaxPackets)
    /\ gen \in Nat /\ {vpool, theld} \subseteq 0 .. gen /\ tqueue \in Seq(1 .. gen)
    /\ aheld \in {0, 1} /\ aqueue \in 0 .. Audios
    /\ freeMsg \in 0 .. Msgs /\ freePkt \in 0 .. Packets
    /\ freeVid \in 0 .. Videos /\ freeAud \in 0 .. Audios

(* Every buffer is in its pool, queued or in a thread's hands: no error     *)
(* path, stop or restart loses one. Audio frames outlive a restart.         *)
Holds(x) == IF x = 0 THEN 0 ELSE 1
BuffersConserved ==
    /\ freePkt + Len(uqueue) + Holds(uheld) = Packets
    /\ freeAud + aqueue + aheld = Audios
    /\ vpool # 0 => freeVid + Len(tqueue) + Holds(theld) = Videos
    /\ freeMsg + Len(uqueue) + Holds(uheld) + Len(tqueue) + Holds(theld)
       + aqueue + aheld + restarts + (IF mpc = "run" THEN 0 ELSE 1) = Msgs

(* Every video frame queued or being decoded lies in the videopool that     *)
(* lives: main never destroys it under a frame, and a frame of one pool is  *)
(* never returned to the next.                                              *)
VideoBuffersLive ==
    /\ theld # 0 => theld = vpool
    /\ \A i \in 1 .. Len(tqueue) : tqueue[i] = vpool
    /\ vpool = 0 => tqueue = <<>> /\ tpc \in {"none", "exited"}

(* Packets leave in the order they came in, none twice, and none from       *)
(* before a restart leaves after it.                                        *)
NoStaleOutput == [][last' # last => last' > last /\ last' > before]_vars

(* A restart comes to an end: every thread that main joins stops, and main  *)
(* never joins a receiver that sits in srt_accept or receives on.           *)
RestartCompletes == mpc # "run" ~> mpc = "run"

(* The output that has run dry raises the signal "No Data on SRT            *)
(* Connection" (srthub.c:2264-2286), unless packets arrive or it is         *)
(* stopped.                                                                 *)
NoDataReported ==
    upc = "wait" /\ uqueue = <<>> ~> flagged \/ uqueue # <<>> \/ ~urun
=============================================================================

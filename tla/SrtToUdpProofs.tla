--------------------------- MODULE SrtToUdpProofs ---------------------------
(***************************************************************************)
(* Proofs about the SRT receiver, its outputs and the restart of all its   *)
(* threads, for pools of any size and any number of packets, frames and    *)
(* errors: no buffer is lost, no frame outlives the pool its buffer is     *)
(* from, and packets leave in order and never from before a restart.       *)
(***************************************************************************)
EXTENDS SrtToUdp, SequenceTheorems, TLAPS

-----------------------------------------------------------------------------
(* The inductive invariant                                                 *)

Numbers == 1 .. MaxPackets

(* TypeOK without the upper bounds that only the balance of the pools and  *)
(* of the errors gives.                                                    *)
Shape ==
    /\ mpc \in {"run", "joinReceiver", "joinUdp", "joinThumb", "joinAudio"}
    /\ caller \in BOOLEAN /\ flagged \in BOOLEAN
    /\ rrun \in BOOLEAN /\ urun \in BOOLEAN /\ trun \in BOOLEAN /\ arun \in BOOLEAN
    /\ rpc \in {"setup", "listen", "accept", "recv", "decode", "report",
                "exited"}
    /\ upc \in {"wait", "got", "drain", "exited"}
    /\ tpc \in {"none", "wait", "got", "drain", "exited"}
    /\ apc \in {"wait", "got", "exited"}
    /\ npkt \in 0 .. MaxPackets /\ uheld \in 0 .. MaxPackets
    /\ last \in 0 .. MaxPackets /\ before \in 0 .. MaxPackets
    /\ fails \in 0 .. MaxFails /\ restarts \in Nat
    /\ uqueue \in Seq(Numbers)
    /\ gen \in Nat /\ vpool \in 0 .. gen /\ theld \in 0 .. gen /\ tqueue \in Seq(1 .. gen)
    /\ aheld \in {0, 1} /\ aqueue \in Nat
    /\ freeMsg \in Nat /\ freePkt \in Nat /\ freeVid \in Nat /\ freeAud \in Nat

(* How far main is with a restart tells which threads run, which have been *)
(* told to stop and which have ended. A restart message follows an error.  *)
Phase ==
    /\ rrun <=> mpc = "run"
    /\ urun <=> mpc \in {"run", "joinReceiver"}
    /\ trun <=> vpool # 0 /\ mpc # "joinThumb"
    /\ arun <=> mpc # "joinAudio"
    /\ mpc = "joinThumb" => vpool # 0
    /\ mpc = "joinAudio" => vpool = 0
    /\ mpc \in {"joinUdp", "joinThumb", "joinAudio"} => rpc = "exited"
    /\ mpc \in {"joinThumb", "joinAudio"} => upc = "exited"
    /\ urun => upc \in {"wait", "got"}
    /\ trun => tpc \in {"wait", "got"}
    /\ arun => apc # "exited"
    /\ restarts + (IF rpc = "report" THEN 1 ELSE 0) <= fails

(* A thread holds something only while it handles it, and one that ends    *)
(* has emptied its queue; the audio thread is the exception.               *)
Hands ==
    /\ uheld # 0 => upc = "got"
    /\ theld # 0 <=> tpc = "got"
    /\ aheld = 1 <=> apc = "got"
    /\ upc = "exited" => uqueue = <<>>
    /\ tpc = "none" => vpool = 0
    /\ tpc \in {"none", "exited"} => tqueue = <<>>
    /\ vpool = 0 => freeVid = 0

(* The packets received that have been queued, or dropped.                 *)
Handled == IF rpc = "decode" THEN npkt - 1 ELSE npkt
Fresh(p) == last < p /\ before < p /\ p <= Handled

(* What is queued or taken is newer than what was sent and than the last   *)
(* restart, and the queue is newest first.                                 *)
InOrder ==
    /\ rpc = "decode" => npkt > 0
    /\ last <= Handled /\ before <= Handled
    /\ uheld # 0 => Fresh(uheld)
    /\ \A i \in 1 .. Len(uqueue) :
        /\ Fresh(uqueue[i]) /\ uheld < uqueue[i]
        /\ \A j \in 1 .. i - 1 : uqueue[i] < uqueue[j]

IInv == Shape /\ Phase /\ Hands /\ InOrder /\ BuffersConserved /\ VideoBuffersLive

-----------------------------------------------------------------------------
(* Queues                                                                  *)

(* What is put in front of a queue.                                        *)
LEMMA PutFrontFacts ==
  ASSUME NEW S, NEW q \in Seq(S), NEW x \in S
  PROVE  /\ PutFront(q, x) \in Seq(S) /\ Len(PutFront(q, x)) = Len(q) + 1
         /\ PutFront(q, x)[1] = x
         /\ \A i \in 2 .. Len(q) + 1 : PutFront(q, x)[i] = q[i - 1]
<1>1. <<x>> \in Seq(S) /\ Len(<<x>>) = 1 /\ <<x>>[1] = x
  OBVIOUS
<1>2. Len(q) \in Nat
  BY LenProperties
<1> QED BY <1>1, <1>2, ConcatProperties DEF PutFront

(* The oldest entry, and the queue without it.                             *)
LEMMA OldestFacts ==
  ASSUME NEW S, NEW q \in Seq(S), q # <<>>
  PROVE  /\ Len(q) \in Nat \ {0} /\ Oldest(q) = q[Len(q)] /\ Oldest(q) \in S
         /\ WithoutOldest(q) \in Seq(S) /\ Len(WithoutOldest(q)) = Len(q) - 1
         /\ \A i \in 1 .. Len(q) - 1 : WithoutOldest(q)[i] = q[i]
<1>1. Len(q) \in Nat \ {0} /\ \A i \in 1 .. Len(q) : q[i] \in S
  BY EmptySeq, ElementOfSeq
<1>2. \A i \in 1 .. Len(q) - 1 : q[i] \in S
  BY <1>1
<1>3. /\ SubSeq(q, 1, Len(q) - 1) \in Seq(S)
      /\ Len(SubSeq(q, 1, Len(q) - 1)) = IF 1 <= Len(q) - 1 THEN (Len(q) - 1) - 1 + 1 ELSE 0
      /\ \A i \in 1 .. (Len(q) - 1) - 1 + 1 : SubSeq(q, 1, Len(q) - 1)[i] = q[1 + i - 1]
  <2>1. 1 \in Int /\ Len(q) - 1 \in Int
    BY <1>1
  <2> QED BY <1>2, <2>1, SubSeqProperties
<1>4. \A k \in Nat \ {0} : /\ (IF 1 <= k - 1 THEN (k - 1) - 1 + 1 ELSE 0) = k - 1
                           /\ (k - 1) - 1 + 1 = k - 1
                           /\ \A i \in 1 .. k - 1 : 1 + i - 1 = i
  OBVIOUS
<1>5. Len(SubSeq(q, 1, Len(q) - 1)) = Len(q) - 1
  BY <1>1, <1>3, <1>4
<1>6. \A i \in 1 .. Len(q) - 1 : SubSeq(q, 1, Len(q) - 1)[i] = q[i]
  BY <1>1, <1>3, <1>4
<1>7. Oldest(q) \in S
  BY <1>1 DEF Oldest
<1> QED BY <1>1, <1>3, <1>5, <1>6, <1>7 DEF WithoutOldest, Oldest

(* What every step starts from.                                            *)
LEMMA Facts ==
  ASSUME Shape
  PROVE  /\ Len(uqueue) \in Nat /\ Len(tqueue) \in Nat /\ Len(<<>>) = 0
         /\ Holds(uheld) = Returned(uheld) /\ Holds(uheld) \in {0, 1}
         /\ Holds(theld) \in {0, 1} /\ Holds(0) = 0 /\ Returned(0) = 0
         /\ Msgs \in Nat \ {0} /\ Packets \in Nat \ {0}
         /\ Videos \in Nat \ {0} /\ Audios \in Nat \ {0}
         /\ MaxPackets \in Nat /\ MaxFails \in Nat
         /\ uqueue = <<>> <=> Len(uqueue) = 0
         /\ tqueue = <<>> <=> Len(tqueue) = 0
         /\ restarts \in Nat /\ aqueue \in Nat /\ aheld \in Nat /\ freeMsg \in Nat
         /\ freePkt \in Nat /\ freeVid \in Nat /\ freeAud \in Nat
<1>1. uqueue \in Seq(Numbers) /\ tqueue \in Seq(1 .. gen)
  BY DEF Shape
<1>2. Len(uqueue) \in Nat /\ Len(tqueue) \in Nat /\ Len(<<>>) = 0
  BY <1>1, LenProperties
<1>3. (uqueue = <<>> <=> Len(uqueue) = 0) /\ (tqueue = <<>> <=> Len(tqueue) = 0)
  BY <1>1, EmptySeq
<1> QED BY <1>2, <1>3, PoolsAssumption, BoundsAssumption DEF Shape, Holds, Returned

(* What the balance of the pools adds up.                                  *)
UdpQueued == Len(uqueue)
UdpHeld == Holds(uheld)
ThumbQueued == Len(tqueue)
ThumbHeld == Holds(theld)
AtMain == IF mpc = "run" THEN 0 ELSE 1

LEMMA Counts ==
  ASSUME IInv
  PROVE  /\ UdpQueued \in Nat /\ UdpHeld \in Nat /\ ThumbQueued \in Nat /\ ThumbHeld \in Nat
         /\ AtMain \in Nat /\ aqueue \in Nat /\ aheld \in Nat /\ restarts \in Nat
         /\ freeMsg \in Nat /\ freePkt \in Nat /\ freeVid \in Nat /\ freeAud \in Nat
<1>1. Shape
  BY DEF IInv
<1> QED BY <1>1, Facts DEF UdpQueued, UdpHeld, ThumbQueued, ThumbHeld, AtMain, Shape

(* A step that moves buffers without losing one keeps the balance.         *)
LEMMA Balanced ==
  ASSUME IInv, vpool' \in {0, vpool},
         freePkt' + UdpQueued' + UdpHeld' = freePkt + UdpQueued + UdpHeld,
         freeAud' + aqueue' + aheld' = freeAud + aqueue + aheld,
         vpool' # 0 => freeVid' + ThumbQueued' + ThumbHeld' = freeVid + ThumbQueued + ThumbHeld,
         freeMsg' + UdpQueued' + UdpHeld' + ThumbQueued' + ThumbHeld' + aqueue' + aheld'
           + restarts' + AtMain'
         = freeMsg + UdpQueued + UdpHeld + ThumbQueued + ThumbHeld + aqueue + aheld
           + restarts + AtMain
  PROVE  BuffersConserved'
BY DEF IInv, BuffersConserved, UdpQueued, UdpHeld, ThumbQueued, ThumbHeld, AtMain

-----------------------------------------------------------------------------
(* A step that does not touch the output keeps its order.                  *)
LEMMA OrderKept ==
  ASSUME IInv, UNCHANGED <<npkt, uheld, uqueue, last, before>>, rpc # "decode" \/ rpc' = rpc,
         rpc' # "decode" \/ rpc' = rpc
  PROVE  InOrder'
BY DEF IInv, InOrder, Handled, Fresh

LEMMA InitInv == Init => IInv
<1> SUFFICES ASSUME Init PROVE IInv
  OBVIOUS
<1> USE PoolsAssumption, BoundsAssumption DEF Init
<1>1. uqueue \in Seq(Numbers) /\ tqueue \in Seq(1 .. gen) /\ Len(uqueue) = 0 /\ Len(tqueue) = 0
  BY EmptySeq
<1>2. Shape
  <2>1. Msgs \in Nat /\ Packets \in Nat /\ Audios \in Nat
    OBVIOUS
  <2>2. 0 \in 0 .. MaxPackets /\ 0 \in 0 .. MaxFails /\ 0 \in 0 .. gen
    OBVIOUS
  <2> QED BY <1>1, <2>1, <2>2 DEF Shape
<1>3. Phase /\ Hands
  BY DEF Phase, Hands
<1>4. InOrder
  BY <1>1 DEF InOrder, Handled
<1>5. BuffersConserved
  BY <1>1 DEF BuffersConserved, Holds
<1>6. VideoBuffersLive
  BY <1>1 DEF VideoBuffersLive
<1> QED BY <1>2, <1>3, <1>4, <1>5, <1>6 DEF IInv

-----------------------------------------------------------------------------
(* The receiver                                                            *)

(* The steps that only move the receiver or count an error.                *)
LEMMA ReceiverMovesInv ==
  ASSUME IInv, SetUp \/ SetUpFails \/ Listen \/ Accept \/ Errs \/ Retries
  PROVE  IInv'
<1>1. /\ rpc \in {"setup", "listen", "accept", "recv"}
      /\ rpc' \in {"listen", "accept", "recv", "report", "exited"}
      /\ fails' \in 0 .. MaxFails /\ fails' >= fails
      /\ rpc' = "report" => fails' = fails + 1
      /\ UNCHANGED <<mpc, restarts, caller, rrun, npkt, urun, upc, uheld, uqueue, last,
                     flagged, before, trun, tpc, theld, tqueue, gen, vpool, arun, apc,
                     aheld, aqueue, freeMsg, freePkt, freeVid, freeAud>>
  <2>1. fails \in 0 .. MaxFails /\ fails \in Nat /\ MaxFails \in Nat
    BY BoundsAssumption DEF IInv, Shape
  <2> USE <2>1 DEF Goes, IfRunning, main, udp, thumb, video, audio, pools
  <2>2. CASE SetUp
    BY <2>2 DEF SetUp
  <2>3. CASE SetUpFails
    BY <2>3 DEF SetUpFails
  <2>4. CASE Listen
    BY <2>4 DEF Listen
  <2>5. CASE Accept
    BY <2>5 DEF Accept
  <2>6. CASE Errs
    BY <2>6 DEF Errs
  <2>7. CASE Retries
    BY <2>7 DEF Retries
  <2> QED BY <2>2, <2>3, <2>4, <2>5, <2>6, <2>7
<1>0. Shape /\ Phase /\ Hands /\ InOrder /\ BuffersConserved /\ VideoBuffersLive
  BY DEF IInv
<1> USE <1>0
<1>2. Shape'
  BY <1>1 DEF Shape
<1>3. Phase'
  BY <1>1, Facts DEF Shape, Phase
<1>4. Hands'
  BY <1>1 DEF Hands
<1>5. InOrder'
  BY <1>1, OrderKept
<1>6. BuffersConserved' /\ VideoBuffersLive'
  BY <1>1 DEF BuffersConserved, VideoBuffersLive, Holds
<1> QED BY <1>2, <1>3, <1>4, <1>5, <1>6 DEF IInv

LEMMA ReportInv ==
  ASSUME IInv, Report
  PROVE  IInv'
<1>1. /\ rpc = "report" /\ rpc' = "exited"
      /\ restarts' \in Nat /\ freeMsg' \in Nat
      /\ restarts' <= restarts + 1 /\ freeMsg' + restarts' = freeMsg + restarts
      /\ UNCHANGED <<mpc, caller, rrun, npkt, fails, urun, upc, uheld, uqueue, last,
                     flagged, before, trun, tpc, theld, tqueue, gen, vpool, arun, apc,
                     aheld, aqueue, freePkt, freeVid, freeAud>>
  <2>1. restarts \in Nat /\ freeMsg \in Nat
    BY DEF IInv, Shape
  <2>2. CASE freeMsg > 0
    BY <2>1, <2>2 DEF Report, AfterReport, udp, thumb, video, audio
  <2>3. CASE ~(freeMsg > 0)
    BY <2>1, <2>3 DEF Report, AfterReport, udp, thumb, video, audio
  <2> QED BY <2>2, <2>3
<1>0. Shape /\ Phase /\ Hands /\ InOrder /\ BuffersConserved /\ VideoBuffersLive
  BY DEF IInv
<1> USE <1>0
<1>2. Shape'
  BY <1>1 DEF Shape
<1>3. Phase'
  <2>1. restarts + 1 <= fails /\ restarts \in Nat /\ fails \in 0 .. MaxFails
    BY <1>1 DEF Shape, Phase
  <2>2. fails \in Nat
    BY <2>1, BoundsAssumption
  <2>3. restarts' \in Nat /\ restarts' <= restarts + 1 /\ fails' = fails
    BY <1>1
  <2>4. \A a, b, c \in Nat : a <= b + 1 /\ b + 1 <= c => a + 0 <= c
    OBVIOUS
  <2>5. restarts' + 0 <= fails'
    BY <2>1, <2>2, <2>3, <2>4, Zenon
  <2> QED BY <1>1, <2>5 DEF Phase
<1>4. Hands'
  BY <1>1 DEF Hands
<1>5. InOrder'
  BY <1>1, OrderKept
<1>6. BuffersConserved'
  <2>1. UNCHANGED <<UdpQueued, UdpHeld, ThumbQueued, ThumbHeld, AtMain>>
    BY <1>1 DEF UdpQueued, UdpHeld, ThumbQueued, ThumbHeld, AtMain, Holds
  <2> QED BY <1>1, <2>1, Counts, Balanced
<1>7. VideoBuffersLive'
  BY <1>1 DEF VideoBuffersLive
<1> QED BY <1>2, <1>3, <1>4, <1>5, <1>6, <1>7 DEF IInv

LEMMA ArriveInv ==
  ASSUME IInv, Arrive
  PROVE  IInv'
<1>0. Shape /\ Phase /\ Hands /\ InOrder /\ BuffersConserved /\ VideoBuffersLive
  BY DEF IInv
<1> USE <1>0 DEF Arrive, main, udp, thumb, video, audio, pools
<1>1. Shape'
  BY Facts DEF Shape
<1>2. Phase'
  BY Facts DEF Shape, Phase
<1>3. Hands'
  BY DEF Hands
<1>4. InOrder'
  <2>1. Handled' = Handled /\ npkt' > 0
    BY DEF Handled, Shape
  <2> QED BY <2>1 DEF InOrder, Fresh
<1>5. BuffersConserved' /\ VideoBuffersLive'
  BY DEF BuffersConserved, VideoBuffersLive
<1> QED BY <1>1, <1>2, <1>3, <1>4, <1>5 DEF IInv

(* The first video frame makes the pool and starts its thread.             *)
LEMMA InitVideoInv ==
  ASSUME IInv, InitVideo
  PROVE  IInv'
<1>0. Shape /\ Phase /\ Hands /\ InOrder /\ BuffersConserved /\ VideoBuffersLive
  BY DEF IInv
<1> USE <1>0 DEF InitVideo, main, receiver, udp, audio
<1>1. tqueue = <<>> /\ tpc \in {"none", "exited"} /\ theld = 0
  BY DEF VideoBuffersLive, Hands
<1>2. mpc \in {"run", "joinReceiver"}
  BY DEF Phase, Shape
<1>3. Shape'
  <2>1. tqueue' \in Seq(1 .. gen')
    BY <1>1, EmptySeq
  <2> QED BY <1>1, <2>1, Facts DEF Shape
<1>4. Phase'
  BY <1>2, Facts DEF Shape, Phase
<1>5. Hands'
  BY <1>1, Facts DEF Hands, Shape
<1>6. InOrder'
  BY OrderKept
<1>7. BuffersConserved'
  BY <1>1, Facts DEF BuffersConserved
<1>8. VideoBuffersLive'
  BY <1>1, Facts DEF VideoBuffersLive, Shape
<1> QED BY <1>3, <1>4, <1>5, <1>6, <1>7, <1>8 DEF IInv

LEMMA VideoFrameInv ==
  ASSUME IInv, VideoFrame
  PROVE  IInv'
<1>0. Shape /\ Phase /\ Hands /\ InOrder /\ BuffersConserved /\ VideoBuffersLive
  BY DEF IInv
<1> USE <1>0 DEF VideoFrame, main, receiver, udp, video, audio
<1>1. vpool \in 1 .. gen /\ tqueue \in Seq(1 .. gen)
  BY DEF Shape
<1>2. /\ tqueue' \in Seq(1 .. gen) /\ Len(tqueue') = Len(tqueue) + 1
      /\ \A i \in 1 .. Len(tqueue') : tqueue'[i] = vpool
  <2>1. /\ tqueue' \in Seq(1 .. gen) /\ Len(tqueue') = Len(tqueue) + 1
        /\ tqueue'[1] = vpool
        /\ \A i \in 2 .. Len(tqueue) + 1 : tqueue'[i] = tqueue[i - 1]
    BY <1>1, PutFrontFacts
  <2>2. ASSUME NEW i \in 2 .. Len(tqueue) + 1
        PROVE  tqueue'[i] = vpool
    <3>1. i - 1 \in 1 .. Len(tqueue)
      BY Facts
    <3> QED BY <2>1, <3>1 DEF VideoBuffersLive
  <2>3. \A i \in 1 .. Len(tqueue) + 1 : i = 1 \/ i \in 2 .. Len(tqueue) + 1
    BY Facts
  <2> QED BY <2>1, <2>2, <2>3
<1>3. Shape'
  BY <1>2, Facts DEF Shape
<1>4. Phase'
  BY Facts DEF Shape, Phase
<1>5. Hands'
  BY DEF Hands, Phase
<1>6. InOrder'
  BY OrderKept
<1>7. BuffersConserved'
  <2>1. /\ ThumbQueued' = ThumbQueued + 1
        /\ UNCHANGED <<UdpQueued, UdpHeld, ThumbHeld, AtMain>>
    BY <1>2 DEF UdpQueued, UdpHeld, ThumbQueued, ThumbHeld, AtMain, Holds
  <2> QED BY <2>1, Counts, Balanced
<1>8. VideoBuffersLive'
  BY <1>2 DEF VideoBuffersLive
<1> QED BY <1>3, <1>4, <1>5, <1>6, <1>7, <1>8 DEF IInv

LEMMA AudioFrameInv ==
  ASSUME IInv, AudioFrame
  PROVE  IInv'
<1>0. Shape /\ Phase /\ Hands /\ InOrder /\ BuffersConserved /\ VideoBuffersLive
  BY DEF IInv
<1> USE <1>0 DEF AudioFrame, main, receiver, udp, thumb, video
<1>1. Shape'
  BY Facts DEF Shape
<1>2. Phase' /\ Hands'
  BY DEF Phase, Hands
<1>3. InOrder'
  BY OrderKept
<1>4. BuffersConserved'
  <2>1. UNCHANGED <<UdpQueued, UdpHeld, ThumbQueued, ThumbHeld, AtMain>>
    BY DEF UdpQueued, UdpHeld, ThumbQueued, ThumbHeld, AtMain, Holds
  <2> QED BY <2>1, Counts, Balanced
<1>5. VideoBuffersLive'
  BY DEF VideoBuffersLive
<1> QED BY <1>1, <1>2, <1>3, <1>4, <1>5 DEF IInv

(* The packet just received is newer than everything in the queue.          *)
LEMMA NewestInFront ==
  ASSUME IInv, rpc = "decode", rpc' # "decode", uqueue' = PutFront(uqueue, npkt),
         UNCHANGED <<npkt, uheld, last, before>>
  PROVE  InOrder'
<1>1. /\ uqueue \in Seq(Numbers) /\ npkt \in Numbers
      /\ npkt \in Nat /\ uheld \in Nat /\ last \in Nat /\ before \in Nat
  BY BoundsAssumption DEF IInv, Shape, InOrder, Numbers
<1>2. /\ Len(uqueue) \in Nat /\ Len(uqueue') = Len(uqueue) + 1
      /\ uqueue'[1] = npkt
      /\ \A i \in 2 .. Len(uqueue) + 1 : uqueue'[i] = uqueue[i - 1]
  <2>1. Len(uqueue) \in Nat
    BY <1>1, LenProperties
  <2>2. uqueue \in Seq(Numbers) /\ npkt \in Numbers
    BY <1>1
  <2>3. /\ Len(uqueue') = Len(uqueue) + 1 /\ uqueue'[1] = npkt
        /\ \A i \in 2 .. Len(uqueue) + 1 : uqueue'[i] = uqueue[i - 1]
    BY <2>2, PutFrontFacts
  <2> QED BY <2>1, <2>3
<1>3. Handled = npkt - 1 /\ Handled' = npkt
  BY DEF Handled
<1>4. \A i \in 1 .. Len(uqueue) : uqueue[i] \in Nat
  <2>1. \A i \in 1 .. Len(uqueue) : uqueue[i] \in Numbers
    BY <1>1, ElementOfSeq
  <2> QED BY <2>1, BoundsAssumption DEF Numbers
<1>5. ASSUME NEW k \in 1 .. Len(uqueue)
      PROVE  /\ last' < uqueue[k] /\ before' < uqueue[k] /\ uqueue[k] < npkt
             /\ uheld' < uqueue[k]
             /\ \A j \in 1 .. k - 1 : uqueue[k] < uqueue[j]
  BY <1>1, <1>3, <1>4 DEF IInv, InOrder, Fresh
<1>6. last' < npkt /\ before' < npkt /\ uheld' < npkt
  BY <1>1, <1>3 DEF IInv, InOrder, Fresh
<1>7. ASSUME NEW i \in 1 .. Len(uqueue')
      PROVE  /\ last' < uqueue'[i] /\ before' < uqueue'[i] /\ uqueue'[i] <= npkt
             /\ uheld' < uqueue'[i]
             /\ \A j \in 1 .. i - 1 : uqueue'[i] < uqueue'[j]
  <2>1. CASE i = 1
    <3>1. 1 .. i - 1 = {}
      BY <2>1
    <3> QED BY <1>1, <1>2, <1>6, <2>1, <3>1
  <2>2. CASE i # 1
    <3> DEFINE k == i - 1
    <3>1. k \in 1 .. Len(uqueue) /\ uqueue'[i] = uqueue[k] /\ uqueue[k] \in Nat
      BY <1>2, <1>4, <2>2
    <3>2. ASSUME NEW j \in 1 .. i - 1
          PROVE  uqueue[k] < uqueue'[j]
      <4>1. CASE j = 1
        BY <1>2, <1>5, <3>1, <4>1
      <4>2. CASE j # 1
        <5>1. j \in 2 .. Len(uqueue) + 1 /\ j - 1 \in 1 .. k - 1
          BY <1>2, <4>2
        <5>2. uqueue'[j] = uqueue[j - 1]
          BY <1>2, <5>1
        <5> HIDE DEF k
        <5> QED BY <1>5, <3>1, <5>1, <5>2
      <4> QED BY <4>1, <4>2
    <3> HIDE DEF k
    <3>3. uqueue[k] <= npkt
      BY <1>1, <1>5, <3>1
    <3> QED BY <1>5, <3>1, <3>2, <3>3
  <2> QED BY <2>1, <2>2
<1>8. /\ last' <= Handled' /\ before' <= Handled'
      /\ uheld' # 0 => Fresh(uheld)'
  BY <1>1, <1>3, <1>6 DEF IInv, InOrder, Fresh
<1> QED BY <1>3, <1>7, <1>8 DEF InOrder, Fresh

LEMMA ForwardInv ==
  ASSUME IInv, Forward
  PROVE  IInv'
<1>0. Shape /\ Phase /\ Hands /\ InOrder /\ BuffersConserved /\ VideoBuffersLive
  BY DEF IInv
<1> USE <1>0
<1>1. /\ rpc = "decode" /\ rpc' \in {"recv", "exited"}
      /\ UNCHANGED <<mpc, restarts, caller, rrun, npkt, fails, urun, upc, uheld, last,
                     flagged, before, trun, tpc, theld, tqueue, gen, vpool, arun, apc,
                     aheld, aqueue, freeVid, freeAud>>
  BY DEF Forward, IfRunning, main, thumb, video, audio
<1>2. urun /\ mpc \in {"run", "joinReceiver"}
  BY <1>1 DEF Shape, Phase
<1>3. CASE freeMsg > 0 /\ freePkt > 0
  <2>1. /\ uqueue' = PutFront(uqueue, npkt)
        /\ freeMsg' = freeMsg - 1 /\ freePkt' = freePkt - 1
    BY <1>3 DEF Forward
  <2>2. npkt \in Numbers /\ uqueue \in Seq(Numbers)
    BY <1>1 DEF InOrder, Shape, Numbers
  <2>3. uqueue' \in Seq(Numbers) /\ Len(uqueue') = Len(uqueue) + 1
    BY <2>1, <2>2, PutFrontFacts
  <2>4. Shape'
    BY <1>1, <1>3, <2>1, <2>3, Facts DEF Shape
  <2>5. Phase'
    BY <1>1, Facts DEF Shape, Phase
  <2>6. Hands'
    BY <1>1, <1>2 DEF Hands, Phase
  <2>7. InOrder'
    BY <1>1, <2>1, NewestInFront
  <2>8. BuffersConserved'
    <3>1. /\ UdpQueued' = UdpQueued + 1
          /\ UNCHANGED <<UdpHeld, ThumbQueued, ThumbHeld, AtMain>>
      BY <1>1, <2>3 DEF UdpQueued, UdpHeld, ThumbQueued, ThumbHeld, AtMain, Holds
    <3> QED BY <1>1, <2>1, <3>1, Counts, Balanced
  <2>9. VideoBuffersLive'
    BY <1>1 DEF VideoBuffersLive
  <2> QED BY <2>4, <2>5, <2>6, <2>7, <2>8, <2>9 DEF IInv
<1>4. CASE ~(freeMsg > 0 /\ freePkt > 0)
  <2>1. UNCHANGED <<uqueue, freeMsg, freePkt>>
    BY <1>4 DEF Forward, MsgsAfterNoPacket
  <2>2. Shape' /\ Phase' /\ Hands'
    BY <1>1, <2>1, Facts DEF Shape, Phase, Hands
  <2>3. InOrder'
    <3>1. \A p \in Int : Fresh(p) => Fresh(p)'
      BY <1>1 DEF Fresh, Handled, Shape
    <3>2. \A i \in 1 .. Len(uqueue) : uqueue[i] \in Int
      <4>1. uqueue \in Seq(Numbers)
        BY DEF Shape
      <4>2. \A i \in 1 .. Len(uqueue) : uqueue[i] \in Numbers
        BY <4>1, ElementOfSeq
      <4> QED BY <4>2, Facts DEF Numbers
    <3>3. last' <= Handled' /\ before' <= Handled' /\ uheld \in Int
      BY <1>1 DEF InOrder, Handled, Shape
    <3> QED BY <1>1, <2>1, <3>1, <3>2, <3>3 DEF InOrder
  <2>4. BuffersConserved' /\ VideoBuffersLive'
    BY <1>1, <2>1 DEF BuffersConserved, VideoBuffersLive
  <2> QED BY <2>2, <2>3, <2>4 DEF IInv
<1> QED BY <1>3, <1>4

-----------------------------------------------------------------------------
(* The UDP server                                                          *)

(* The oldest packet leaves the queue, into the thread's hands or not.     *)
LEMMA ShorterInOrder ==
  ASSUME IInv, uqueue # <<>>, uqueue' = WithoutOldest(uqueue),
         uheld' \in {uheld, Oldest(uqueue)}, UNCHANGED <<rpc, npkt, last, before>>
  PROVE  InOrder'
<1>1. uqueue \in Seq(Numbers) /\ InOrder /\ Handled' = Handled
  BY DEF IInv, Shape, Handled
<1>2. /\ Len(uqueue) \in Nat \ {0} /\ Oldest(uqueue) = uqueue[Len(uqueue)]
      /\ Len(uqueue') = Len(uqueue) - 1
      /\ \A i \in 1 .. Len(uqueue) - 1 : uqueue'[i] = uqueue[i]
  BY <1>1, OldestFacts
<1>3. \A p : Fresh(p)' <=> last < p /\ before < p /\ p <= Handled
  BY <1>1 DEF Fresh
<1>4. uheld' # 0 => Fresh(uheld)'
  BY <1>1, <1>2, <1>3 DEF InOrder, Fresh
<1>5. ASSUME NEW i \in 1 .. Len(uqueue')
      PROVE  /\ Fresh(uqueue[i])' /\ uheld' < uqueue[i]
             /\ \A j \in 1 .. i - 1 : uqueue[i] < uqueue'[j]
  <2>1. i \in 1 .. Len(uqueue) /\ i \in 1 .. Len(uqueue) - 1
    BY <1>2
  <2>2. Fresh(uqueue[i])
    BY <1>1, <2>1 DEF InOrder
  <2>3. i \in 1 .. Len(uqueue) - 1 /\ uqueue'[i] = uqueue[i]
    BY <1>2, <2>1
  <2>4. uheld' < uqueue[i]
    <3>1. uheld < uqueue[i]
      BY <1>1, <2>1 DEF InOrder
    <3>2. Len(uqueue) \in 1 .. Len(uqueue) /\ i \in 1 .. Len(uqueue) - 1
      BY <1>2, <2>1
    <3>3. uqueue[Len(uqueue)] < uqueue[i]
      BY <1>1, <3>2 DEF InOrder
    <3> QED BY <1>2, <3>1, <3>3
  <2>5. \A j \in 1 .. i - 1 : uqueue'[j] = uqueue[j]
    BY <1>2, <2>1
  <2>6. \A j \in 1 .. i - 1 : uqueue[i] < uqueue[j]
    BY <1>1, <2>1 DEF InOrder
  <2> QED BY <1>3, <2>2, <2>3, <2>4, <2>5, <2>6 DEF Fresh
<1>6. \A i \in 1 .. Len(uqueue') : uqueue'[i] = uqueue[i]
  BY <1>2
<1> QED BY <1>1, <1>4, <1>5, <1>6 DEF InOrder, Fresh

LEMMA UdpTakeInv ==
  ASSUME IInv, UdpTake
  PROVE  IInv'
<1>1. /\ upc = "wait" /\ upc' = "got" /\ urun /\ uqueue # <<>>
      /\ uheld' = Oldest(uqueue) /\ uqueue' = WithoutOldest(uqueue)
      /\ UNCHANGED <<mpc, restarts, caller, rrun, rpc, npkt, fails, urun, last, flagged,
                     before, trun, tpc, theld, tqueue, gen, vpool, arun, apc, aheld,
                     aqueue, freeMsg, freePkt, freeVid, freeAud>>
  BY DEF UdpTake, UnchangedByUdp, main, receiver, thumb, video, audio, pools
<1>0. Shape /\ Phase /\ Hands /\ InOrder /\ BuffersConserved /\ VideoBuffersLive
  BY DEF IInv
<1> USE <1>0
<1>2. /\ uheld = 0 /\ uheld' \in Numbers /\ uqueue' \in Seq(Numbers)
      /\ Len(uqueue') = Len(uqueue) - 1
  BY <1>1, OldestFacts DEF Hands, Shape
<1>3. uheld' \in 0 .. MaxPackets /\ uheld' # 0
  BY <1>2, BoundsAssumption DEF Numbers
<1>4. Shape'
  BY <1>1, <1>2, <1>3 DEF Shape
<1>5. Phase' /\ Hands' /\ VideoBuffersLive'
  BY <1>1 DEF Phase, Hands, VideoBuffersLive
<1>6. InOrder'
  BY <1>1, ShorterInOrder
<1>7. BuffersConserved'
  <2>1. /\ UdpQueued' = UdpQueued - 1 /\ UdpHeld = 0 /\ UdpHeld' = 1
        /\ UNCHANGED <<ThumbQueued, ThumbHeld, AtMain>>
    BY <1>1, <1>2, <1>3 DEF UdpQueued, UdpHeld, ThumbQueued, ThumbHeld, AtMain, Holds
  <2>2. freePkt' + UdpQueued' + UdpHeld' = freePkt + UdpQueued + UdpHeld
    BY <1>1, <2>1, Counts
  <2>3. freeVid' + ThumbQueued' + ThumbHeld' = freeVid + ThumbQueued + ThumbHeld
    BY <1>1, <2>1, Counts
  <2>4. freeMsg' + UdpQueued' + UdpHeld' + ThumbQueued' + ThumbHeld' + aqueue' + aheld'
          + restarts' + AtMain'
        = freeMsg + UdpQueued + UdpHeld + ThumbQueued + ThumbHeld + aqueue + aheld
          + restarts + AtMain
    BY <1>1, <2>1, Counts
  <2> QED BY <1>1, <2>2, <2>3, <2>4, Balanced
<1> QED BY <1>4, <1>5, <1>6, <1>7 DEF IInv

(* The thread is told to stop, or ends with its queue empty.               *)
LEMMA UdpMovesInv ==
  ASSUME IInv, UdpTold \/ UdpEnds
  PROVE  IInv'
<1>1. /\ \/ upc = "wait" /\ upc' \in {"got", "drain"} /\ ~urun
         \/ upc = "drain" /\ upc' = "exited" /\ uqueue = <<>>
      /\ UNCHANGED <<mpc, restarts, caller, rrun, rpc, npkt, fails, urun, uheld, uqueue,
                     last, flagged, before, trun, tpc, theld, tqueue, gen, vpool, arun,
                     apc, aheld, aqueue, freeMsg, freePkt, freeVid, freeAud>>
  BY DEF UdpTold, UdpEnds, UdpDrained, UnchangedByUdp, main, receiver, thumb, video, audio,
         pools
<1>0. Shape /\ Phase /\ Hands /\ InOrder /\ BuffersConserved /\ VideoBuffersLive
  BY DEF IInv
<1> USE <1>0
<1>2. Shape'
  BY <1>1 DEF Shape
<1>3. Phase'
  BY <1>1 DEF Phase, Shape
<1>4. Hands' /\ VideoBuffersLive'
  BY <1>1 DEF Hands, VideoBuffersLive
<1>5. InOrder'
  BY <1>1, OrderKept
<1>6. BuffersConserved'
  BY <1>1 DEF BuffersConserved, Holds
<1> QED BY <1>2, <1>3, <1>4, <1>5, <1>6 DEF IInv

(* Sent, or dropped because the send failed or a stop came first.          *)
LEMMA UdpHandleInv ==
  ASSUME IInv, UdpHandle
  PROVE  IInv'
<1>0. Shape /\ Phase /\ Hands /\ InOrder /\ BuffersConserved /\ VideoBuffersLive
  BY DEF IInv
<1> USE <1>0
<1>1. /\ upc = "got" /\ upc' = (IF urun THEN "wait" ELSE "drain")
      /\ last' \in {last, uheld} /\ (last' = uheld => uheld # 0 \/ last = 0)
      /\ flagged' \in BOOLEAN /\ uheld' = 0
      /\ freeMsg' = freeMsg + Returned(uheld) /\ freePkt' = freePkt + Returned(uheld)
      /\ UNCHANGED <<mpc, restarts, caller, rrun, rpc, npkt, fails, urun, uqueue,
                     before, trun, tpc, theld, tqueue, gen, vpool, arun, apc, aheld,
                     aqueue, freeVid, freeAud>>
  BY DEF UdpHandle, Sends, Shape, UnchangedByUdp, main, receiver, thumb, video, audio
<1>2. Returned(uheld) = UdpHeld /\ Returned(uheld) \in Nat
  BY DEF Returned, UdpHeld, Holds
<1>3. Shape'
  <2>1. 0 \in 0 .. MaxPackets
    BY BoundsAssumption
  <2>2. last' \in 0 .. MaxPackets /\ freeMsg' \in Nat /\ freePkt' \in Nat
    BY <1>1, <1>2 DEF Shape
  <2>3. upc' \in {"wait", "drain"}
    BY <1>1
  <2> QED BY <1>1, <2>1, <2>2, <2>3 DEF Shape
<1>4. Phase' /\ Hands' /\ VideoBuffersLive'
  BY <1>1 DEF Phase, Hands, VideoBuffersLive
<1>5. InOrder'
  <2>1. Handled' = Handled
    BY <1>1 DEF Handled
  <2>2. last' <= Handled
    BY <1>1 DEF InOrder, Fresh
  <2>3. ASSUME NEW i \in 1 .. Len(uqueue)
        PROVE  last' < uqueue[i] /\ 0 < uqueue[i]
    <3>1. uqueue[i] \in Numbers
      BY ElementOfSeq DEF Shape
    <3> QED BY <1>1, <3>1 DEF InOrder, Fresh, Numbers
  <2> QED BY <1>1, <2>1, <2>2, <2>3 DEF InOrder, Fresh
<1>6. BuffersConserved'
  <2>1. UdpHeld' = 0 /\ UNCHANGED <<UdpQueued, ThumbQueued, ThumbHeld, AtMain>>
    BY <1>1 DEF UdpQueued, UdpHeld, ThumbQueued, ThumbHeld, AtMain, Holds
  <2>2. freeMsg' = freeMsg + UdpHeld /\ freePkt' = freePkt + UdpHeld
    BY <1>1, <1>2
  <2> QED BY <1>1, <2>1, <2>2, Counts, Balanced
<1> QED BY <1>3, <1>4, <1>5, <1>6 DEF IInv

LEMMA UdpDrainInv ==
  ASSUME IInv, UdpDrain
  PROVE  IInv'
<1>1. /\ upc = "drain" /\ uqueue # <<>> /\ uqueue' = WithoutOldest(uqueue)
      /\ freeMsg' = freeMsg + 1 /\ freePkt' = freePkt + 1
      /\ UNCHANGED <<mpc, restarts, caller, rrun, rpc, npkt, fails, urun, upc, uheld,
                     last, flagged, before, trun, tpc, theld, tqueue, gen, vpool, arun,
                     apc, aheld, aqueue, freeVid, freeAud>>
  BY DEF UdpDrain, UnchangedByUdp, main, receiver, thumb, video, audio
<1>0. Shape /\ Phase /\ Hands /\ InOrder /\ BuffersConserved /\ VideoBuffersLive
  BY DEF IInv
<1> USE <1>0
<1>2. uqueue' \in Seq(Numbers) /\ Len(uqueue') = Len(uqueue) - 1
  BY <1>1, OldestFacts DEF Shape
<1>3. Shape'
  BY <1>1, <1>2 DEF Shape
<1>4. Phase' /\ Hands' /\ VideoBuffersLive'
  BY <1>1 DEF Phase, Hands, VideoBuffersLive
<1>5. InOrder'
  BY <1>1, ShorterInOrder
<1>6. BuffersConserved'
  <2>1. /\ UdpQueued' = UdpQueued - 1
        /\ UNCHANGED <<UdpHeld, ThumbQueued, ThumbHeld, AtMain>>
    BY <1>1, <1>2 DEF UdpQueued, UdpHeld, ThumbQueued, ThumbHeld, AtMain, Holds
  <2>2. freePkt' + UdpQueued' + UdpHeld' = freePkt + UdpQueued + UdpHeld
    BY <1>1, <2>1, Counts
  <2>3. freeVid' + ThumbQueued' + ThumbHeld' = freeVid + ThumbQueued + ThumbHeld
    BY <1>1, <2>1, Counts
  <2>4. freeMsg' + UdpQueued' + UdpHeld' + ThumbQueued' + ThumbHeld' + aqueue' + aheld'
          + restarts' + AtMain'
        = freeMsg + UdpQueued + UdpHeld + ThumbQueued + ThumbHeld + aqueue + aheld
          + restarts + AtMain
    BY <1>1, <2>1, Counts
  <2> QED BY <1>1, <2>2, <2>3, <2>4, Balanced
<1> QED BY <1>3, <1>4, <1>5, <1>6 DEF IInv

-----------------------------------------------------------------------------
(* The thumbnail thread                                                    *)

(* A thumbnail queue without its oldest frame.                             *)
LEMMA ThumbShorter ==
  ASSUME IInv, tqueue # <<>>
  PROVE  /\ Oldest(tqueue) = vpool /\ vpool # 0
         /\ WithoutOldest(tqueue) \in Seq(1 .. gen)
         /\ Len(WithoutOldest(tqueue)) = Len(tqueue) - 1
         /\ \A i \in 1 .. Len(WithoutOldest(tqueue)) : WithoutOldest(tqueue)[i] = vpool
<1>1. tqueue \in Seq(1 .. gen) /\ VideoBuffersLive
  BY DEF IInv, Shape
<1>2. /\ Len(tqueue) \in Nat \ {0} /\ Oldest(tqueue) = tqueue[Len(tqueue)]
      /\ WithoutOldest(tqueue) \in Seq(1 .. gen)
      /\ Len(WithoutOldest(tqueue)) = Len(tqueue) - 1
      /\ \A i \in 1 .. Len(tqueue) - 1 : WithoutOldest(tqueue)[i] = tqueue[i]
  BY <1>1, OldestFacts
<1>3. \A i \in 1 .. Len(tqueue) : tqueue[i] = vpool
  BY <1>1 DEF VideoBuffersLive
<1>4. Oldest(tqueue) = vpool
  BY <1>2, <1>3
<1>5. vpool # 0
  BY <1>1 DEF VideoBuffersLive
<1> QED BY <1>2, <1>3, <1>4, <1>5

LEMMA ThumbTakeInv ==
  ASSUME IInv, ThumbTake
  PROVE  IInv'
<1>1. /\ tpc = "wait" /\ tpc' = "got" /\ trun /\ tqueue # <<>>
      /\ theld' = Oldest(tqueue) /\ tqueue' = WithoutOldest(tqueue)
      /\ UNCHANGED <<mpc, restarts, caller, rrun, rpc, npkt, fails, urun, upc, uheld,
                     uqueue, last, flagged, before, trun, gen, vpool, arun, apc, aheld,
                     aqueue, freeMsg, freePkt, freeVid, freeAud>>
  BY DEF ThumbTake, UnchangedByThumb, main, receiver, udp, video, audio
<1>0. Shape /\ Phase /\ Hands /\ InOrder /\ BuffersConserved /\ VideoBuffersLive
  BY DEF IInv
<1> USE <1>0
<1>2. /\ theld = 0 /\ theld' = vpool /\ vpool # 0
      /\ tqueue' \in Seq(1 .. gen) /\ Len(tqueue') = Len(tqueue) - 1
      /\ \A i \in 1 .. Len(tqueue') : tqueue'[i] = vpool
  BY <1>1, ThumbShorter DEF Hands
<1>3. Shape'
  BY <1>1, <1>2 DEF Shape
<1>4. Phase' /\ Hands' /\ VideoBuffersLive'
  BY <1>1, <1>2 DEF Phase, Hands, VideoBuffersLive
<1>5. InOrder'
  BY <1>1, OrderKept
<1>6. BuffersConserved'
  <2>1. /\ ThumbQueued' = ThumbQueued - 1 /\ ThumbHeld = 0 /\ ThumbHeld' = 1
        /\ UNCHANGED <<UdpQueued, UdpHeld, AtMain>>
    BY <1>1, <1>2 DEF UdpQueued, UdpHeld, ThumbQueued, ThumbHeld, AtMain, Holds
  <2>2. freePkt' + UdpQueued' + UdpHeld' = freePkt + UdpQueued + UdpHeld
    BY <1>1, <2>1, Counts
  <2>3. freeVid' + ThumbQueued' + ThumbHeld' = freeVid + ThumbQueued + ThumbHeld
    BY <1>1, <2>1, Counts
  <2>4. freeMsg' + UdpQueued' + UdpHeld' + ThumbQueued' + ThumbHeld' + aqueue' + aheld'
          + restarts' + AtMain'
        = freeMsg + UdpQueued + UdpHeld + ThumbQueued + ThumbHeld + aqueue + aheld
          + restarts + AtMain
    BY <1>1, <2>1, Counts
  <2> QED BY <1>1, <2>2, <2>3, <2>4, Balanced
<1> QED BY <1>3, <1>4, <1>5, <1>6 DEF IInv

(* The thread is told to stop, or ends with its queue empty.               *)
LEMMA ThumbMovesInv ==
  ASSUME IInv, ThumbTold \/ ThumbEnds
  PROVE  IInv'
<1>1. /\ \/ tpc = "wait" /\ tpc' = "drain" /\ ~trun
         \/ tpc = "drain" /\ tpc' = "exited" /\ tqueue = <<>>
      /\ UNCHANGED <<mpc, restarts, caller, rrun, rpc, npkt, fails, urun, upc, uheld,
                     uqueue, last, flagged, before, trun, theld, tqueue, gen, vpool,
                     arun, apc, aheld, aqueue, freeMsg, freePkt, freeVid, freeAud>>
  BY DEF ThumbTold, ThumbEnds, UnchangedByThumb, main, receiver, udp, video, audio
<1>0. Shape /\ Phase /\ Hands /\ InOrder /\ BuffersConserved /\ VideoBuffersLive
  BY DEF IInv
<1> USE <1>0
<1>2. Shape'
  BY <1>1 DEF Shape
<1>3. Phase' /\ Hands' /\ VideoBuffersLive'
  BY <1>1 DEF Phase, Hands, VideoBuffersLive
<1>4. InOrder'
  BY <1>1, OrderKept
<1>5. BuffersConserved'
  BY <1>1 DEF BuffersConserved, Holds
<1> QED BY <1>2, <1>3, <1>4, <1>5 DEF IInv

LEMMA ThumbHandleInv ==
  ASSUME IInv, ThumbHandle
  PROVE  IInv'
<1>1. /\ tpc = "got" /\ tpc' = (IF trun THEN "wait" ELSE "drain") /\ theld' = 0
      /\ freeMsg' = freeMsg + 1 /\ freeVid' = freeVid + 1
      /\ UNCHANGED <<mpc, restarts, caller, rrun, rpc, npkt, fails, urun, upc, uheld,
                     uqueue, last, flagged, before, trun, tqueue, gen, vpool, arun, apc,
                     aheld, aqueue, freePkt, freeAud>>
  BY DEF ThumbHandle, UnchangedByThumb, main, receiver, udp, video, audio
<1>0. Shape /\ Phase /\ Hands /\ InOrder /\ BuffersConserved /\ VideoBuffersLive
  BY DEF IInv
<1> USE <1>0
<1>2. theld # 0 /\ vpool # 0
  BY <1>1 DEF Hands, VideoBuffersLive
<1>3. Shape'
  <2>1. 0 \in 0 .. gen /\ tpc' \in {"wait", "drain"}
    BY <1>1 DEF Shape
  <2> QED BY <1>1, <2>1 DEF Shape
<1>4. Phase' /\ Hands' /\ VideoBuffersLive'
  BY <1>1, <1>2 DEF Phase, Hands, VideoBuffersLive
<1>5. InOrder'
  BY <1>1, OrderKept
<1>6. BuffersConserved'
  <2>1. /\ ThumbHeld = 1 /\ ThumbHeld' = 0
        /\ UNCHANGED <<UdpQueued, UdpHeld, ThumbQueued, AtMain>>
    BY <1>1, <1>2 DEF UdpQueued, UdpHeld, ThumbQueued, ThumbHeld, AtMain, Holds
  <2> QED BY <1>1, <2>1, Counts, Balanced
<1> QED BY <1>3, <1>4, <1>5, <1>6 DEF IInv

LEMMA ThumbDrainInv ==
  ASSUME IInv, ThumbDrain
  PROVE  IInv'
<1>1. /\ tpc = "drain" /\ tqueue # <<>> /\ tqueue' = WithoutOldest(tqueue)
      /\ freeMsg' = freeMsg + 1 /\ freeVid' = freeVid + 1
      /\ UNCHANGED <<mpc, restarts, caller, rrun, rpc, npkt, fails, urun, upc, uheld,
                     uqueue, last, flagged, before, trun, tpc, theld, gen, vpool, arun,
                     apc, aheld, aqueue, freePkt, freeAud>>
  BY DEF ThumbDrain, UnchangedByThumb, main, receiver, udp, video, audio
<1>0. Shape /\ Phase /\ Hands /\ InOrder /\ BuffersConserved /\ VideoBuffersLive
  BY DEF IInv
<1> USE <1>0
<1>2. /\ vpool # 0 /\ tqueue' \in Seq(1 .. gen) /\ Len(tqueue') = Len(tqueue) - 1
      /\ \A i \in 1 .. Len(tqueue') : tqueue'[i] = vpool
  BY <1>1, ThumbShorter
<1>3. Shape'
  BY <1>1, <1>2 DEF Shape
<1>4. Phase' /\ Hands' /\ VideoBuffersLive'
  BY <1>1, <1>2 DEF Phase, Hands, VideoBuffersLive
<1>5. InOrder'
  BY <1>1, OrderKept
<1>6. BuffersConserved'
  <2>1. /\ ThumbQueued' = ThumbQueued - 1
        /\ UNCHANGED <<UdpQueued, UdpHeld, ThumbHeld, AtMain>>
    BY <1>1, <1>2 DEF UdpQueued, UdpHeld, ThumbQueued, ThumbHeld, AtMain, Holds
  <2>2. freePkt' + UdpQueued' + UdpHeld' = freePkt + UdpQueued + UdpHeld
    BY <1>1, <2>1, Counts
  <2>3. freeVid' + ThumbQueued' + ThumbHeld' = freeVid + ThumbQueued + ThumbHeld
    BY <1>1, <2>1, Counts
  <2>4. freeMsg' + UdpQueued' + UdpHeld' + ThumbQueued' + ThumbHeld' + aqueue' + aheld'
          + restarts' + AtMain'
        = freeMsg + UdpQueued + UdpHeld + ThumbQueued + ThumbHeld + aqueue + aheld
          + restarts + AtMain
    <3>1. freeMsg' = freeMsg + 1 /\ UNCHANGED <<aqueue, aheld, restarts>>
      BY <1>1
    <3> QED BY <2>1, <3>1, Counts
  <2> QED BY <1>1, <2>2, <2>3, <2>4, Balanced
<1> QED BY <1>3, <1>4, <1>5, <1>6 DEF IInv

-----------------------------------------------------------------------------
(* The audio thread                                                        *)

LEMMA AudioStepsInv ==
  ASSUME IInv, AudioSteps
  PROVE  IInv'
<1>0. Shape /\ Phase /\ Hands /\ InOrder /\ BuffersConserved /\ VideoBuffersLive
  BY DEF IInv
<1> USE <1>0
<1>1. /\ \/ /\ apc = "wait" /\ apc' = "got" /\ aheld = 0 /\ aheld' = 1
            /\ aqueue' = aqueue - 1 /\ aqueue > 0 /\ UNCHANGED <<freeMsg, freeAud>>
         \/ /\ apc = "got" /\ apc' = (IF arun THEN "wait" ELSE "exited") /\ aheld = 1 /\ aheld' = 0
            /\ freeMsg' = freeMsg + 1 /\ freeAud' = freeAud + 1 /\ UNCHANGED aqueue
         \/ /\ apc = "wait" /\ apc' = "exited" /\ ~arun
            /\ UNCHANGED <<aheld, aqueue, freeMsg, freeAud>>
      /\ UNCHANGED <<mpc, restarts, caller, rrun, rpc, npkt, fails, urun, upc, uheld,
                     uqueue, last, flagged, before, trun, tpc, theld, tqueue, gen,
                     vpool, arun, freePkt, freeVid>>
  BY DEF AudioSteps, AudioTake, AudioHandle, AudioEnds, UnchangedByAudio, Hands, Shape,
         main, receiver, udp, thumb, video
<1>2. Shape'
  <2>1. aheld' \in {0, 1}
    BY <1>1 DEF Shape
  <2>2. apc' \in {"wait", "got", "exited"}
    BY <1>1
  <2>3. aqueue \in Nat /\ freeMsg \in Nat /\ freeAud \in Nat
    BY DEF Shape
  <2>4. aqueue' \in Nat /\ freeMsg' \in Nat /\ freeAud' \in Nat
    BY <1>1, <2>3
  <2> QED BY <1>1, <2>1, <2>2, <2>4 DEF Shape
<1>3. Phase' /\ Hands' /\ VideoBuffersLive'
  BY <1>1 DEF Phase, Hands, VideoBuffersLive
<1>4. InOrder'
  BY <1>1, OrderKept
<1>5. BuffersConserved'
  <2>1. UNCHANGED <<UdpQueued, UdpHeld, ThumbQueued, ThumbHeld, AtMain>>
    BY <1>1 DEF UdpQueued, UdpHeld, ThumbQueued, ThumbHeld, AtMain, Holds
  <2> QED BY <1>1, <2>1, Counts, Balanced
<1> QED BY <1>2, <1>3, <1>4, <1>5 DEF IInv

-----------------------------------------------------------------------------
(* main                                                                    *)

LEMMA StopReceiverInv ==
  ASSUME IInv, StopReceiver
  PROVE  IInv'
<1>1. /\ mpc = "run" /\ mpc' = "joinReceiver" /\ restarts > 0 /\ restarts' = restarts - 1
      /\ rrun' = FALSE
      /\ UNCHANGED <<caller, rpc, npkt, fails, urun, upc, uheld, uqueue, last, flagged,
                     before, trun, tpc, theld, tqueue, gen, vpool, arun, apc, aheld,
                     aqueue, freeMsg, freePkt, freeVid, freeAud>>
  BY DEF StopReceiver, UnchangedByMain
<1>0. Shape /\ Phase /\ Hands /\ InOrder /\ BuffersConserved /\ VideoBuffersLive
  BY DEF IInv
<1> USE <1>0
<1>2. Shape'
  <2>1. restarts \in Nat
    BY DEF Shape
  <2>2. restarts' \in Nat
    BY <1>1, <2>1
  <2>3. rrun' \in BOOLEAN
    BY <1>1
  <2> QED BY <1>1, <2>2, <2>3 DEF Shape
<1>3. Phase'
  <2>1. \A r, f \in Nat, n \in {0, 1} : r + n <= f => (r - 1) + n <= f
    OBVIOUS
  <2>2. restarts \in Nat /\ fails \in Nat
    BY BoundsAssumption DEF Shape
  <2>3. restarts' + (IF rpc = "report" THEN 1 ELSE 0) <= fails
    BY <1>1, <2>1, <2>2 DEF Phase
  <2> QED BY <1>1, <2>3 DEF Phase
<1>4. Hands' /\ VideoBuffersLive'
  BY <1>1 DEF Hands, VideoBuffersLive
<1>5. InOrder'
  BY <1>1, OrderKept
<1>6. BuffersConserved'
  <2>1. /\ AtMain = 0 /\ AtMain' = 1
        /\ UNCHANGED <<UdpQueued, UdpHeld, ThumbQueued, ThumbHeld>>
    BY <1>1 DEF UdpQueued, UdpHeld, ThumbQueued, ThumbHeld, AtMain, Holds
  <2> QED BY <1>1, <2>1, Counts, Balanced
<1> QED BY <1>2, <1>3, <1>4, <1>5, <1>6 DEF IInv

(* main goes from one thread to the next.                                  *)
LEMMA StopNextInv ==
  ASSUME IInv, StopUdp \/ StopThumb
  PROVE  IInv'
<1>1. /\ \/ /\ mpc = "joinReceiver" /\ rpc = "exited" /\ mpc' = "joinUdp"
            /\ urun' = FALSE /\ UNCHANGED <<trun, arun>>
         \/ /\ mpc = "joinUdp" /\ upc = "exited" /\ vpool # 0 /\ mpc' = "joinThumb"
            /\ trun' = FALSE /\ UNCHANGED <<urun, arun>>
         \/ /\ mpc = "joinUdp" /\ upc = "exited" /\ vpool = 0 /\ mpc' = "joinAudio"
            /\ arun' = FALSE /\ UNCHANGED <<urun, trun>>
      /\ UNCHANGED <<restarts, caller, rrun, rpc, npkt, fails, upc, uheld, uqueue, last,
                     flagged, before, tpc, theld, tqueue, gen, vpool, apc, aheld,
                     aqueue, freeMsg, freePkt, freeVid, freeAud>>
  BY DEF StopUdp, StopThumb, UdpFlag, UnchangedByMain
<1>0. Shape /\ Phase /\ Hands /\ InOrder /\ BuffersConserved /\ VideoBuffersLive
  BY DEF IInv
<1> USE <1>0
<1>2. Shape'
  <2>1. /\ mpc' \in {"joinUdp", "joinThumb", "joinAudio"}
        /\ urun' \in BOOLEAN /\ trun' \in BOOLEAN /\ arun' \in BOOLEAN
    BY <1>1 DEF Shape
  <2> QED BY <1>1, <2>1 DEF Shape
<1>3. Phase'
  BY <1>1 DEF Phase
<1>4. Hands' /\ VideoBuffersLive'
  BY <1>1 DEF Hands, VideoBuffersLive
<1>5. InOrder'
  BY <1>1, OrderKept
<1>6. BuffersConserved'
  BY <1>1 DEF BuffersConserved, Holds
<1> QED BY <1>2, <1>3, <1>4, <1>5, <1>6 DEF IInv

(* The videopool is destroyed when no frame of it is left.                 *)
LEMMA StopAudioInv ==
  ASSUME IInv, StopAudio
  PROVE  IInv'
<1>1. /\ mpc = "joinThumb" /\ mpc' = "joinAudio" /\ tpc = "exited"
      /\ vpool' = 0 /\ freeVid' = 0 /\ arun' = FALSE
      /\ UNCHANGED <<restarts, caller, rrun, rpc, npkt, fails, urun, upc, uheld, uqueue,
                     last, flagged, before, trun, tpc, theld, tqueue, gen, apc, aheld,
                     aqueue, freeMsg, freePkt, freeAud>>
  BY DEF StopAudio, ThumbJoined, UnchangedByMain
<1>0. Shape /\ Phase /\ Hands /\ InOrder /\ BuffersConserved /\ VideoBuffersLive
  BY DEF IInv
<1> USE <1>0
<1>2. tqueue = <<>> /\ theld = 0
  BY <1>1 DEF Hands
<1>3. Shape'
  <2>1. gen \in Nat
    BY DEF Shape
  <2>2. vpool' \in 0 .. gen /\ freeVid' \in Nat
    BY <1>1, <2>1
  <2>3. arun' \in BOOLEAN
    BY <1>1
  <2> QED BY <1>1, <2>2, <2>3 DEF Shape
<1>4. Phase'
  BY <1>1 DEF Phase
<1>5. Hands'
  BY <1>1 DEF Hands
<1>6. VideoBuffersLive'
  BY <1>1, <1>2, Facts DEF VideoBuffersLive
<1>7. InOrder'
  BY <1>1, OrderKept
<1>8. BuffersConserved'
  <2>1. UNCHANGED <<UdpQueued, UdpHeld, ThumbQueued, ThumbHeld, AtMain>>
    BY <1>1 DEF UdpQueued, UdpHeld, ThumbQueued, ThumbHeld, AtMain, Holds
  <2> QED BY <1>1, <2>1, Balanced
<1> QED BY <1>3, <1>4, <1>5, <1>6, <1>7, <1>8 DEF IInv

(* All threads start again: what was received before stays behind.         *)
LEMMA RestartInv ==
  ASSUME IInv, Restart
  PROVE  IInv'
<1>1. /\ mpc = "joinAudio" /\ mpc' = "run" /\ apc = "exited" /\ apc' = "wait"
      /\ freeMsg' = freeMsg + 1 /\ arun' = TRUE /\ urun' = TRUE /\ upc' = "wait"
      /\ flagged' = FALSE /\ rrun' = TRUE /\ rpc' = "setup" /\ before' = npkt
      /\ UNCHANGED <<restarts, caller, npkt, fails, uheld, uqueue, last, trun, tpc,
                     theld, tqueue, gen, vpool, aheld, aqueue, freePkt, freeVid,
                     freeAud>>
  BY DEF Restart, thumb, video
<1>0. Shape /\ Phase /\ Hands /\ InOrder /\ BuffersConserved /\ VideoBuffersLive
  BY DEF IInv
<1> USE <1>0
<1>2. rpc = "exited" /\ upc = "exited" /\ vpool = 0 /\ uqueue = <<>> /\ uheld = 0
  BY <1>1 DEF Phase, Hands
<1>3. Shape'
  <2>1. /\ freeMsg' \in Nat /\ before' \in 0 .. MaxPackets
        /\ rpc' \in {"setup"} /\ upc' \in {"wait"} /\ apc' \in {"wait"} /\ mpc' \in {"run"}
    BY <1>1 DEF Shape
  <2> QED BY <1>1, <2>1 DEF Shape
<1>4. Phase'
  <2>1. restarts' + (IF rpc' = "report" THEN 1 ELSE 0) <= fails'
    BY <1>1, <1>2 DEF Phase
  <2> QED BY <1>1, <1>2, <2>1 DEF Phase
<1>5. Hands' /\ VideoBuffersLive'
  BY <1>1, <1>2 DEF Hands, VideoBuffersLive
<1>6. InOrder'
  <2>1. Handled = npkt /\ Handled' = npkt /\ last' <= npkt /\ npkt <= npkt
    BY <1>1, <1>2 DEF Handled, InOrder, Shape
  <2>2. 1 .. Len(uqueue') = {}
    BY <1>1, <1>2, Facts
  <2> QED BY <1>1, <1>2, <2>1, <2>2 DEF InOrder
<1>7. BuffersConserved'
  <2>1. /\ AtMain = 1 /\ AtMain' = 0
        /\ UNCHANGED <<UdpQueued, UdpHeld, ThumbQueued, ThumbHeld>>
    BY <1>1 DEF UdpQueued, UdpHeld, ThumbQueued, ThumbHeld, AtMain, Holds
  <2> QED BY <1>1, <2>1, Counts, Balanced
<1> QED BY <1>3, <1>4, <1>5, <1>6, <1>7 DEF IInv

-----------------------------------------------------------------------------
(* The theorems                                                            *)

LEMMA StutterInv ==
  ASSUME IInv, UNCHANGED vars
  PROVE  IInv'
<1> USE DEF IInv, vars, main, receiver, udp, thumb, video, audio, pools
<1>1. Shape' /\ Phase' /\ Hands' /\ VideoBuffersLive'
  BY DEF Shape, Phase, Hands, VideoBuffersLive
<1>2. InOrder'
  BY OrderKept
<1>3. BuffersConserved'
  BY DEF BuffersConserved, Holds
<1> QED BY <1>1, <1>2, <1>3

LEMMA NextInv ==
  ASSUME IInv, [Next]_vars
  PROVE  IInv'
<1>1. CASE ReceiverWaits \/ ReceiverSteps \/ Frames
  BY <1>1, ReceiverMovesInv, ReportInv, ArriveInv, ForwardInv, InitVideoInv, VideoFrameInv,
     AudioFrameInv DEF ReceiverWaits, ReceiverSteps, Frames
<1>2. CASE UdpSteps
  BY <1>2, UdpTakeInv, UdpMovesInv, UdpHandleInv, UdpDrainInv DEF UdpSteps
<1>3. CASE ThumbSteps
  BY <1>3, ThumbTakeInv, ThumbMovesInv, ThumbHandleInv, ThumbDrainInv DEF ThumbSteps
<1>4. CASE AudioSteps
  BY <1>4, AudioStepsInv
<1>5. CASE MainSteps
  BY <1>5, StopReceiverInv, StopNextInv, StopAudioInv, RestartInv DEF MainSteps
<1>6. CASE UNCHANGED vars
  BY <1>6, StutterInv
<1> QED BY <1>1, <1>2, <1>3, <1>4, <1>5, <1>6 DEF Next

(* main, its flags and the threads are always in step with each other,     *)
(* and the queue to the output is in order.                                *)
THEOREM Invariance == Spec => []IInv
<1>1. Init => IInv
  BY InitInv
<1>2. IInv /\ [Next]_vars => IInv'
  BY NextInv
<1> QED BY <1>1, <1>2, PTL DEF Spec

(* No error path, stop or restart loses a buffer of any pool.              *)
THEOREM BuffersConservedAlways == Spec => []BuffersConserved
<1>1. IInv => BuffersConserved
  BY DEF IInv
<1> QED BY <1>1, Invariance, PTL

(* main never destroys the videopool under a frame, and a frame is never   *)
(* returned to a pool that it is not from.                                 *)
THEOREM VideoBuffersLiveAlways == Spec => []VideoBuffersLive
<1>1. IInv => VideoBuffersLive
  BY DEF IInv
<1> QED BY <1>1, Invariance, PTL

(* Every field keeps its type: no pool gives out more buffers than it has, *)
(* and there are never more restart messages than errors.                  *)
THEOREM TypeCorrect == Spec => []TypeOK
<1>1. IInv => TypeOK
  <2> SUFFICES ASSUME IInv PROVE TypeOK
    OBVIOUS
  <2>0. Shape /\ Phase
    BY DEF IInv
  <2>1. /\ Msgs \in Nat /\ Packets \in Nat /\ Videos \in Nat /\ Audios \in Nat
        /\ MaxFails \in Nat
    BY PoolsAssumption, BoundsAssumption
  <2>2. /\ freePkt + UdpQueued + UdpHeld = Packets
        /\ freeAud + aqueue + aheld = Audios
        /\ vpool # 0 => freeVid + ThumbQueued + ThumbHeld = Videos
        /\ freeMsg + UdpQueued + UdpHeld + ThumbQueued + ThumbHeld + aqueue + aheld
           + restarts + AtMain = Msgs
    BY DEF IInv, BuffersConserved, UdpQueued, UdpHeld, ThumbQueued, ThumbHeld, AtMain
  <2>3. freePkt <= Packets /\ freeAud <= Audios /\ aqueue <= Audios /\ freeMsg <= Msgs
    BY <2>1, <2>2, Counts
  <2>4. freeVid <= Videos
    <3>1. CASE vpool # 0
      BY <2>1, <2>2, <3>1, Counts
    <3>2. CASE vpool = 0
      BY <2>1, <3>2 DEF IInv, Hands
    <3> QED BY <3>1, <3>2
  <2>5. restarts <= fails /\ fails <= MaxFails
    BY <2>0, <2>1 DEF Shape, Phase
  <2>6. /\ freePkt \in 0 .. Packets /\ freeAud \in 0 .. Audios /\ aqueue \in 0 .. Audios
        /\ freeMsg \in 0 .. Msgs /\ freeVid \in 0 .. Videos
    BY <2>1, <2>3, <2>4, Counts
  <2>7. restarts \in 0 .. MaxFails
    BY <2>0, <2>1, <2>5 DEF Shape
  <2> QED BY <2>0, <2>6, <2>7 DEF TypeOK, Shape, Numbers
<1> QED BY <1>1, Invariance, PTL

(* A step that sends a packet sends one newer than all that were sent, and *)
(* than all that were received before the last restart.                    *)
LEMMA SentIsFresh ==
  ASSUME IInv, [Next]_vars, last' # last
  PROVE  last' > last /\ last' > before
<1>1. UdpHandle
  BY DEF Next, ReceiverWaits, ReceiverSteps, Frames, UdpSteps, ThumbSteps, AudioSteps,
         MainSteps, SetUp, SetUpFails, Listen, Accept, Errs, Retries, Arrive, Report,
         Forward, Goes, InitVideo, VideoFrame, AudioFrame, UdpTake, UdpTold, UdpDrain,
         UdpEnds, ThumbTake, ThumbTold, ThumbHandle, ThumbDrain, ThumbEnds, AudioTake,
         AudioHandle, AudioEnds, StopReceiver, StopUdp, StopThumb, StopAudio, Restart,
         UnchangedByThumb, UnchangedByAudio, UnchangedByMain, udp, vars
<1>2. uheld # 0 /\ last' = uheld
  BY <1>1 DEF UdpHandle, Sends
<1>3. last < uheld /\ before < uheld
  BY <1>2 DEF IInv, InOrder, Fresh
<1>4. last \in Nat /\ before \in Nat /\ uheld \in Nat
  BY BoundsAssumption DEF IInv, Shape
<1> QED BY <1>2, <1>3, <1>4

(* Packets leave in the order they came in, none twice, and none from      *)
(* before a restart leaves after it.                                       *)
THEOREM OnlyFreshOutput == Spec => NoStaleOutput
<1>1. IInv /\ [Next]_vars => [last' # last => last' > last /\ last' > before]_vars
  BY SentIsFresh
<1> QED BY <1>1, Invariance, PTL DEF Spec, NoStaleOutput
=============================================================================

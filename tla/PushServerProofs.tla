-------------------------- MODULE PushServerProofs --------------------------
(***************************************************************************)
(* Proofs about the push server, for pools of any size and any number of   *)
(* datagrams: however sends, reconnections and set-ups end, no buffer is   *)
(* lost, no queue is left behind, and what is sent is in order and newer   *)
(* than the queue it comes from.                                           *)
(***************************************************************************)
EXTENDS PushServer, SequenceTheorems, TLAPS

-----------------------------------------------------------------------------
(* Queues                                                                  *)

Numbers == 1 .. MaxPackets

LEMMA NullFacts ==
  /\ NULL \notin Nat
  /\ \A q \in Seq(Numbers) : q # NULL
<1>1. ASSUME NEW q \in Seq(Numbers) PROVE q \in Seq(Nat)
  <2>1. Numbers \subseteq Nat
    BY DEF Numbers
  <2> QED BY <2>1, SeqMonotonic
<1> QED BY <1>1, NullAssumption

LEMMA LengthFacts ==
  ASSUME NEW q \in Seq(Numbers) \cup {NULL}
  PROVE  /\ Length(q) \in Nat
         /\ q = NULL => Length(q) = 0
         /\ q # NULL => /\ q \in Seq(Numbers) /\ Length(q) = Len(q)
                        /\ \A i \in 1 .. Len(q) : q[i] \in Numbers
BY LenProperties, ElementOfSeq DEF Length

(* A queue without its last packet.                                        *)
LEMMA LastTaken ==
  ASSUME NEW q \in Seq(Numbers), Len(q) > 0
  PROVE  LET t == SubSeq(q, 1, Len(q) - 1)
         IN  /\ t \in Seq(Numbers) /\ Len(t) = Len(q) - 1
             /\ \A i \in 1 .. Len(t) : t[i] = q[i]
<1>1. Len(q) \in Nat \ {0} /\ \A i \in 1 .. Len(q) : q[i] \in Numbers
  BY LenProperties, ElementOfSeq
<1>2. \A i \in 1 .. Len(q) - 1 : q[i] \in Numbers
  BY <1>1
<1>3. /\ SubSeq(q, 1, Len(q) - 1) \in Seq(Numbers)
      /\ Len(SubSeq(q, 1, Len(q) - 1)) = IF 1 <= Len(q) - 1 THEN (Len(q) - 1) - 1 + 1 ELSE 0
      /\ \A i \in 1 .. (Len(q) - 1) - 1 + 1 : SubSeq(q, 1, Len(q) - 1)[i] = q[1 + i - 1]
  <2>1. 1 \in Int /\ Len(q) - 1 \in Int
    BY <1>1
  <2> QED BY <1>2, <2>1, SubSeqProperties
<1>4. \A k \in Nat \ {0} : /\ (IF 1 <= k - 1 THEN (k - 1) - 1 + 1 ELSE 0) = k - 1
                           /\ (k - 1) - 1 + 1 = k - 1
                           /\ \A i \in 1 .. k - 1 : 1 + i - 1 = i
  OBVIOUS
<1>5. Len(SubSeq(q, 1, Len(q) - 1)) = Len(q) - 1
  BY <1>1, <1>3, <1>4
<1>6. \A i \in 1 .. Len(q) - 1 : SubSeq(q, 1, Len(q) - 1)[i] = q[i]
  BY <1>1, <1>3, <1>4
<1> QED BY <1>3, <1>5, <1>6

(* A queue with a packet put in front.                                     *)
LEMMA FirstAdded ==
  ASSUME NEW q \in Seq(Numbers), NEW p \in Numbers
  PROVE  /\ Add(q, p) \in Seq(Numbers) /\ Len(Add(q, p)) = Len(q) + 1
         /\ Add(q, p)[1] = p
         /\ \A i \in 2 .. Len(Add(q, p)) : Add(q, p)[i] = q[i - 1]
<1>1. <<p>> \in Seq(Numbers) /\ Len(<<p>>) = 1 /\ <<p>>[1] = p
  OBVIOUS
<1>2. Len(q) \in Nat
  BY LenProperties
<1> QED BY <1>1, <1>2, ConcatProperties DEF Add

-----------------------------------------------------------------------------
(* The invariant                                                           *)

LEMMA InitInv == Init => Inv
<1> SUFFICES ASSUME Init PROVE Inv
  OBVIOUS
<1> USE NullFacts, PoolsAssumption, BoundsAssumption
<1>1. TypeOK
  BY DEF Init, TypeOK
<1>2. NoQueueLeftBehind /\ BuffersConserved
  BY DEF Init, NoQueueLeftBehind, BuffersConserved, InHand, AtMain, Length
<1>3. StopFollowsRequest /\ InOrder
  BY DEF Init, StopFollowsRequest, InOrder, Handled
<1> QED BY <1>1, <1>2, <1>3 DEF Inv

(* When no buffer is lost, no pool can hold more than it began with.       *)
Shape ==
  /\ mpc \in {"run", "joinReceiver", "joinServer"} /\ restarts \in {0, 1}
  /\ {srun, rrun} \subseteq BOOLEAN
  /\ spc \in {"socket", "connect", "create", "take", "got", "send", "reconnect",
              "detach", "drain", "lost", "cleanup", "exited"}
  /\ rpc \in {"wait", "copy", "exited"}
  /\ held \in Numbers \cup {NULL}
  /\ {queue, local} \subseteq Seq(Numbers) \cup {NULL}
  /\ {npkt, last, since} \subseteq 0 .. MaxPackets
  /\ freePkt \in Nat /\ freeMsg \in Nat /\ others \in 0 .. MaxOthers

LEMMA ShapeIsEnough ==
  ASSUME Shape, BuffersConserved
  PROVE  TypeOK
<1>1. Length(queue) \in Nat /\ Length(local) \in Nat
  BY LengthFacts DEF Shape
<1>2. freePkt <= Packets /\ freeMsg <= Msgs
  <2>1. InHand \in Nat /\ AtMain \in Nat
    BY DEF InHand, AtMain
  <2>2. others \in Nat /\ restarts \in Nat /\ freePkt \in Nat /\ freeMsg \in Nat
    BY BoundsAssumption DEF Shape
  <2>3. /\ freePkt + Length(queue) + Length(local) + InHand = Packets
        /\ freeMsg + Length(queue) + Length(local) + InHand + others + restarts + AtMain = Msgs
    BY DEF BuffersConserved
  <2> QED BY <1>1, <2>1, <2>2, <2>3, PoolsAssumption
<1>3. freePkt \in 0 .. Packets /\ freeMsg \in 0 .. Msgs
  BY <1>2, PoolsAssumption DEF Shape
<1>4. TypeOK <=> Shape /\ freePkt \in 0 .. Packets /\ freeMsg \in 0 .. Msgs
  BY <1>3 DEF TypeOK, Shape, Numbers
<1> QED BY <1>3, <1>4

LEMMA TypeGivesShape == TypeOK => Shape
BY PoolsAssumption DEF TypeOK, Shape, Numbers

SInv == Shape /\ NoQueueLeftBehind /\ BuffersConserved /\ StopFollowsRequest /\ InOrder

(* What every step starts from.                                            *)
LEMMA Facts ==
  ASSUME SInv
  PROVE  /\ NULL \notin Nat /\ <<>> \in Seq(Numbers)
         /\ queue # NULL => queue \in Seq(Numbers) /\ Len(queue) \in Nat
         /\ local # NULL => local \in Seq(Numbers) /\ Len(local) \in Nat
         /\ Length(queue) \in Nat /\ Length(local) \in Nat
         /\ Length(NULL) = 0
         /\ \A q \in Seq(Numbers) : q # NULL /\ Length(q) = Len(q)
         /\ \A p \in Numbers : p # NULL
         /\ InHand \in Nat /\ AtMain \in Nat
         /\ held # NULL => held \in Numbers
         /\ freePkt \in Nat /\ freeMsg \in Nat /\ others \in Nat /\ restarts \in Nat
BY NullFacts, LengthFacts, LenProperties, BoundsAssumption
   DEF SInv, Shape, Length, Numbers, InHand, AtMain

LEMMA Counts ==
  ASSUME SInv
  PROVE  /\ freePkt \in Nat /\ freeMsg \in Nat /\ others \in Nat /\ restarts \in Nat
         /\ Length(queue) \in Nat /\ Length(local) \in Nat /\ InHand \in Nat /\ AtMain \in Nat
         /\ freePkt + Length(queue) + Length(local) + InHand = Packets
         /\ freeMsg + Length(queue) + Length(local) + InHand + others + restarts + AtMain = Msgs
BY Facts DEF SInv, BuffersConserved

(* A step balances the books of both pools.                                *)
LEMMA Balanced ==
  ASSUME freePkt' + Length(queue)' + Length(local)' + InHand' = Packets,
         freeMsg' + Length(queue)' + Length(local)' + InHand'
           + others' + restarts' + AtMain' = Msgs
  PROVE  BuffersConserved'
BY DEF BuffersConserved

(* The packet in hand is put down: sent or not, and for whatever reason.   *)
LEMMA PutDownInv ==
  ASSUME SInv, PutDown, held # NULL,
         UNCHANGED <<mpc, restarts, srun, rrun, rpc, npkt, since>>,
         last' \in {last, held},
         spc' \in {"take", "detach", "cleanup"},
         restarts # 0 \/ mpc # "run" => spc' = "cleanup"
  PROVE  SInv'
<1> USE Facts DEF SInv, PutDown
<1>1. Shape'
  BY DEF Shape, Numbers
<1>2. NoQueueLeftBehind'
  BY DEF NoQueueLeftBehind
<1>3. BuffersConserved'
  <2>1. InHand = 1 /\ InHand' = 0
    BY DEF InHand
  <2>2. /\ freePkt' = freePkt + 1 /\ freeMsg' = freeMsg + 1
        /\ UNCHANGED <<queue, local, others, restarts, mpc>>
    OBVIOUS
  <2>3. AtMain' = AtMain
    BY DEF AtMain
  <2>4. Length(queue)' = Length(queue') /\ Length(local)' = Length(local')
    OBVIOUS
  <2> HIDE Facts
  <2>5. freePkt' + Length(queue)' + Length(local)' + InHand' = Packets
    BY <2>1, <2>2, <2>3, <2>4, Counts
  <2>6. freeMsg' + Length(queue)' + Length(local)' + InHand'
         + others' + restarts' + AtMain' = Msgs
    BY <2>1, <2>2, <2>3, <2>4, Counts
  <2> QED BY <2>5, <2>6, Balanced
<1>4. StopFollowsRequest'
  BY DEF StopFollowsRequest, Leaving
<1>5. InOrder'
  BY DEF InOrder, Handled, Fresh, Shape, Numbers
<1> QED BY <1>1, <1>2, <1>3, <1>4, <1>5

(* The queue is made, emptied, handed over or destroyed.                   *)
LEMMA CreateQueueInv ==
  ASSUME SInv, CreateQueue
  PROVE  SInv'
<1> USE Facts DEF SInv, CreateQueue, main, server, receiver, pools
<1>1. queue = NULL /\ held = NULL /\ queue' = <<>> /\ Handled \in 0 .. MaxPackets
  BY BoundsAssumption DEF NoQueueLeftBehind, Shape, Handled, InOrder
<1>2. Shape' /\ since' = Handled /\ Handled' = Handled
  BY <1>1 DEF Shape, Handled
<1>3. NoQueueLeftBehind'
  BY <1>1 DEF NoQueueLeftBehind
<1>4. BuffersConserved'
  <2>1. Length(queue) = 0 /\ Length(queue') = 0
    BY <1>1 DEF Length
  <2> QED BY <2>1 DEF BuffersConserved, InHand, AtMain
<1>5. StopFollowsRequest'
  BY DEF StopFollowsRequest, Leaving
<1>6. InOrder'
  <2>1. 1 .. Len(queue') = {}
    BY <1>1
  <2> QED BY <1>1, <1>2, <2>1 DEF InOrder, Shape
<1> QED BY <1>2, <1>3, <1>4, <1>5, <1>6

LEMMA TakeInv ==
  ASSUME SInv, Take
  PROVE  SInv'
<1> USE Facts DEF SInv, main, server, receiver, pools
<1>1. srun
  BY DEF Take, StopFollowsRequest, Leaving
<1>2. /\ queue # NULL /\ queue \in Seq(Numbers) /\ Len(queue) \in Nat \ {0}
      /\ spc = "take" /\ spc' = "got"
      /\ held' = queue[Len(queue)] /\ queue' = SubSeq(queue, 1, Len(queue) - 1)
      /\ UNCHANGED <<main, srun, local, last, since, receiver, pools>>
  BY <1>1 DEF Take, Length
<1>3. /\ queue' \in Seq(Numbers) /\ Len(queue') = Len(queue) - 1
      /\ \A i \in 1 .. Len(queue') : queue'[i] = queue[i]
  BY <1>2, LastTaken
<1>4. held = NULL /\ held' \in Numbers
  BY <1>2, LengthFacts DEF NoQueueLeftBehind
<1>5. Shape'
  BY <1>2, <1>3, <1>4 DEF Shape
<1>6. NoQueueLeftBehind'
  BY <1>2, <1>4 DEF NoQueueLeftBehind
<1>7. BuffersConserved'
  <2>1. InHand = 0 /\ InHand' = 1
    BY <1>4 DEF InHand
  <2>2. Length(queue') = Length(queue) - 1 /\ local' = local
    BY <1>2, <1>3
  <2>3. AtMain' = AtMain
    BY <1>2 DEF AtMain
  <2>4. Length(queue)' = Length(queue') /\ Length(local)' = Length(local')
    OBVIOUS
  <2> HIDE Facts
  <2>5. freePkt' + Length(queue)' + Length(local)' + InHand' = Packets
    BY <1>2, <2>1, <2>2, <2>3, <2>4, Counts
  <2>6. freeMsg' + Length(queue)' + Length(local)' + InHand'
         + others' + restarts' + AtMain' = Msgs
    BY <1>2, <2>1, <2>2, <2>3, <2>4, Counts
  <2> QED BY <2>5, <2>6, Balanced
<1>8. StopFollowsRequest'
  BY <1>2 DEF StopFollowsRequest, Leaving
<1>9. InOrder'
  <2>1. Handled' = Handled
    BY <1>2 DEF Handled
  <2>2. Len(queue) \in 1 .. Len(queue) /\ Fresh(held')
    BY <1>2 DEF InOrder
  <2>3. ASSUME NEW i \in 1 .. Len(queue')
        PROVE  /\ Fresh(queue'[i]) /\ held' < queue'[i]
               /\ \A j \in 1 .. (i - 1) : queue'[i] < queue'[j]
    <3>1. i \in 1 .. Len(queue) /\ i \in 1 .. (Len(queue) - 1) /\ queue'[i] = queue[i]
      BY <1>2, <1>3
    <3>2. \A j \in 1 .. (i - 1) : queue'[j] = queue[j]
      BY <1>2, <1>3, <3>1
    <3> QED BY <1>2, <2>2, <3>1, <3>2 DEF InOrder
  <2> QED BY <1>2, <2>1, <2>2, <2>3 DEF InOrder, Fresh
<1> QED BY <1>5, <1>6, <1>7, <1>8, <1>9

(* A queue that is away from the receiver is no longer the shared one.     *)
LEMMA QueueGoneInOrder ==
  ASSUME SInv, queue' = NULL, held' = held, UNCHANGED <<rpc, npkt, last, since>>
  PROVE  InOrder'
BY DEF SInv, InOrder, Handled, Fresh

LEMMA DetachInv ==
  ASSUME SInv, Detach
  PROVE  SInv'
<1> USE Facts DEF SInv, Detach, QueueAfterDetach, Goes, main, server, receiver, pools
<1>1. Shape'
  BY DEF Shape
<1>2. NoQueueLeftBehind' /\ local = NULL
  BY DEF NoQueueLeftBehind
<1>3. BuffersConserved'
  BY <1>2 DEF BuffersConserved, InHand, AtMain, Length
<1>4. StopFollowsRequest'
  BY DEF StopFollowsRequest, Leaving
<1> QED BY <1>1, <1>2, <1>3, <1>4, QueueGoneInOrder

LEMMA DrainInv ==
  ASSUME SInv, Drain
  PROVE  SInv'
<1> USE Facts DEF SInv, Drain, Goes, main, server, receiver, pools
<1>1. local # NULL /\ local \in Seq(Numbers) /\ Len(local) \in Nat \ {0}
  BY DEF Length
<1>2. local' \in Seq(Numbers) /\ Len(local') = Len(local) - 1
  BY <1>1, LastTaken
<1>3. Shape'
  BY <1>2 DEF Shape
<1>4. NoQueueLeftBehind'
  BY DEF NoQueueLeftBehind
<1>5. BuffersConserved'
  <2>1. Length(local') = Length(local) - 1
    BY <1>1, <1>2
  <2>2. InHand' = InHand /\ AtMain' = AtMain
    BY DEF InHand, AtMain
  <2>3. Length(queue)' = Length(queue') /\ Length(local)' = Length(local')
    OBVIOUS
  <2> HIDE Facts
  <2>4. freePkt' + Length(queue)' + Length(local)' + InHand' = Packets
    BY <2>1, <2>2, <2>3, Counts
  <2>5. freeMsg' + Length(queue)' + Length(local)' + InHand'
         + others' + restarts' + AtMain' = Msgs
    BY <2>1, <2>2, <2>3, Counts
  <2> QED BY <2>4, <2>5, Balanced
<1>6. StopFollowsRequest'
  BY DEF StopFollowsRequest, Leaving
<1>7. InOrder'
  BY DEF InOrder, Handled, Fresh
<1> QED BY <1>3, <1>4, <1>5, <1>6, <1>7

LEMMA StartOverInv ==
  ASSUME SInv, StartOver
  PROVE  SInv'
<1> USE Facts DEF SInv, StartOver, Goes, main, server, receiver, pools
<1>1. Length(local) = 0 /\ Length(local') = 0
  BY DEF Drained
<1>2. Shape'
  BY DEF Shape
<1>3. NoQueueLeftBehind'
  BY DEF NoQueueLeftBehind
<1>4. BuffersConserved'
  BY <1>1 DEF BuffersConserved, InHand, AtMain
<1>5. StopFollowsRequest'
  BY DEF StopFollowsRequest, Leaving
<1>6. InOrder'
  BY DEF InOrder, Handled, Fresh
<1> QED BY <1>2, <1>3, <1>4, <1>5, <1>6

LEMMA ServerExitsInv ==
  ASSUME SInv, ServerExits
  PROVE  SInv'
<1> USE Facts DEF SInv, ServerExits, Goes, main, server, receiver, pools
<1>1. Shape'
  BY DEF Shape
<1>2. NoQueueLeftBehind'
  BY DEF NoQueueLeftBehind
<1>3. BuffersConserved'
  <2>1. Length(queue') = 0 /\ InHand' = InHand /\ AtMain' = AtMain
    BY DEF InHand, AtMain
  <2>2. Length(queue)' = Length(queue') /\ Length(local)' = Length(local')
    OBVIOUS
  <2> HIDE Facts
  <2>3. freePkt' + Length(queue)' + Length(local)' + InHand' = Packets
    BY <2>1, <2>2, Counts
  <2>4. freeMsg' + Length(queue)' + Length(local)' + InHand'
         + others' + restarts' + AtMain' = Msgs
    BY <2>1, <2>2, Counts
  <2> QED BY <2>3, <2>4, Balanced
<1>4. StopFollowsRequest'
  BY DEF StopFollowsRequest, Leaving
<1> QED BY <1>1, <1>2, <1>3, <1>4, QueueGoneInOrder

(* What is new stays new while no packet is moved.                         *)
LEMMA OrderKept ==
  ASSUME SInv, UNCHANGED <<held, queue, last, since, npkt>>, rpc' = rpc \/ rpc' # "copy"
  PROVE  InOrder'
<1> USE Facts DEF SInv
<1>1. Handled <= Handled' /\ Handled \in Int /\ Handled' \in Int
      /\ last \in Int /\ since \in Int
  BY BoundsAssumption DEF Handled, Shape
<1>2. ASSUME NEW p \in Numbers, Fresh(p) PROVE last < p /\ since < p /\ p <= Handled'
  BY <1>1, <1>2 DEF Fresh, Numbers
<1>3. held # NULL => Fresh(held)'
  BY <1>2 DEF InOrder, Fresh
<1>4. ASSUME queue # NULL, NEW i \in 1 .. Len(queue) PROVE Fresh(queue[i])'
  <2>1. queue[i] \in Numbers /\ Fresh(queue[i])
    BY <1>4, LengthFacts DEF InOrder
  <2> QED BY <2>1, <1>2 DEF Fresh
<1>5. last' <= Handled' /\ since' <= Handled'
  BY <1>1 DEF InOrder
<1> QED BY <1>3, <1>4, <1>5 DEF InOrder

(* A restart message is taken from the pool for main.                      *)
LEMMA ConnectionLostInv ==
  ASSUME SInv, ConnectionLost
  PROVE  SInv'
<1> USE Facts DEF SInv, ConnectionLost
<1>1. restarts = 0 /\ mpc = "run" /\ restarts' \in {0, 1}
  BY DEF StopFollowsRequest, Leaving, Shape
<1>2. Shape'
  <2>1. /\ UNCHANGED <<mpc, srun, held, local, last, since, receiver, queue, freePkt, others>>
        /\ spc' = "lost" /\ freeMsg' \in Nat
    OBVIOUS
  <2> QED BY <1>1, <2>1 DEF Shape, receiver
<1>3. NoQueueLeftBehind'
  BY DEF NoQueueLeftBehind
<1>4. BuffersConserved'
  <2>1. freeMsg' + restarts' = freeMsg + restarts /\ freeMsg' \in Nat /\ restarts' \in Nat
    BY <1>1
  <2>2. /\ freePkt' = freePkt /\ others' = others
        /\ Length(queue)' = Length(queue) /\ Length(local)' = Length(local)
        /\ InHand' = InHand /\ AtMain' = AtMain
    BY DEF InHand, AtMain
  <2> HIDE Facts DEF SInv, ConnectionLost
  <2>3. freePkt' + Length(queue)' + Length(local)' + InHand' = Packets
    BY <2>2, Counts
  <2>4. freeMsg' + Length(queue)' + Length(local)' + InHand'
         + others' + restarts' + AtMain' = Msgs
    BY <2>1, <2>2, Counts
  <2> QED BY <2>3, <2>4, Balanced
<1>5. StopFollowsRequest'
  BY <1>1 DEF StopFollowsRequest, Leaving
<1>6. InOrder'
  <2>1. UNCHANGED <<held, queue, last, since, npkt, rpc>>
    BY DEF receiver
  <2> QED BY <2>1, OrderKept
<1> QED BY <1>2, <1>3, <1>4, <1>5, <1>6

(* A datagram is copied: it is newer than all that was handed around.      *)
LEMMA CopyInv ==
  ASSUME SInv, Copy
  PROVE  SInv'
<1> USE Facts DEF SInv, main, server, receiver, pools
<1>1. /\ rpc = "copy" /\ rpc' = "wait" /\ npkt > 0 /\ npkt \in Numbers
      /\ UNCHANGED <<main, server, rrun, npkt>>
      /\ Handled = npkt - 1 /\ Handled' = npkt
  BY BoundsAssumption DEF Copy, InOrder, Shape, Handled, Numbers
<1>2. CASE UNCHANGED <<queue, pools>>
  <2>1. Shape' /\ NoQueueLeftBehind' /\ StopFollowsRequest'
    BY <1>1, <1>2 DEF Shape, NoQueueLeftBehind, StopFollowsRequest
  <2>2. BuffersConserved'
    BY <1>1, <1>2 DEF BuffersConserved, InHand, AtMain
  <2> QED BY <2>1, <2>2, <1>1, <1>2, OrderKept
<1>3. CASE /\ queue # NULL /\ queue' = Add(queue, npkt)
           /\ freePkt > 0 /\ freeMsg > 0
           /\ freePkt' = freePkt - 1 /\ freeMsg' = freeMsg - 1 /\ others' = others
  <2>1. /\ queue' \in Seq(Numbers) /\ Len(queue') = Len(queue) + 1 /\ queue'[1] = npkt
        /\ \A i \in 2 .. Len(queue') : queue'[i] = queue[i - 1]
    BY <1>1, <1>3, FirstAdded
  <2>2. Shape' /\ NoQueueLeftBehind' /\ StopFollowsRequest'
    BY <1>1, <1>3, <2>1 DEF Shape, NoQueueLeftBehind, StopFollowsRequest
  <2>3. BuffersConserved'
    <3>1. Length(queue)' = Length(queue) + 1 /\ local' = local
      BY <1>1, <1>3, <2>1
    <3>2. InHand' = InHand /\ AtMain' = AtMain /\ restarts' = restarts
      BY <1>1 DEF InHand, AtMain
    <3> HIDE Facts
    <3>3. freePkt' + Length(queue)' + Length(local)' + InHand' = Packets
      BY <1>3, <3>1, <3>2, Counts
    <3>4. freeMsg' + Length(queue)' + Length(local)' + InHand'
           + others' + restarts' + AtMain' = Msgs
      BY <1>3, <3>1, <3>2, Counts
    <3> QED BY <3>3, <3>4, Balanced
  <2>4. ASSUME NEW p \in Numbers, Fresh(p)
        PROVE  last' < p /\ since' < p /\ p <= Handled' /\ p < npkt
    BY <1>1, <2>4 DEF Fresh, Numbers
  <2>5. last' < npkt /\ since' < npkt /\ npkt <= Handled' /\ last' <= Handled' /\ since' <= Handled'
    BY <1>1 DEF InOrder, Shape, Numbers
  <2>6. held' # NULL => Fresh(held)' /\ held' < npkt
    BY <1>1, <2>4 DEF InOrder, Fresh
  <2>7. ASSUME NEW i \in 1 .. Len(queue')
        PROVE  /\ Fresh(queue[i])' /\ (held' # NULL => held' < queue'[i])
               /\ \A j \in 1 .. (i - 1) : queue'[i] < queue'[j]
    <3>1. CASE i = 1
      <4>1. queue'[i] = npkt /\ 1 .. (i - 1) = {}
        BY <3>1, <2>1
      <4> QED BY <4>1, <2>5, <2>6 DEF Fresh
    <3>2. CASE i # 1
      <4>1. i - 1 \in 1 .. Len(queue) /\ queue'[i] = queue[i - 1] /\ queue[i - 1] \in Numbers
        <5>1. i - 1 \in 1 .. Len(queue) /\ i \in 2 .. Len(queue')
          BY <3>2, <1>3, <2>1
        <5> QED BY <5>1, <1>3, <2>1, LengthFacts
      <4>2. Fresh(queue[i - 1]) /\ (held # NULL => held < queue[i - 1])
        BY <4>1, <1>3 DEF InOrder
      <4>3. ASSUME NEW j \in 1 .. (i - 1) PROVE queue'[i] < queue'[j]
        <5>1. CASE j = 1
          BY <5>1, <4>1, <4>2, <2>1, <2>4
        <5>2. CASE j # 1
          <6>1. j - 1 \in 1 .. ((i - 1) - 1) /\ j \in 2 .. Len(queue')
            BY <5>2, <3>2, <2>1, <1>3
          <6>2. queue[i - 1] < queue[j - 1]
            BY <6>1, <4>1, <1>3 DEF InOrder
          <6> QED BY <6>1, <6>2, <4>1, <2>1
        <5> QED BY <5>1, <5>2
      <4>4. Fresh(queue[i])'
        BY <4>1, <4>2, <2>4 DEF Fresh
      <4>5. held' # NULL => held' < queue'[i]
        BY <4>1, <4>2, <1>1
      <4> QED BY <4>3, <4>4, <4>5
    <3> QED BY <3>1, <3>2
  <2>8. InOrder'
    <3>1. rpc' # "copy"
      BY <1>1
    <3> QED BY <3>1, <2>5, <2>6, <2>7 DEF InOrder
  <2> QED BY <2>2, <2>3, <2>8
<1> QED BY <1>2, <1>3 DEF Copy

(* Messages that other frames take and give back, and those main handles.  *)
LEMMA MessagesInv ==
  ASSUME SInv, Borrow \/ GiveBack \/ StopReceiver \/ Restart
  PROVE  SInv'
<1> USE Facts DEF SInv, main, server, receiver
<1>1. UNCHANGED <<held, local, queue, last, since, npkt, freePkt>>
  BY DEF Borrow, GiveBack, StopReceiver, Restart, pools
<1>2. StopFollowsRequest'
  BY DEF StopFollowsRequest, Leaving, Shape, Borrow, GiveBack, StopReceiver, Restart
<1>3. /\ freeMsg' + others' + restarts' + AtMain' = freeMsg + others + restarts + AtMain
      /\ freeMsg' \in Nat /\ others' \in Nat /\ restarts' \in Nat /\ AtMain' \in Nat
      /\ others' \in 0 .. MaxOthers /\ restarts' \in {0, 1}
  <2>1. CASE Borrow
    BY <2>1, BoundsAssumption DEF Borrow, AtMain, Shape
  <2>2. CASE GiveBack
    BY <2>2, BoundsAssumption DEF GiveBack, AtMain, Shape
  <2>3. CASE StopReceiver
    BY <2>3 DEF StopReceiver, AtMain, Shape, pools
  <2>4. CASE Restart
    BY <2>4 DEF Restart, AtMain, Shape
  <2> QED BY <2>1, <2>2, <2>3, <2>4
<1>4. Shape'
  BY <1>1, <1>3 DEF Shape, Borrow, GiveBack, StopReceiver, Restart
<1>5. NoQueueLeftBehind'
  BY <1>1 DEF NoQueueLeftBehind, Borrow, GiveBack, StopReceiver, Restart
<1>6. BuffersConserved'
  <2>1. InHand' = InHand
    BY <1>1 DEF InHand
  <2> HIDE Facts
  <2>2. freePkt' + Length(queue)' + Length(local)' + InHand' = Packets
    BY <1>1, <2>1, Counts
  <2>3. freeMsg' + Length(queue)' + Length(local)' + InHand'
         + others' + restarts' + AtMain' = Msgs
    BY <1>1, <1>3, <2>1, Counts
  <2> QED BY <2>2, <2>3, Balanced
<1>7. rpc' = rpc \/ rpc' = "wait"
  BY DEF Borrow, GiveBack, StopReceiver, Restart
<1>8. InOrder'
  BY <1>1, <1>7, OrderKept
<1> QED BY <1>2, <1>4, <1>5, <1>6, <1>8

(* Steps that touch neither packets nor pools.                             *)
LEMMA OtherStepsInv ==
  ASSUME SInv,
         Socket \/ Connect \/ NoConnection \/ (srun /\ CheckFlag) \/ Receive
           \/ ReceiverExits \/ StopServer \/ UNCHANGED vars
  PROVE  SInv'
<1> USE Facts DEF SInv, main, server, receiver, pools, vars, Keeps, Goes,
                  Socket, Connect, NoConnection, CheckFlag, Receive, ReceiverExits, StopServer
<1>1. /\ UNCHANGED <<restarts, held, local, queue, freePkt, freeMsg, others, last, since>>
      /\ (mpc' = mpc /\ (srun' = srun)) \/ (mpc = "joinReceiver" /\ mpc' = "joinServer" /\ srun' = FALSE)
  OBVIOUS
<1>2. npkt' = npkt \/ (npkt' = npkt + 1 /\ npkt < MaxPackets)
  OBVIOUS
<1>3. Shape'
  <2>1. npkt' \in 0 .. MaxPackets
    BY <1>2, BoundsAssumption DEF Shape
  <2>2. /\ spc' = spc \/ spc' \in {"connect", "exited", "create", "socket", "cleanup", "reconnect", "send"}
        /\ rpc' \in {rpc, "copy", "exited"} /\ rrun' = rrun /\ srun' \in {srun, FALSE}
        /\ mpc' \in {mpc, "joinServer"}
    OBVIOUS
  <2> HIDE Facts DEF SInv, main, server, receiver, pools, vars, Keeps, Goes,
          Socket, Connect, NoConnection, CheckFlag, Receive, ReceiverExits, StopServer
  <2>3. Shape
    BY DEF SInv
  <2> QED BY <1>1, <2>1, <2>2, <2>3 DEF Shape
<1>4. NoQueueLeftBehind'
  BY <1>1 DEF NoQueueLeftBehind
<1>5. BuffersConserved'
  BY <1>1 DEF BuffersConserved, InHand, AtMain
<1>6. StopFollowsRequest'
  BY <1>1 DEF StopFollowsRequest, Leaving
<1>7. InOrder'
  <2>1. CASE Receive
    <3>1. Handled' = Handled /\ npkt' > 0
      BY <2>1 DEF Handled, Shape
    <3> QED BY <1>1, <3>1 DEF InOrder, Fresh
  <2>2. CASE ~Receive
    <3>1. npkt' = npkt /\ (rpc' = rpc \/ rpc' # "copy")
      BY <2>2
    <3> QED BY <1>1, <3>1, OrderKept
  <2> QED BY <2>1, <2>2
<1> QED BY <1>3, <1>4, <1>5, <1>6, <1>7

(* The five ways to put the packet in hand down.                           *)
LEMMA PutDownStepsInv ==
  ASSUME SInv, Send \/ SendFails \/ Reconnects \/ ReconnectFails \/ Ends
  PROVE  SInv'
<1> USE DEF SInv, Send, SendFails, Reconnects, ReconnectFails, Ends, AfterLost, Goes,
            main, receiver
<1>1. held # NULL /\ PutDown
  BY DEF NoQueueLeftBehind
<1>2. /\ UNCHANGED <<mpc, restarts, srun, rrun, rpc, npkt, since>>
      /\ last' \in {last, held} /\ spc' \in {"take", "detach", "cleanup"}
  OBVIOUS
<1>3. restarts # 0 \/ mpc # "run" => spc' = "cleanup"
  BY DEF StopFollowsRequest, Leaving
<1> QED BY <1>1, <1>2, <1>3, PutDownInv

LEMMA NextSInv ==
  ASSUME SInv, [Next]_vars
  PROVE  SInv'
<1>1. CASE ServerSteps
  <2>1. CASE CheckFlag
    <3>1. srun
      BY <2>1 DEF SInv, StopFollowsRequest, Leaving, CheckFlag, Goes
    <3> QED BY <2>1, <3>1, OtherStepsInv
  <2> QED BY <1>1, <2>1, OtherStepsInv, CreateQueueInv, TakeInv, PutDownStepsInv, DetachInv,
             DrainInv, StartOverInv, ConnectionLostInv, ServerExitsInv DEF ServerSteps
<1>2. CASE Receive \/ Borrow \/ GiveBack \/ ReceiverSteps \/ MainSteps \/ UNCHANGED vars
  BY <1>2, OtherStepsInv, CopyInv, MessagesInv DEF ReceiverSteps, MainSteps
<1> QED BY <1>1, <1>2 DEF Next

(* At every moment the pools balance, whatever the outcome of a send, a    *)
(* reconnection or a stop; no queue is left behind, the stop meets only a  *)
(* server on its way out and the queue is in order.                        *)
THEOREM Invariance == Spec => []Inv
<1>1. Init => SInv
  BY InitInv, TypeGivesShape DEF Inv, SInv
<1>2. SInv /\ [Next]_vars => SInv'
  BY NextSInv
<1>3. SInv => Inv
  BY ShapeIsEnough DEF Inv, SInv
<1> QED BY <1>1, <1>2, <1>3, PTL DEF Spec

(* A step that sends, sends a packet newer than all before it and than the *)
(* queue it comes from.                                                    *)
LEMMA SentIsFresh ==
  ASSUME Inv, Next, last' # last
  PROVE  last' > last /\ last' > since
<1>1. Send
  BY DEF Next, ServerSteps, ReceiverSteps, MainSteps, Socket, Connect, CreateQueue, Take,
         CheckFlag, SendFails, NoConnection, Reconnects, ReconnectFails, Detach, Drain,
         StartOver, ConnectionLost, Ends, ServerExits, Receive, Borrow, GiveBack, Copy,
         ReceiverExits, StopReceiver, StopServer, Restart, Goes, server
<1>2. held # NULL /\ last' = held
  BY <1>1 DEF Send, Inv, NoQueueLeftBehind
<1>3. last < held /\ since < held /\ held \in Numbers
  BY <1>2 DEF Inv, InOrder, Fresh, TypeOK, Numbers
<1>4. last \in Int /\ since \in Int
  BY DEF Inv, TypeOK
<1> QED BY <1>2, <1>3, <1>4 DEF Numbers

(* Packets leave in the order they came in, none twice, and none from      *)
(* before the server last started over.                                    *)
THEOREM OnlyFreshOutput == Spec => NoStaleOutput
<1>1. Inv /\ [Next]_vars => [last' # last => last' > last /\ last' > since]_vars
  BY SentIsFresh
<1> QED BY <1>1, Invariance, PTL DEF Spec, NoStaleOutput
=============================================================================

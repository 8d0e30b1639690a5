-------------------------- MODULE PullServerProofs --------------------------
(***************************************************************************)
(* Proofs about the pull server, for any number of slots and clients,      *)
(* pools of any size and any number of datagrams and restarts: a slot has  *)
(* one owner at a time, no buffer is lost, and the threads together keep   *)
(* what module SlotTable promises.                                         *)
(***************************************************************************)
EXTENDS PullServer, SequenceTheorems, FiniteSetTheorems, TLAPS

-----------------------------------------------------------------------------
(* The inductive invariant                                                 *)

Numbers == 1 .. MaxPackets

(* TypeOK without the upper bounds that only the balance of the pools and  *)
(* of the failures gives.                                                  *)
Shape ==
    /\ mpc \in {"run", "joinReceiver", "joinServer"} /\ restarts \in Nat
    /\ srun \in BOOLEAN
    /\ spc \in {"bind", "listen", "failed", "accept", "scan", "create",
                "spawn", "cleanup", "exited"}
    /\ slot \in Slots /\ client \in Clients \cup {NULL} /\ fails \in 0 .. MaxFails
    /\ rrun \in BOOLEAN /\ rpc \in {"wait", "copy", "exited"}
    /\ rslot \in Slots /\ npkt \in 0 .. MaxPackets
    /\ queue \in [Slots -> Seq(Numbers) \cup {NULL}]
    /\ wrun \in [Slots -> BOOLEAN]
    /\ wpc \in [Clients -> {"new", "accepted", "rejected", "loop", "got", "send",
                            "cleanup", "drain", "closing", "gone"}]
    /\ wslot \in [Clients -> Slots]
    /\ held \in [Clients -> Numbers \cup {NULL}]
    /\ last \in [Clients -> 0 .. MaxPackets]
    /\ freePkt \in Nat /\ freeMsg \in Nat /\ others \in 0 .. MaxOthers

(* The client the server has accepted is in its hands until its worker     *)
(* starts or it is turned away.                                            *)
Accepting == spc \in {"scan", "create", "spawn"}
Phase ==
    /\ Accepting => client \in Clients /\ wpc[client] = "accepted"
    /\ \A c \in Clients : wpc[c] = "accepted" => Accepting /\ client = c
    /\ \A c \in Clients : held[c] # NULL => wpc[c] \in {"got", "send"}
    /\ restarts + (IF spc = "failed" THEN 1 ELSE 0) <= fails

(* The packets received that have been copied to slot s, or dropped.       *)
Handled(s) == IF rpc = "copy" /\ rslot <= s THEN npkt - 1 ELSE npkt

(* What the client c has yet to be sent from the queue q: newer than what  *)
(* it was sent and than what its worker holds, the newest packet first.    *)
Pending(c, s) ==
    /\ last[c] <= Handled(s)
    /\ held[c] # NULL => last[c] < held[c] /\ held[c] <= Handled(s)
    /\ \A i \in 1 .. Len(queue[s]) :
        /\ last[c] < queue[s][i] /\ queue[s][i] <= Handled(s)
        /\ held[c] # NULL => held[c] < queue[s][i]
        /\ \A j \in 1 .. i - 1 : queue[s][i] < queue[s][j]
InOrder ==
    /\ rpc = "copy" => npkt > 0
    /\ \A s \in Slots, c \in Clients : Owns(c, s) => Pending(c, s)

(* What the queues q hold, by slot and place; who of h holds a packet.     *)
Size(q) == IF q = NULL THEN 0 ELSE Len(q)
InHand(p) == IF p = NULL THEN 0 ELSE 1
Column(q, s) == {s} \X (1 .. Size(q[s]))
Places(q) == UNION {Column(q, s) : s \in Slots}
Holders(h) == {c \in Clients : h[c] # NULL}
Finite == IsFiniteSet(Places(queue)) /\ IsFiniteSet(Holders(held))

IInv == Shape /\ Phase /\ OneOwnerPerSlot /\ InOrder /\ Finite /\ BuffersConserved

(* The parts of OneOwnerPerSlot.                                           *)
SlotsOwned == \A s \in Slots : queue[s] # NULL <=> \E c \in Clients : Owns(c, s)
OneOwner == \A s \in Slots, c, d \in Clients : Owns(c, s) /\ Owns(d, s) => c = d
StillFree == spc = "create" => queue[slot] = NULL
HoldsMessage ==
    \A c \in Clients :
        wpc[c] = "send" \/ (wpc[c] = "got" /\ wrun[wslot[c]]) => held[c] # NULL

LEMMA OwnerParts ==
  OneOwnerPerSlot <=> SlotsOwned /\ OneOwner /\ StillFree /\ HoldsMessage
BY DEF OneOwnerPerSlot, SlotsOwned, OneOwner, StillFree, HoldsMessage

-----------------------------------------------------------------------------
(* Counting                                                                *)

LEMMA PlacesMember ==
  ASSUME NEW q, NEW x
  PROVE  x \in Places(q) <=> \E s \in Slots : x \in Column(q, s)
BY DEF Places

LEMMA ColumnMember ==
  ASSUME NEW q, NEW s, NEW x
  PROVE  x \in Column(q, s) <=> \E i \in 1 .. Size(q[s]) : x = <<s, i>>
BY DEF Column

LEMMA ColumnCount ==
  ASSUME NEW q, NEW s, Size(q[s]) \in Nat
  PROVE  IsFiniteSet(Column(q, s)) /\ Cardinality(Column(q, s)) = Size(q[s])
<1> DEFINE n == Size(q[s])
<1>1. n \in Nat
  OBVIOUS
<1> HIDE DEF n
<1>2. IsFiniteSet(1 .. n) /\ Cardinality(1 .. n) = n
  <2>1. /\ IsFiniteSet(1 .. n)
        /\ Cardinality(1 .. n) = IF 1 > n THEN 0 ELSE n - 1 + 1
    BY <1>1, FS_Interval
  <2> QED BY <1>1, <2>1
<1>3. IsFiniteSet({s}) /\ Cardinality({s}) = 1
  BY FS_Singleton
<1>4. /\ IsFiniteSet({s} \X (1 .. n))
      /\ Cardinality({s} \X (1 .. n)) = Cardinality({s}) * Cardinality(1 .. n)
  BY <1>2, <1>3, FS_Product
<1>5. 1 * n = n
  BY <1>1
<1> QED BY <1>2, <1>3, <1>4, <1>5 DEF Column, n

(* One queue changes: the count changes by the difference of its sizes.    *)
LEMMA PlacesChange ==
  ASSUME NEW q, NEW r, NEW s \in Slots, \A t \in Slots \ {s} : r[t] = q[t],
         IsFiniteSet(Places(q)), Size(q[s]) \in Nat, Size(r[s]) \in Nat
  PROVE  /\ IsFiniteSet(Places(r))
         /\ Cardinality(Places(r)) + Size(q[s]) = Cardinality(Places(q)) + Size(r[s])
<1> DEFINE Rest == Places(q) \ Column(q, s)
<1>1. Places(q) = Rest \cup Column(q, s) /\ Rest \cap Column(q, s) = {}
  BY PlacesMember
<1>2. \A x : x \in Rest <=> \E t \in Slots \ {s} : x \in Column(q, t)
  <2>1. \A x : \A t \in Slots \ {s} : x \in Column(q, t) => x \notin Column(q, s)
    BY ColumnMember
  <2> QED BY <2>1, PlacesMember
<1>3. \A t \in Slots \ {s} : Column(r, t) = Column(q, t)
  BY DEF Column
<1>4. Places(r) = Rest \cup Column(r, s)
  BY <1>2, <1>3, PlacesMember
<1>5. Rest \cap Column(r, s) = {}
  <2>1. \A x : \A t \in Slots \ {s} : x \in Column(q, t) => x \notin Column(r, s)
    BY ColumnMember
  <2> QED BY <1>2, <2>1
<1>6. IsFiniteSet(Rest)
  BY FS_Difference
<1> HIDE DEF Rest
<1>7. /\ IsFiniteSet(Column(q, s)) /\ Cardinality(Column(q, s)) = Size(q[s])
      /\ IsFiniteSet(Column(r, s)) /\ Cardinality(Column(r, s)) = Size(r[s])
  BY ColumnCount
<1>8. Cardinality(Rest) \in Nat /\ Cardinality({}) = 0
  BY <1>6, FS_CardinalityType, FS_EmptySet
<1>9. Cardinality(Places(q)) = Cardinality(Rest) + Size(q[s]) - 0
  BY <1>1, <1>6, <1>7, <1>8, FS_Union
<1>10. /\ IsFiniteSet(Places(r))
       /\ Cardinality(Places(r)) = Cardinality(Rest) + Size(r[s]) - 0
  BY <1>4, <1>5, <1>6, <1>7, <1>8, FS_Union
<1> QED BY <1>8, <1>9, <1>10

(* One client takes a packet or puts it down.                              *)
LEMMA HoldersChange ==
  ASSUME NEW h, NEW g, NEW c \in Clients, \A d \in Clients \ {c} : g[d] = h[d],
         IsFiniteSet(Holders(h))
  PROVE  /\ IsFiniteSet(Holders(g))
         /\ Cardinality(Holders(g)) + InHand(h[c]) = Cardinality(Holders(h)) + InHand(g[c])
<1> DEFINE Rest == Holders(h) \ {c}
<1>1. /\ IsFiniteSet(Rest)
      /\ Cardinality(Rest) = IF c \in Holders(h) THEN Cardinality(Holders(h)) - 1
                             ELSE Cardinality(Holders(h))
  BY FS_RemoveElement
<1>2. c \notin Rest /\ Cardinality(Holders(h)) \in Nat /\ Cardinality(Rest) \in Nat
  BY <1>1, FS_CardinalityType
<1>3. Cardinality(Holders(h)) = Cardinality(Rest) + InHand(h[c])
  BY <1>1, <1>2 DEF Holders, InHand
<1>4. CASE g[c] = NULL
  <2>1. Holders(g) = Rest
    BY <1>4 DEF Holders
  <2> QED BY <1>1, <1>2, <1>3, <1>4, <2>1 DEF InHand
<1>5. CASE g[c] # NULL
  <2>1. Holders(g) = Rest \cup {c}
    BY <1>5 DEF Holders
  <2>2. IsFiniteSet(Holders(g)) /\ Cardinality(Holders(g)) = Cardinality(Rest) + 1
    BY <1>1, <1>2, <2>1, FS_AddElement
  <2> QED BY <1>2, <1>3, <1>5, <2>2 DEF InHand
<1> QED BY <1>4, <1>5

LEMMA Counted ==
  /\ Queued = Cardinality(Places(queue)) /\ Held = Cardinality(Holders(held))
  /\ \A s : Length(s) = Size(queue[s])
  /\ \A c : Returned(c) = InHand(held[c])
BY DEF Queued, Held, Places, Holders, Column, Length, Size, Returned, InHand

-----------------------------------------------------------------------------
(* Queues                                                                  *)

LEMMA NullFacts ==
  /\ NULL \notin Nat /\ NULL \notin Clients
  /\ \A q \in Seq(Numbers) : q # NULL
<1>1. ASSUME NEW q \in Seq(Numbers) PROVE q \in Seq(Nat)
  <2>1. Numbers \subseteq Nat
    BY DEF Numbers
  <2> QED BY <2>1, SeqMonotonic
<1> QED BY <1>1, NullAssumption

LEMMA SizeFacts ==
  ASSUME NEW q \in Seq(Numbers) \cup {NULL}
  PROVE  /\ Size(q) \in Nat
         /\ q # NULL => /\ q \in Seq(Numbers) /\ Size(q) = Len(q)
                        /\ \A i \in 1 .. Len(q) : q[i] \in Numbers
         /\ Size(NULL) = 0
BY LenProperties, ElementOfSeq DEF Size

(* A queue without its last packet.                                        *)
LEMMA LastTaken ==
  ASSUME NEW q \in Seq(Numbers), Len(q) > 0
  PROVE  /\ Len(q) \in Nat \ {0}
         /\ SubSeq(q, 1, Len(q) - 1) \in Seq(Numbers)
         /\ Len(SubSeq(q, 1, Len(q) - 1)) = Len(q) - 1
         /\ \A i \in 1 .. Len(q) - 1 : SubSeq(q, 1, Len(q) - 1)[i] = q[i]
<1>1. Len(q) \in Nat \ {0} /\ \A i \in 1 .. Len(q) : q[i] \in Numbers
  BY LenProperties, ElementOfSeq
<1>2. \A i \in 1 .. Len(q) - 1 : q[i] \in Numbers
  BY <1>1
<1>3. /\ SubSeq(q, 1, Len(q) - 1) \in Seq(Numbers)
      /\ Len(SubSeq(q, 1, Len(q) - 1)) = IF 1 <= Len(q) - 1 THEN (Len(q) - 1) - 1 + 1 ELSE 0
      /\ \A i \in 1 .. (Len(q) - 1) - 1 + 1 : SubSeq(q, 1, Len(q) - 1)[i] = q[1 + i - 1]
  <2>1. 1 \in Int /\ Len(q) - 1 \in Int
    BY <1>1
  <2> QED BY <1>2, <2>1, SubSeqProperties
<1>4. \A k \in Nat \ {0} : /\ (IF 1 <= k - 1 THEN (k - 1) - 1 + 1 ELSE 0) = k - 1
                           /\ (k - 1) - 1 + 1 = k - 1
                           /\ \A i \in 1 .. k - 1 : 1 + i - 1 = i
  OBVIOUS
<1>5. Len(SubSeq(q, 1, Len(q) - 1)) = Len(q) - 1
  BY <1>1, <1>3, <1>4
<1>6. \A i \in 1 .. Len(q) - 1 : SubSeq(q, 1, Len(q) - 1)[i] = q[i]
  BY <1>1, <1>3, <1>4
<1> QED BY <1>1, <1>3, <1>5, <1>6

(* A queue with a packet put in front.                                     *)
LEMMA FirstAdded ==
  ASSUME NEW q \in Seq(Numbers), NEW p \in Numbers
  PROVE  /\ Add(q, p) \in Seq(Numbers) /\ Len(Add(q, p)) = Len(q) + 1
         /\ Add(q, p)[1] = p
         /\ \A i \in 2 .. Len(q) + 1 : Add(q, p)[i] = q[i - 1]
<1>1. <<p>> \in Seq(Numbers) /\ Len(<<p>>) = 1 /\ <<p>>[1] = p
  OBVIOUS
<1>2. Len(q) \in Nat
  BY LenProperties
<1> QED BY <1>1, <1>2, ConcatProperties DEF Add




-----------------------------------------------------------------------------
(* What every step needs                                                   *)

AtMain == IF mpc = "run" THEN 0 ELSE 1

LEMMA Assembled ==
  ASSUME Shape', Phase', SlotsOwned', OneOwner', StillFree', HoldsMessage', InOrder', Finite',
         BuffersConserved'
  PROVE  IInv'
BY DEF IInv, OneOwnerPerSlot, SlotsOwned, OneOwner, StillFree, HoldsMessage

LEMMA Counts ==
  ASSUME IInv
  PROVE  /\ Queued \in Nat /\ Held \in Nat /\ AtMain \in Nat /\ restarts \in Nat
         /\ freePkt \in Nat /\ freeMsg \in Nat /\ others \in Nat
<1>1. Shape /\ Finite
  BY DEF IInv
<1>2. Queued \in Nat /\ Held \in Nat
  BY <1>1, Counted, FS_CardinalityType DEF Finite
<1> QED BY <1>1, <1>2, BoundsAssumption DEF Shape, AtMain

(* A step that moves buffers without losing one keeps the balance.         *)
LEMMA Balanced ==
  ASSUME IInv,
         freePkt' + Queued' + Held' = freePkt + Queued + Held,
         freeMsg' + Queued' + Held' + others' + restarts' + AtMain'
         = freeMsg + Queued + Held + others + restarts + AtMain
  PROVE  BuffersConserved'
BY DEF IInv, BuffersConserved, AtMain

LEMMA CountsKept ==
  ASSUME IInv, UNCHANGED <<queue, held>>
  PROVE  Queued' = Queued /\ Held' = Held /\ Finite'
BY Counted DEF IInv, Finite, Queued, Held, Places, Holders, Column, Length, Size

(* The buffers stay where they are.                                        *)
LEMMA BooksKept ==
  ASSUME IInv, UNCHANGED <<queue, held, freePkt>>,
         freeMsg' + others' + restarts' + AtMain' = freeMsg + others + restarts + AtMain,
         freeMsg' \in Nat, others' \in Nat, restarts' \in Nat, AtMain' \in Nat
  PROVE  BuffersConserved' /\ Finite'
<1>1. Queued' = Queued /\ Held' = Held /\ Finite'
  BY CountsKept
<1>2. freeMsg' + Queued' + Held' + others' + restarts' + AtMain'
      = freeMsg + Queued + Held + others + restarts + AtMain
  <2>1. \A a, q, h, o, r, m \in Nat : a + q + h + o + r + m = (a + o + r + m) + (q + h)
    OBVIOUS
  <2>2. freeMsg' + Queued + Held + others' + restarts' + AtMain'
        = (freeMsg' + others' + restarts' + AtMain') + (Queued + Held)
    BY <2>1, Counts
  <2>3. freeMsg + Queued + Held + others + restarts + AtMain
        = (freeMsg + others + restarts + AtMain) + (Queued + Held)
    BY <2>1, Counts
  <2> QED BY <1>1, <2>2, <2>3
<1> QED BY <1>1, <1>2, Balanced

(* One queue is replaced by r.                                             *)
LEMMA QueueChanges ==
  ASSUME IInv, NEW s \in Slots, NEW r \in Seq(Numbers) \cup {NULL},
         queue' = [queue EXCEPT ![s] = r]
  PROVE  /\ IsFiniteSet(Places(queue))'
         /\ Queued' \in Nat /\ Size(queue[s]) \in Nat /\ Size(r) \in Nat
         /\ Queued' + Size(queue[s]) = Queued + Size(r)
         /\ queue' \in [Slots -> Seq(Numbers) \cup {NULL}] /\ queue'[s] = r
         /\ \A t \in Slots \ {s} : queue'[t] = queue[t]
<1>1. queue \in [Slots -> Seq(Numbers) \cup {NULL}] /\ IsFiniteSet(Places(queue))
  BY DEF IInv, Shape, Finite
<1>2. /\ queue' \in [Slots -> Seq(Numbers) \cup {NULL}] /\ queue'[s] = r
      /\ \A t \in Slots \ {s} : queue'[t] = queue[t]
  BY <1>1
<1>3. Size(queue[s]) \in Nat /\ Size(r) \in Nat
  BY <1>1, SizeFacts
<1>4. /\ IsFiniteSet(Places(queue'))
      /\ Cardinality(Places(queue')) + Size(queue[s]) = Cardinality(Places(queue)) + Size(r)
  <2>1. Size(queue'[s]) \in Nat /\ Size(queue'[s]) = Size(r)
    BY <1>2, <1>3
  <2>2. /\ IsFiniteSet(Places(queue'))
        /\ Cardinality(Places(queue')) + Size(queue[s])
           = Cardinality(Places(queue)) + Size(queue'[s])
    BY <1>1, <1>2, <1>3, <2>1, PlacesChange
  <2> QED BY <2>1, <2>2
<1>5. Queued' = Cardinality(Places(queue')) /\ Places(queue)' = Places(queue')
  BY DEF Queued, Places, Column, Length, Size
<1>6. Cardinality(Places(queue')) \in Nat
  BY <1>4, FS_CardinalityType
<1> QED BY <1>2, <1>3, <1>4, <1>5, <1>6, Counted

(* One client takes the packet p, or puts its packet down.                 *)
LEMMA HandChanges ==
  ASSUME IInv, NEW c \in Clients, NEW p \in Numbers \cup {NULL},
         held' = [held EXCEPT ![c] = p]
  PROVE  /\ IsFiniteSet(Holders(held))'
         /\ Held' \in Nat /\ InHand(held[c]) \in Nat /\ InHand(p) \in Nat
         /\ Held' + InHand(held[c]) = Held + InHand(p)
         /\ held' \in [Clients -> Numbers \cup {NULL}] /\ held'[c] = p
         /\ \A d \in Clients \ {c} : held'[d] = held[d]
<1>1. held \in [Clients -> Numbers \cup {NULL}] /\ IsFiniteSet(Holders(held))
  BY DEF IInv, Shape, Finite
<1>2. /\ held' \in [Clients -> Numbers \cup {NULL}] /\ held'[c] = p
      /\ \A d \in Clients \ {c} : held'[d] = held[d]
  BY <1>1
<1>3. InHand(held[c]) \in Nat /\ InHand(p) \in Nat
  BY DEF InHand
<1>4. /\ IsFiniteSet(Holders(held'))
      /\ Cardinality(Holders(held')) + InHand(held[c]) = Cardinality(Holders(held)) + InHand(p)
  <2>1. /\ IsFiniteSet(Holders(held'))
        /\ Cardinality(Holders(held')) + InHand(held[c])
           = Cardinality(Holders(held)) + InHand(held'[c])
    <3>1. IsFiniteSet(Holders(held)) /\ \A d \in Clients \ {c} : held'[d] = held[d]
      BY <1>1, <1>2
    <3> QED BY ONLY <3>1, c \in Clients, HoldersChange
  <2> QED BY <1>2, <2>1
<1>5. Held' = Cardinality(Holders(held')) /\ Holders(held)' = Holders(held')
  BY DEF Held, Holders
<1>6. Cardinality(Holders(held')) \in Nat
  BY <1>4, FS_CardinalityType
<1> QED BY <1>2, <1>3, <1>4, <1>5, <1>6, Counted

(* Who owns what only changes when a worker starts or leaves its slot.     *)
LEMMA SameOwners ==
  ASSUME UNCHANGED wslot, \A c \in Clients : Active(c)' <=> Active(c),
         spc' = "spawn" <=> spc = "spawn",
         spc = "spawn" => UNCHANGED <<client, slot>>
  PROVE  \A c \in Clients : \A s : Owns(c, s)' <=> Owns(c, s)
BY DEF Owns

LEMMA OwnersKept ==
  ASSUME IInv, UNCHANGED queue,
         \A c \in Clients : \A s : Owns(c, s)' <=> Owns(c, s)
  PROVE  SlotsOwned' /\ OneOwner'
<1>1. SlotsOwned /\ OneOwner
  BY OwnerParts DEF IInv
<1>2. OneOwner'
  BY <1>1 DEF OneOwner
<1>3. ASSUME NEW s \in Slots
      PROVE  queue[s] # NULL <=> \E c \in Clients : Owns(c, s)'
  BY <1>1 DEF SlotsOwned
<1> QED BY <1>2, <1>3 DEF SlotsOwned

(* Only the receiver's place changes what has been handled.                *)
LEMMA OrderKept ==
  ASSUME IInv, UNCHANGED <<queue, held, last, rslot, npkt>>,
         rpc # "copy" \/ rpc' = rpc, rpc' # "copy" \/ rpc' = rpc,
         \A c \in Clients : \A s : Owns(c, s)' <=> Owns(c, s)
  PROVE  InOrder'
<1>1. \A s : Handled(s)' = Handled(s)
  BY DEF Handled
<1>2. \A c, s : Pending(c, s)' <=> Pending(c, s)
  BY <1>1 DEF Pending
<1> QED BY <1>2 DEF IInv, InOrder

LEMMA InitInv == Init => IInv
<1> SUFFICES ASSUME Init PROVE IInv
  OBVIOUS
<1> USE NullFacts, SlotsAssumption, PoolsAssumption, BoundsAssumption DEF Init
<1>1. Shape
  <2>1. 1 \in Slots /\ 0 \in 0 .. MaxPackets /\ 0 \in 0 .. MaxFails /\ 0 \in 0 .. MaxOthers
    BY DEF Slots
  <2> QED BY <2>1 DEF Shape
<1>2. Phase
  BY DEF Phase, Accepting
<1>3. \A c \in Clients : \A s : ~Owns(c, s)
  BY DEF Owns, Active
<1>4. OneOwnerPerSlot
  BY <1>3, OwnerParts DEF SlotsOwned, OneOwner, StillFree, HoldsMessage
<1>5. InOrder
  BY <1>3 DEF InOrder
<1>6. Places(queue) = {} /\ Holders(held) = {}
  <2>1. \A s \in Slots : Size(queue[s]) = 0 /\ Column(queue, s) = {}
    BY DEF Size, Column
  <2> QED BY <2>1 DEF Places, Holders
<1>7. Finite /\ Queued = 0 /\ Held = 0
  BY <1>6, Counted, FS_EmptySet DEF Finite
<1>8. BuffersConserved
  BY <1>7 DEF BuffersConserved
<1> QED BY <1>1, <1>2, <1>4, <1>5, <1>7, <1>8 DEF IInv

-----------------------------------------------------------------------------
(* The server                                                              *)

(* It waits, looks at the next slot or finds one free.                     *)
LEMMA ServerMovesInv ==
  ASSUME IInv, Bind \/ Listen \/ ListenFails \/ AcceptFails \/ ScanBusy \/ ScanFree
  PROVE  IInv'
<1>0. /\ Shape /\ Phase /\ SlotsOwned /\ OneOwner /\ StillFree /\ HoldsMessage
      /\ InOrder /\ Finite
  BY OwnerParts DEF IInv
<1> USE <1>0
<1>1. /\ spc' \in {"listen", "failed", "accept", "scan", "create", "cleanup"}
      /\ spc \in {"bind", "listen", "accept", "scan"}
      /\ Accepting' <=> Accepting
      /\ spc' = "create" => queue[slot] = NULL /\ slot' = slot
      /\ slot' \in Slots /\ fails' \in 0 .. MaxFails /\ fails' >= fails
      /\ spc' = "failed" => fails' = fails + 1
      /\ UNCHANGED <<mpc, restarts, srun, client, rrun, rpc, rslot, npkt, queue, wrun,
                     wpc, wslot, held, last, freePkt, freeMsg, others>>
  <2>1. /\ fails \in 0 .. MaxFails /\ fails \in Nat /\ MaxFails \in Nat
        /\ slot \in Slots /\ N \in Nat /\ (slot < N => slot + 1 \in Slots)
    BY BoundsAssumption, SlotsAssumption DEF Shape, Slots
  <2> USE <2>1 DEF Accepting, main, server, receiver, workers, pools
  <2>2. CASE Bind
    BY <2>2 DEF Bind
  <2>3. CASE Listen
    BY <2>3 DEF Listen
  <2>4. CASE ListenFails
    BY <2>4 DEF ListenFails
  <2>5. CASE AcceptFails
    BY <2>5 DEF AcceptFails
  <2>6. CASE ScanBusy
    BY <2>6 DEF ScanBusy
  <2>7. CASE ScanFree
    BY <2>7 DEF ScanFree, FreeSlot
  <2> QED BY <2>2, <2>3, <2>4, <2>5, <2>6, <2>7
<1>2. Shape'
  BY <1>1 DEF Shape
<1>3. Phase'
  <2>1. restarts \in Nat /\ fails \in Nat /\ fails' \in Nat /\ restarts <= fails
    BY <1>1, BoundsAssumption DEF Shape, Phase
  <2>2. restarts' + (IF spc' = "failed" THEN 1 ELSE 0) <= fails'
    BY <1>1, <2>1
  <2> QED BY <1>1, <2>2 DEF Phase
<1>4. \A c \in Clients : \A s : Owns(c, s)' <=> Owns(c, s)
  BY <1>1, SameOwners DEF Active
<1>5. SlotsOwned' /\ OneOwner' /\ InOrder'
  BY <1>1, <1>4, OwnersKept, OrderKept
<1>6. StillFree' /\ HoldsMessage'
  BY <1>1 DEF StillFree, HoldsMessage
<1>7. BuffersConserved' /\ Finite'
  BY <1>1, Counts, BooksKept DEF AtMain
<1> QED BY <1>2, <1>3, <1>5, <1>6, <1>7, Assembled

(* A restart message is sent, if there is a buffer for it.                 *)
LEMMA ReportInv ==
  ASSUME IInv, Report
  PROVE  IInv'
<1>0. /\ Shape /\ Phase /\ SlotsOwned /\ OneOwner /\ StillFree /\ HoldsMessage
      /\ InOrder /\ Finite
  BY OwnerParts DEF IInv
<1> USE <1>0
<1>1. /\ spc = "failed" /\ spc' = "cleanup"
      /\ restarts' \in Nat /\ freeMsg' \in Nat
      /\ restarts' <= restarts + 1 /\ freeMsg' + restarts' = freeMsg + restarts
      /\ UNCHANGED <<mpc, srun, slot, client, fails, rrun, rpc, rslot, npkt, queue,
                     wrun, wpc, wslot, held, last, freePkt, others>>
  <2>1. restarts \in Nat /\ freeMsg \in Nat
    BY DEF Shape
  <2>2. CASE freeMsg > 0
    BY <2>1, <2>2 DEF Report, receiver, workers
  <2>3. CASE ~(freeMsg > 0)
    BY <2>1, <2>3 DEF Report, receiver, workers
  <2> QED BY <2>2, <2>3
<1>2. Shape'
  BY <1>1 DEF Shape
<1>3. Phase'
  <2>1. restarts + 1 <= fails /\ restarts \in Nat /\ fails \in Nat
    BY <1>1, BoundsAssumption DEF Shape, Phase
  <2>2. restarts' + (IF spc' = "failed" THEN 1 ELSE 0) <= fails'
    <3>1. \A a, b, c \in Nat : a <= b + 1 /\ b + 1 <= c => a + 0 <= c
      OBVIOUS
    <3>2. restarts' + 0 <= fails
      BY <1>1, <2>1, <3>1, Zenon
    <3> QED BY <1>1, <3>2
  <2> QED BY <1>1, <2>2 DEF Phase, Accepting
<1>4. \A c \in Clients : \A s : Owns(c, s)' <=> Owns(c, s)
  BY <1>1, SameOwners DEF Active
<1>5. SlotsOwned' /\ OneOwner' /\ InOrder'
  BY <1>1, <1>4, OwnersKept, OrderKept
<1>6. StillFree' /\ HoldsMessage'
  BY <1>1 DEF StillFree, HoldsMessage
<1>7. BuffersConserved' /\ Finite'
  <2>1. AtMain' = AtMain
    BY <1>1 DEF AtMain
  <2>2. freeMsg' + others' + restarts' + AtMain' = freeMsg + others + restarts + AtMain
    BY <1>1, <2>1, Counts
  <2> QED BY <1>1, <2>1, <2>2, Counts, BooksKept
<1> QED BY <1>2, <1>3, <1>5, <1>6, <1>7, Assembled

(* A client comes, or is turned away since every slot is taken.            *)
LEMMA AcceptInv ==
  ASSUME IInv, NEW c \in Clients,
         Accept(c) \/ (Reject /\ c = client)
  PROVE  IInv'
<1>0. /\ Shape /\ Phase /\ SlotsOwned /\ OneOwner /\ StillFree /\ HoldsMessage
      /\ InOrder /\ Finite
  BY OwnerParts DEF IInv
<1> USE <1>0
<1>1. /\ \/ /\ spc = "accept" /\ spc' = "scan" /\ slot' = 1 /\ client' = c
            /\ wpc[c] = "new" /\ wpc' = [wpc EXCEPT ![c] = "accepted"]
         \/ /\ spc = "scan" /\ spc' = "listen" /\ slot' = slot /\ client' = NULL
            /\ c = client /\ wpc' = [wpc EXCEPT ![c] = "rejected"]
      /\ UNCHANGED <<mpc, restarts, srun, fails, rrun, rpc, rslot, npkt, queue, wrun,
                     wslot, held, last, freePkt, freeMsg, others>>
  BY DEF Accept, Reject, main, receiver, pools
<1>2. wpc \in [Clients -> {"new", "accepted", "rejected", "loop", "got", "send",
                         "cleanup", "drain", "closing", "gone"}]
  BY DEF Shape
<1>3. /\ wpc[c] \in {"new", "accepted"} /\ wpc'[c] \in {"accepted", "rejected"}
      /\ wpc'[c] = "accepted" <=> spc' = "scan"
      /\ \A d \in Clients : d # c => wpc'[d] = wpc[d]
  BY <1>1, <1>2 DEF Phase, Accepting
<1>4. Shape'
  <2>1. slot' \in Slots /\ client' \in Clients \cup {NULL} /\ spc' \in {"scan", "listen"}
    BY <1>1, SlotsAssumption DEF Shape, Slots
  <2>2. wpc' \in [Clients -> {"new", "accepted", "rejected", "loop", "got", "send",
                            "cleanup", "drain", "closing", "gone"}]
    BY <1>1, <1>2
  <2> QED BY <1>1, <2>1, <2>2 DEF Shape
<1>5. Phase'
  <2>1. Accepting' <=> spc' = "scan"
    BY <1>1 DEF Accepting
  <2>2. Accepting' => client' \in Clients /\ wpc'[client'] = "accepted"
    BY <1>1, <1>3, <2>1
  <2>3. ASSUME NEW d \in Clients, wpc'[d] = "accepted"
        PROVE  Accepting' /\ client' = d
    BY <1>1, <1>3, <2>1, <2>3 DEF Phase, Accepting
  <2>4. \A d \in Clients : held'[d] # NULL => wpc'[d] \in {"got", "send"}
    BY <1>1, <1>3 DEF Phase
  <2>5. restarts' + (IF spc' = "failed" THEN 1 ELSE 0) <= fails'
    BY <1>1 DEF Phase
  <2> QED BY <2>2, <2>3, <2>4, <2>5 DEF Phase
<1>6. \A d \in Clients : \A s : Owns(d, s)' <=> Owns(d, s)
  <2>1. \A d \in Clients : Active(d)' <=> Active(d)
    BY <1>3 DEF Active
  <2> QED BY <1>1, <2>1, SameOwners
<1>7. SlotsOwned' /\ OneOwner' /\ InOrder'
  BY <1>1, <1>6, OwnersKept, OrderKept
<1>8. StillFree' /\ HoldsMessage'
  BY <1>1, <1>3 DEF StillFree, HoldsMessage
<1>9. BuffersConserved' /\ Finite'
  BY <1>1, Counts, BooksKept DEF AtMain
<1> QED BY <1>4, <1>5, <1>7, <1>8, <1>9, Assembled

(* The slot found free is still free: no other client can own it.          *)
LEMMA CreateQueueInv ==
  ASSUME IInv, CreateQueue
  PROVE  IInv'
<1>0. /\ Shape /\ Phase /\ SlotsOwned /\ OneOwner /\ StillFree /\ HoldsMessage
      /\ InOrder /\ Finite
  BY OwnerParts DEF IInv
<1> USE <1>0
<1>1. /\ spc = "create" /\ spc' = "spawn"
      /\ queue' = [queue EXCEPT ![slot] = <<>>]
      /\ last' = [last EXCEPT ![client] = IF rpc = "copy" THEN npkt - 1 ELSE npkt]
      /\ UNCHANGED <<mpc, restarts, srun, slot, client, fails, rrun, rpc, rslot, npkt,
                     wrun, wpc, wslot, held, freePkt, freeMsg, others>>
  BY DEF CreateQueue, main, receiver, pools
<1>2. /\ client \in Clients /\ wpc[client] = "accepted" /\ slot \in Slots
      /\ queue[slot] = NULL /\ <<>> \in Seq(Numbers) /\ <<>> # NULL
  <2>1. <<>> \in Seq(Numbers)
    BY EmptySeq
  <2> QED BY <1>1, <2>1, NullFacts DEF Phase, Accepting, StillFree, Shape
<1>3. /\ queue' \in [Slots -> Seq(Numbers) \cup {NULL}] /\ queue'[slot] = <<>>
      /\ \A t \in Slots \ {slot} : queue'[t] = queue[t]
      /\ IsFiniteSet(Places(queue))' /\ Queued' = Queued
  <2>1. Size(queue[slot]) = 0 /\ Size(<<>>) = 0
    BY <1>2, EmptySeq DEF Size
  <2>2. /\ IsFiniteSet(Places(queue))' /\ Queued' \in Nat
        /\ Queued' + Size(queue[slot]) = Queued + Size(<<>>)
        /\ queue' \in [Slots -> Seq(Numbers) \cup {NULL}] /\ queue'[slot] = <<>>
        /\ \A t \in Slots \ {slot} : queue'[t] = queue[t]
    <3>1. <<>> \in Seq(Numbers) \cup {NULL} /\ slot \in Slots
      BY <1>2
    <3>2. queue' = [queue EXCEPT ![slot] = <<>>]
      BY <1>1
    <3> QED BY ONLY IInv, <3>1, <3>2, QueueChanges, Zenon
  <2> QED BY <2>1, <2>2, Counts
<1>4. /\ last' \in [Clients -> 0 .. MaxPackets]
      /\ last'[client] = (IF rpc = "copy" THEN npkt - 1 ELSE npkt)
      /\ \A d \in Clients : d # client => last'[d] = last[d]
  <2>1. (IF rpc = "copy" THEN npkt - 1 ELSE npkt) \in 0 .. MaxPackets
    BY BoundsAssumption DEF InOrder, Shape
  <2>2. last \in [Clients -> 0 .. MaxPackets]
    BY DEF Shape
  <2> QED BY <1>1, <1>2, <2>1, <2>2
<1>5. Shape'
  BY <1>1, <1>3, <1>4 DEF Shape
<1>6. Phase'
  BY <1>1 DEF Phase, Accepting
<1>7. /\ \A c \in Clients : \A s : Owns(c, s)' <=> Owns(c, s) \/ (c = client /\ s = slot)
      /\ \A c \in Clients : ~Owns(c, slot)
  <2>1. \A c \in Clients : Active(c)' <=> Active(c)
    BY <1>1 DEF Active
  <2>2. \A c \in Clients : \A s : Owns(c, s)' <=> Owns(c, s) \/ (c = client /\ s = slot)
    BY <1>1, <2>1 DEF Owns
  <2> QED BY <1>2, <2>2 DEF SlotsOwned
<1>8. SlotsOwned' /\ OneOwner'
  <2>1. ASSUME NEW s \in Slots
        PROVE  queue'[s] # NULL <=> \E c \in Clients : Owns(c, s)'
    BY <1>2, <1>3, <1>7 DEF SlotsOwned
  <2>2. ASSUME NEW s \in Slots, NEW c \in Clients, NEW d \in Clients,
               Owns(c, s)', Owns(d, s)'
        PROVE  c = d
    BY <1>7, <2>2 DEF OneOwner
  <2> QED BY <2>1, <2>2 DEF SlotsOwned, OneOwner
<1>9. StillFree' /\ HoldsMessage'
  BY <1>1 DEF StillFree, HoldsMessage
<1>10. InOrder'
  <2>1. \A s : Handled(s)' = Handled(s)
    BY <1>1 DEF Handled
  <2>2. Pending(client, slot)'
    <3>1. Handled(slot) \in Int /\ last'[client] <= Handled(slot)
      BY BoundsAssumption, <1>4 DEF Handled, Shape
    <3>2. held[client] = NULL /\ 1 .. Len(queue'[slot]) = {}
      BY <1>2, <1>3, EmptySeq DEF Phase
    <3> QED BY <1>1, <2>1, <3>1, <3>2 DEF Pending
  <2>3. ASSUME NEW s \in Slots, NEW c \in Clients, Owns(c, s)
        PROVE  Pending(c, s)'
    <3>1. s # slot /\ queue'[s] = queue[s] /\ Pending(c, s)
      BY <1>3, <1>7, <2>3 DEF InOrder
    <3>2. c # client
      <4>1. ~Active(client)
        BY <1>2 DEF Active
      <4> QED BY <1>1, <2>3, <4>1 DEF Owns
    <3> QED BY <1>1, <1>4, <2>1, <3>1, <3>2 DEF Pending
  <2> QED BY <1>1, <1>7, <2>2, <2>3 DEF InOrder
<1>11. BuffersConserved' /\ Finite'
  <2>1. Held' = Held /\ IsFiniteSet(Holders(held))' /\ AtMain' = AtMain
    BY <1>1 DEF Held, Holders, Finite, AtMain
  <2> QED BY <1>1, <1>3, <2>1, Balanced DEF Finite
<1> QED BY <1>5, <1>6, <1>8, <1>9, <1>10, <1>11, Assembled

(* The worker takes over from the server.                                  *)
LEMMA SpawnInv ==
  ASSUME IInv, Spawn
  PROVE  IInv'
<1>0. /\ Shape /\ Phase /\ SlotsOwned /\ OneOwner /\ StillFree /\ HoldsMessage
      /\ InOrder /\ Finite
  BY OwnerParts DEF IInv
<1> USE <1>0
<1>1. /\ spc = "spawn" /\ spc' = "listen" /\ client' = NULL
      /\ wrun' = [wrun EXCEPT ![slot] = TRUE]
      /\ wpc' = [wpc EXCEPT ![client] = "loop"]
      /\ wslot' = [wslot EXCEPT ![client] = slot]
      /\ UNCHANGED <<mpc, restarts, srun, slot, fails, rrun, rpc, rslot, npkt, queue,
                     held, last, freePkt, freeMsg, others>>
  BY DEF Spawn, main, receiver, pools
<1>2. client \in Clients /\ wpc[client] = "accepted" /\ slot \in Slots
  BY <1>1 DEF Phase, Accepting, Shape
<1>3. /\ wpc' \in [Clients -> {"new", "accepted", "rejected", "loop", "got", "send",
                             "cleanup", "drain", "closing", "gone"}]
      /\ wslot' \in [Clients -> Slots] /\ wrun' \in [Slots -> BOOLEAN]
      /\ wpc'[client] = "loop" /\ wslot'[client] = slot /\ wrun'[slot]
      /\ \A d \in Clients : d # client => wpc'[d] = wpc[d] /\ wslot'[d] = wslot[d]
      /\ \A s \in Slots : s # slot => wrun'[s] = wrun[s]
  BY <1>1, <1>2 DEF Shape
<1>4. Shape'
  BY <1>1, <1>3 DEF Shape
<1>5. Phase'
  <2>1. ~Accepting'
    BY <1>1 DEF Accepting
  <2>2. \A d \in Clients : wpc'[d] # "accepted"
    BY <1>3 DEF Phase
  <2>3. \A d \in Clients : held'[d] # NULL => wpc'[d] \in {"got", "send"}
    BY <1>1, <1>2, <1>3 DEF Phase
  <2>4. restarts' + (IF spc' = "failed" THEN 1 ELSE 0) <= fails'
    BY <1>1 DEF Phase
  <2> QED BY <2>1, <2>2, <2>3, <2>4 DEF Phase
<1>6. \A c \in Clients : \A s : Owns(c, s)' <=> Owns(c, s)
  BY <1>1, <1>2, <1>3 DEF Owns, Active
<1>7. SlotsOwned' /\ OneOwner' /\ InOrder'
  BY <1>1, <1>6, OwnersKept, OrderKept
<1>8. StillFree'
  BY <1>1 DEF StillFree
<1>9. HoldsMessage'
  <2> SUFFICES ASSUME NEW c \in Clients,
                      wpc'[c] = "send" \/ (wpc'[c] = "got" /\ wrun'[wslot'[c]])
               PROVE  held[c] # NULL
    BY <1>1 DEF HoldsMessage
  <2>1. c # client /\ wpc'[c] = wpc[c] /\ wslot'[c] = wslot[c] /\ wslot[c] \in Slots
    BY <1>3 DEF Shape
  <2>2. wpc[c] = "got" => wslot[c] # slot
    <3>1. Owns(client, slot)
      BY <1>1 DEF Owns
    <3>2. wpc[c] = "got" => Owns(c, wslot[c])
      BY DEF Owns, Active
    <3> QED BY <1>2, <2>1, <3>1, <3>2 DEF OneOwner
  <2> QED BY <1>3, <2>1, <2>2 DEF HoldsMessage
<1>10. BuffersConserved' /\ Finite'
  BY <1>1, Counts, BooksKept DEF AtMain
<1> QED BY <1>4, <1>5, <1>7, <1>8, <1>9, <1>10, Assembled

(* Every flag is cleared: a worker at its message gives it up.             *)
LEMMA ServerExitsInv ==
  ASSUME IInv, ServerExits
  PROVE  IInv'
<1>0. /\ Shape /\ Phase /\ SlotsOwned /\ OneOwner /\ StillFree /\ HoldsMessage
      /\ InOrder /\ Finite
  BY OwnerParts DEF IInv
<1> USE <1>0
<1>1. /\ spc = "cleanup" /\ spc' = "exited" /\ wrun' = [s \in Slots |-> FALSE]
      /\ UNCHANGED <<mpc, restarts, srun, slot, client, fails, rrun, rpc, rslot, npkt,
                     queue, wpc, wslot, held, last, freePkt, freeMsg, others>>
  BY DEF ServerExits, FlagsCleared, main, receiver, workers, pools
<1>2. Shape'
  BY <1>1 DEF Shape
<1>3. Phase'
  BY <1>1 DEF Phase, Accepting
<1>4. \A c \in Clients : \A s : Owns(c, s)' <=> Owns(c, s)
  BY <1>1, SameOwners DEF Active
<1>5. SlotsOwned' /\ OneOwner' /\ InOrder'
  BY <1>1, <1>4, OwnersKept, OrderKept
<1>6. StillFree' /\ HoldsMessage'
  BY <1>1 DEF StillFree, HoldsMessage, Shape
<1>7. BuffersConserved' /\ Finite'
  BY <1>1, Counts, BooksKept DEF AtMain
<1> QED BY <1>2, <1>3, <1>5, <1>6, <1>7, Assembled

-----------------------------------------------------------------------------
(* The receiver                                                            *)

LEMMA HandledType ==
  ASSUME IInv, NEW s \in Slots
  PROVE  /\ Handled(s) \in Int /\ npkt \in Nat /\ s \in Int
         /\ Handled(s) <= npkt /\ npkt - 1 <= Handled(s)
BY BoundsAssumption, SlotsAssumption DEF IInv, Shape, Handled, Slots

(* What has been copied to a slot only grows.                              *)
LEMMA OrderGrows ==
  ASSUME IInv, UNCHANGED <<queue, held, last>>, rpc' = "copy" => npkt' > 0,
         \A s \in Slots : Handled(s)' \in Int /\ Handled(s) <= Handled(s)',
         \A c \in Clients : \A s : Owns(c, s)' <=> Owns(c, s)
  PROVE  InOrder'
<1>1. ASSUME NEW s \in Slots, NEW c \in Clients, Pending(c, s), Owns(c, s)
      PROVE  Pending(c, s)'
  <2>1. /\ Handled(s) \in Int /\ Handled(s)' \in Int /\ Handled(s) <= Handled(s)'
        /\ last[c] \in Int /\ (held[c] # NULL => held[c] \in Int)
    BY HandledType, BoundsAssumption DEF IInv, Shape, Numbers
  <2>2. \A i \in 1 .. Len(queue[s]) : queue[s][i] \in Int
    <3>1. queue[s] \in Seq(Numbers) \cup {NULL} /\ queue[s] # NULL
      BY <1>1, OwnerParts DEF IInv, Shape, SlotsOwned
    <3> QED BY <3>1, SizeFacts, BoundsAssumption DEF Numbers
  <2> QED BY <1>1, <2>1, <2>2 DEF Pending
<1> QED BY <1>1 DEF IInv, InOrder

LEMMA ReceiveInv ==
  ASSUME IInv, Receive
  PROVE  IInv'
<1>0. /\ Shape /\ Phase /\ SlotsOwned /\ OneOwner /\ StillFree /\ HoldsMessage
      /\ InOrder /\ Finite
  BY OwnerParts DEF IInv
<1> USE <1>0
<1>1. /\ rpc = "wait" /\ rpc' = "copy" /\ rslot' = 1
      /\ npkt < MaxPackets /\ npkt' = npkt + 1
      /\ UNCHANGED <<mpc, restarts, srun, spc, slot, client, fails, rrun, queue, wrun,
                     wpc, wslot, held, last, freePkt, freeMsg, others>>
  BY DEF Receive, main, server, workers, pools
<1>2. npkt \in Nat /\ npkt' \in 0 .. MaxPackets /\ npkt' > 0 /\ rslot' \in Slots
  BY <1>1, BoundsAssumption, SlotsAssumption DEF Shape, Slots
<1>3. Shape'
  BY <1>1, <1>2 DEF Shape
<1>4. Phase'
  BY <1>1 DEF Phase, Accepting
<1>5. \A c \in Clients : \A s : Owns(c, s)' <=> Owns(c, s)
  BY <1>1, SameOwners DEF Active
<1>6. SlotsOwned' /\ OneOwner'
  BY <1>1, <1>5, OwnersKept
<1>7. InOrder'
  <2>1. ASSUME NEW s \in Slots
        PROVE  Handled(s)' \in Int /\ Handled(s) <= Handled(s)'
    BY <1>1, <1>2 DEF Handled, Slots
  <2> QED BY <1>1, <1>2, <1>5, <2>1, OrderGrows
<1>8. StillFree' /\ HoldsMessage'
  BY <1>1 DEF StillFree, HoldsMessage
<1>9. BuffersConserved' /\ Finite'
  BY <1>1, Counts, BooksKept DEF AtMain
<1> QED BY <1>3, <1>4, <1>6, <1>7, <1>8, <1>9, Assembled

(* The newest packet goes in front of what the slot's client still waits   *)
(* for.                                                                    *)
LEMMA CopyInv ==
  ASSUME IInv, Copy
  PROVE  IInv'
<1>0. /\ Shape /\ Phase /\ SlotsOwned /\ OneOwner /\ StillFree /\ HoldsMessage
      /\ InOrder /\ Finite
  BY OwnerParts DEF IInv
<1> USE <1>0
<1>1. /\ rpc = "copy" /\ rpc' \in {"wait", "copy"} /\ NextSlot
      /\ UNCHANGED <<mpc, restarts, srun, spc, slot, client, fails, rrun, npkt, wrun,
                     wpc, wslot, held, last, others>>
  BY DEF Copy, NextSlot, main, server, workers
<1>2. rslot \in Slots /\ npkt \in Nat /\ npkt > 0 /\ npkt \in Numbers
  BY <1>1, BoundsAssumption DEF Shape, InOrder, Numbers
<1>3. rslot' \in Slots
  BY <1>1, <1>2, SlotsAssumption DEF NextSlot, Slots
<1>4. /\ Handled(rslot) = npkt - 1
      /\ \A s \in Slots : Handled(s)' = IF s = rslot THEN npkt ELSE Handled(s)
  BY <1>1, <1>2, SlotsAssumption DEF NextSlot, Handled, Slots
<1>5. Phase'
  BY <1>1 DEF Phase, Accepting
<1>6. \A c \in Clients : \A s : Owns(c, s)' <=> Owns(c, s)
  BY <1>1, SameOwners DEF Active
<1>7. CASE UNCHANGED <<queue, freePkt, freeMsg>>
  <2>1. Shape'
    BY <1>1, <1>3, <1>7 DEF Shape
  <2>2. SlotsOwned' /\ OneOwner'
    BY <1>6, <1>7, OwnersKept
  <2>3. InOrder'
    <3>1. ASSUME NEW s \in Slots
          PROVE  Handled(s)' \in Int /\ Handled(s) <= Handled(s)'
      BY <1>4, HandledType
    <3> QED BY <1>1, <1>2, <1>6, <1>7, <3>1, OrderGrows
  <2>4. StillFree' /\ HoldsMessage'
    BY <1>1, <1>7 DEF StillFree, HoldsMessage
  <2>5. BuffersConserved' /\ Finite'
    BY <1>1, <1>7, Counts, BooksKept DEF AtMain
  <2> QED BY <1>5, <2>1, <2>2, <2>3, <2>4, <2>5, Assembled
<1>8. CASE /\ queue[rslot] # NULL /\ freePkt > 0 /\ freeMsg > 0
           /\ queue' = [queue EXCEPT ![rslot] = Add(queue[rslot], npkt)]
           /\ freePkt' = freePkt - 1 /\ freeMsg' = freeMsg - 1
  <2> DEFINE new == Add(queue[rslot], npkt)
  <2>1. /\ queue[rslot] \in Seq(Numbers) /\ Size(queue[rslot]) = Len(queue[rslot])
        /\ Len(queue[rslot]) \in Nat
        /\ \A i \in 1 .. Len(queue[rslot]) : queue[rslot][i] \in Numbers
    BY <1>2, <1>8, SizeFacts DEF Shape
  <2>2. /\ new \in Seq(Numbers) /\ Len(new) = Len(queue[rslot]) + 1 /\ new[1] = npkt
        /\ \A i \in 2 .. Len(queue[rslot]) + 1 : new[i] = queue[rslot][i - 1]
    BY <1>2, <2>1, FirstAdded
  <2>3. new # NULL /\ Size(new) = Size(queue[rslot]) + 1
    BY <2>1, <2>2, NullFacts DEF Size
  <2> HIDE DEF new
  <2>4. /\ IsFiniteSet(Places(queue))' /\ Queued' \in Nat
        /\ Queued' + Size(queue[rslot]) = Queued + Size(new)
        /\ queue' \in [Slots -> Seq(Numbers) \cup {NULL}] /\ queue'[rslot] = new
        /\ \A t \in Slots \ {rslot} : queue'[t] = queue[t]
    <3>1. rslot \in Slots /\ new \in Seq(Numbers) \cup {NULL}
      BY <1>2, <2>2
    <3>2. queue' = [queue EXCEPT ![rslot] = new]
      BY <1>8 DEF new
    <3> QED BY ONLY IInv, <3>1, <3>2, QueueChanges, Zenon
  <2>5. freePkt' \in Nat /\ freeMsg' \in Nat
    BY <1>8 DEF Shape
  <2>6. Shape'
    BY <1>1, <1>3, <2>4, <2>5 DEF Shape
  <2>7. SlotsOwned' /\ OneOwner'
    <3>1. OneOwner'
      BY <1>6 DEF OneOwner
    <3>2. \A s \in Slots : queue'[s] # NULL <=> queue[s] # NULL
      BY <1>8, <2>3, <2>4
    <3> QED BY <1>6, <3>1, <3>2 DEF SlotsOwned
  <2>8. StillFree'
    <3>1. spc = "create" => slot # rslot
      BY <1>8 DEF StillFree
    <3> QED BY <1>1, <2>4, <3>1 DEF StillFree, Shape
  <2>9. HoldsMessage'
    BY <1>1 DEF HoldsMessage
  <2>10. InOrder'
    <3>1. ASSUME NEW c \in Clients, NEW s \in Slots, Pending(c, s), s # rslot
          PROVE  Pending(c, s)'
      BY <1>1, <1>4, <2>4, <3>1 DEF Pending
    <3>2. ASSUME NEW c \in Clients, NEW s \in Slots, Pending(c, s), s = rslot
          PROVE  Pending(c, s)'
      <4>1. /\ last[c] \in Int /\ last[c] <= npkt - 1
            /\ held[c] # NULL => /\ held[c] \in Int /\ last[c] < held[c]
                                 /\ held[c] <= npkt - 1
        BY <1>4, <3>2, BoundsAssumption DEF Pending, Shape, Numbers
      <4>2. ASSUME NEW i \in 1 .. Len(new)
            PROVE  /\ last[c] < new[i] /\ new[i] <= npkt
                   /\ held[c] # NULL => held[c] < new[i]
                   /\ \A j \in 1 .. i - 1 : new[i] < new[j]
        <5>1. CASE i = 1
          BY <1>2, <2>2, <4>1, <5>1
        <5>2. CASE i # 1
          <6> DEFINE q == queue[rslot]
          <6>1. i - 1 \in 1 .. Len(q) /\ new[i] = q[i - 1] /\ q[i - 1] \in Int
            BY <2>1, <2>2, <5>2 DEF Numbers
          <6>2. /\ last[c] < q[i - 1] /\ q[i - 1] <= npkt - 1
                /\ held[c] # NULL => held[c] < q[i - 1]
                /\ \A j \in 1 .. (i - 1) - 1 : q[i - 1] < q[j]
            BY <1>4, <3>2, <6>1 DEF Pending
          <6>3. ASSUME NEW j \in 1 .. i - 1
                PROVE  new[i] < new[j]
            <7>1. CASE j = 1
              BY <1>2, <2>2, <6>1, <6>2, <7>1
            <7>2. CASE j # 1
              <8>1. j - 1 \in 1 .. (i - 1) - 1 /\ j \in 2 .. Len(q) + 1
                BY <2>1, <2>2, <6>1, <7>2
              <8>2. new[j] = q[j - 1] /\ q[i - 1] < q[j - 1]
                BY <2>2, <6>2, <8>1
              <8> QED BY <6>1, <8>2
            <7> QED BY <7>1, <7>2
          <6> QED BY <1>2, <4>1, <6>1, <6>2, <6>3
        <5> QED BY <5>1, <5>2
      <4>3. Handled(s)' = npkt
        BY <1>4, <3>2
      <4> QED BY <1>1, <1>2, <2>4, <3>2, <4>1, <4>2, <4>3 DEF Pending
    <3> QED BY <1>1, <1>2, <1>6, <3>1, <3>2 DEF InOrder
  <2>11. BuffersConserved' /\ Finite'
    <3>1. Held' = Held /\ IsFiniteSet(Holders(held))' /\ AtMain' = AtMain
      BY <1>1 DEF Held, Holders, Finite, AtMain
    <3>2. Queued' = Queued + 1
      <4>1. \A a, b, l \in Nat : a + l = b + (l + 1) => a = b + 1
        OBVIOUS
      <4>2. /\ Queued' + Size(queue[rslot]) = Queued + Size(new)
            /\ Size(queue[rslot]) = Len(queue[rslot]) /\ Size(new) = Len(queue[rslot]) + 1
            /\ Len(queue[rslot]) \in Nat /\ Queued' \in Nat /\ Queued \in Nat
        BY <2>1, <2>3, <2>4, Counts
      <4>3. Queued' + Len(queue[rslot]) = Queued + (Len(queue[rslot]) + 1)
        BY ONLY <4>2, Zenon
      <4> QED BY ONLY <4>1, <4>2, <4>3, Zenon
    <3>3. /\ freePkt' + Queued' + Held' = freePkt + Queued + Held
          /\ freeMsg' + Queued' + Held' + others' + restarts' + AtMain'
             = freeMsg + Queued + Held + others + restarts + AtMain
      BY <1>1, <1>8, <3>1, <3>2, Counts
    <3> QED BY <2>4, <3>1, <3>3, Balanced DEF Finite
  <2> QED BY <1>5, <2>6, <2>7, <2>8, <2>9, <2>10, <2>11, Assembled
<1>9. \/ UNCHANGED <<queue, freePkt, freeMsg>>
      \/ /\ queue[rslot] # NULL /\ freePkt > 0 /\ freeMsg > 0
         /\ queue' = [queue EXCEPT ![rslot] = Add(queue[rslot], npkt)]
         /\ freePkt' = freePkt - 1 /\ freeMsg' = freeMsg - 1
  BY DEF Copy, PacketsAfterNoMsg
<1> QED BY <1>7, <1>8, <1>9

(* Messages lent to frames and given back, and the receiver's end.         *)
LEMMA LendingInv ==
  ASSUME IInv, Borrow \/ GiveBack \/ ReceiverExits
  PROVE  IInv'
<1>0. /\ Shape /\ Phase /\ SlotsOwned /\ OneOwner /\ StillFree /\ HoldsMessage
      /\ InOrder /\ Finite
  BY OwnerParts DEF IInv
<1> USE <1>0
<1>1. /\ freeMsg' \in Nat /\ others' \in 0 .. MaxOthers /\ others' \in Nat
      /\ freeMsg' + others' = freeMsg + others
      /\ rpc' = rpc \/ (rpc = "wait" /\ rpc' = "exited")
      /\ UNCHANGED <<mpc, restarts, srun, spc, slot, client, fails, rrun, rslot, npkt,
                     queue, wrun, wpc, wslot, held, last, freePkt>>
  <2> USE DEF main, server, receiver, workers, pools
  <2>1. freeMsg \in Nat /\ others \in 0 .. MaxOthers /\ others \in Nat /\ MaxOthers \in Nat
    BY BoundsAssumption DEF Shape
  <2>2. CASE Borrow
    BY <2>1, <2>2 DEF Borrow
  <2>3. CASE GiveBack
    BY <2>1, <2>3 DEF GiveBack
  <2>4. CASE ReceiverExits
    BY <2>1, <2>4 DEF ReceiverExits
  <2> QED BY <2>2, <2>3, <2>4
<1>2. Shape'
  BY <1>1 DEF Shape
<1>3. Phase'
  BY <1>1 DEF Phase, Accepting
<1>4. \A c \in Clients : \A s : Owns(c, s)' <=> Owns(c, s)
  BY <1>1, SameOwners DEF Active
<1>5. SlotsOwned' /\ OneOwner' /\ InOrder'
  BY <1>1, <1>4, OwnersKept, OrderKept
<1>6. StillFree' /\ HoldsMessage'
  BY <1>1 DEF StillFree, HoldsMessage
<1>7. BuffersConserved' /\ Finite'
  <2>1. AtMain' = AtMain
    BY <1>1 DEF AtMain
  <2>2. freeMsg' + others' + restarts' + AtMain' = freeMsg + others + restarts + AtMain
    BY <1>1, <2>1, Counts
  <2> QED BY <1>1, <2>1, <2>2, Counts, BooksKept
<1> QED BY <1>2, <1>3, <1>5, <1>6, <1>7, Assembled

-----------------------------------------------------------------------------
(* The workers                                                             *)

(* One worker moves on.                                                    *)
LEMMA WorkerMoves ==
  ASSUME IInv, NEW c \in Clients,
         NEW x \in {"loop", "got", "send", "cleanup", "drain", "closing", "gone"},
         wpc[c] \in {"loop", "got", "send", "cleanup", "drain", "closing"},
         wpc' = [wpc EXCEPT ![c] = x],
         UNCHANGED <<spc, slot, client, wslot, fails>>,
         restarts' + (IF spc = "failed" THEN 1 ELSE 0) <= fails,
         \A d \in Clients : d # c => held'[d] = held[d],
         held'[c] # NULL => x \in {"got", "send"}
  PROVE  /\ Phase'
         /\ wpc' \in [Clients -> {"new", "accepted", "rejected", "loop", "got", "send",
                                  "cleanup", "drain", "closing", "gone"}]
         /\ wpc'[c] = x /\ \A d \in Clients : d # c => wpc'[d] = wpc[d]
         /\ spc = "spawn" => client # c
         /\ Owns(c, wslot[c]) <=> Active(c)
         /\ wslot[c] \in Slots
         /\ (Active(c)' <=> Active(c)) =>
              \A d \in Clients : \A s : Owns(d, s)' <=> Owns(d, s)
<1>1. Shape /\ Phase
  BY DEF IInv
<1>2. /\ wpc' \in [Clients -> {"new", "accepted", "rejected", "loop", "got", "send",
                               "cleanup", "drain", "closing", "gone"}]
      /\ wpc'[c] = x /\ \A d \in Clients : d # c => wpc'[d] = wpc[d]
  BY <1>1 DEF Shape
<1>3. Phase'
  BY <1>1, <1>2 DEF Phase, Accepting
<1>4. spc = "spawn" => client # c
  BY <1>1 DEF Phase, Accepting
<1>5. Owns(c, wslot[c]) <=> Active(c)
  BY <1>4 DEF Owns
<1>6. ASSUME Active(c)' <=> Active(c)
      PROVE  \A d \in Clients : \A s : Owns(d, s)' <=> Owns(d, s)
  <2>1. \A d \in Clients : Active(d)' <=> Active(d)
    BY <1>2, <1>6 DEF Active
  <2> QED BY <2>1, SameOwners
<1>7. wslot[c] \in Slots
  BY <1>1 DEF Shape
<1> QED BY <1>2, <1>3, <1>4, <1>5, <1>6, <1>7

(* Steps that leave the queue and the worker's hands as they are.          *)
LEMMA WorkerStepsInv ==
  ASSUME IInv, NEW c \in Clients,
         LeaveLoop(c) \/ GoesOn(c) \/ ClearFlag(c) \/ WorkerEnds(c)
  PROVE  IInv'
<1>0. /\ Shape /\ Phase /\ SlotsOwned /\ OneOwner /\ StillFree /\ HoldsMessage
      /\ InOrder /\ Finite
  BY OwnerParts DEF IInv
<1> USE <1>0
<1>1. \E x \in {"send", "cleanup", "drain", "gone"} :
        /\ wpc' = [wpc EXCEPT ![c] = x]
        /\ \/ wpc[c] = "loop" /\ x = "cleanup"
           \/ wpc[c] = "got" /\ x = "send" /\ wrun[wslot[c]]
           \/ wpc[c] = "cleanup" /\ x = "drain"
           \/ wpc[c] = "closing" /\ x = "gone"
        /\ wrun' = wrun \/ wrun' = [wrun EXCEPT ![wslot[c]] = FALSE]
        /\ UNCHANGED <<mpc, restarts, srun, spc, slot, client, fails, rrun, rpc, rslot,
                     npkt, queue, wslot, held, last, freePkt, freeMsg, others>>
  <2> USE DEF main, server, receiver, workers, pools
  <2>1. CASE LeaveLoop(c)
    BY <2>1 DEF LeaveLoop
  <2>2. CASE GoesOn(c)
    BY <2>2 DEF GoesOn
  <2>3. CASE ClearFlag(c)
    BY <2>3 DEF ClearFlag
  <2>4. CASE WorkerEnds(c)
    BY <2>4 DEF WorkerEnds
  <2> QED BY <2>1, <2>2, <2>3, <2>4
<1>2. PICK x \in {"send", "cleanup", "drain", "gone"} :
        /\ wpc' = [wpc EXCEPT ![c] = x]
        /\ \/ wpc[c] = "loop" /\ x = "cleanup"
           \/ wpc[c] = "got" /\ x = "send" /\ wrun[wslot[c]]
           \/ wpc[c] = "cleanup" /\ x = "drain"
           \/ wpc[c] = "closing" /\ x = "gone"
  BY <1>1
<1>3. /\ wrun' \in [Slots -> BOOLEAN] /\ \A s \in Slots : wrun'[s] => wrun[s]
      /\ UNCHANGED <<mpc, restarts, srun, spc, slot, client, fails, rrun, rpc, rslot,
                     npkt, queue, wslot, held, last, freePkt, freeMsg, others>>
  BY <1>1 DEF Shape
<1>4. /\ wpc[c] = "got" => held[c] # NULL
      /\ held[c] # NULL => wpc[c] = "got" /\ x = "send"
  BY <1>2 DEF HoldsMessage, Phase
<1>5. /\ Phase'
      /\ wpc' \in [Clients -> {"new", "accepted", "rejected", "loop", "got", "send",
                               "cleanup", "drain", "closing", "gone"}]
      /\ wpc'[c] = x /\ \A d \in Clients : d # c => wpc'[d] = wpc[d]
      /\ \A d \in Clients : \A s : Owns(d, s)' <=> Owns(d, s)
  <2>1. restarts' + (IF spc = "failed" THEN 1 ELSE 0) <= fails
    BY <1>3 DEF Phase
  <2>2. held'[c] # NULL => x \in {"got", "send"}
    BY <1>3, <1>4
  <2>3. /\ Phase'
        /\ wpc' \in [Clients -> {"new", "accepted", "rejected", "loop", "got", "send",
                                 "cleanup", "drain", "closing", "gone"}]
        /\ wpc'[c] = x /\ \A d \in Clients : d # c => wpc'[d] = wpc[d]
        /\ (Active(c)' <=> Active(c)) =>
             \A d \in Clients : \A s : Owns(d, s)' <=> Owns(d, s)
    BY <1>2, <1>3, <2>1, <2>2, WorkerMoves
  <2>4. Active(c)' <=> Active(c)
    BY <1>2, <2>3 DEF Active
  <2> QED BY <2>3, <2>4
<1>6. Shape'
  BY <1>3, <1>5 DEF Shape
<1>7. SlotsOwned' /\ OneOwner' /\ InOrder'
  BY <1>3, <1>5, OwnersKept, OrderKept
<1>8. StillFree'
  BY <1>3 DEF StillFree
<1>9. HoldsMessage'
  <2>1. ASSUME NEW d \in Clients, wpc'[d] = "send" \/ (wpc'[d] = "got" /\ wrun'[wslot[d]])
        PROVE  held[d] # NULL
    <3>1. wslot[d] \in Slots
      BY DEF Shape
    <3>2. CASE d = c
      BY <1>2, <1>4, <1>5, <2>1, <3>2
    <3>3. CASE d # c
      BY <1>3, <1>5, <2>1, <3>1, <3>3 DEF HoldsMessage
    <3> QED BY <3>2, <3>3
  <2> QED BY <1>3, <2>1 DEF HoldsMessage
<1>10. BuffersConserved' /\ Finite'
  BY <1>3, Counts, BooksKept DEF AtMain
<1> QED BY <1>5, <1>6, <1>7, <1>8, <1>9, <1>10, Assembled

(* The packet in a worker's hands, sent or not, goes back to the pools.    *)
LEMMA PutsDownInv ==
  ASSUME IInv, NEW c \in Clients,
         Stopped(c) \/ Send(c) \/ SendFails(c) \/ ConnectionLost(c)
  PROVE  IInv'
<1>0. /\ Shape /\ Phase /\ SlotsOwned /\ OneOwner /\ StillFree /\ HoldsMessage
      /\ InOrder /\ Finite
  BY OwnerParts DEF IInv
<1> USE <1>0
<1>1. /\ \/ wpc' = [wpc EXCEPT ![c] = "cleanup"] /\ wpc[c] \in {"got", "send"}
         \/ wpc' = [wpc EXCEPT ![c] = "loop"] /\ wpc[c] = "send"
      /\ held' = [held EXCEPT ![c] = NULL]
      /\ freePkt' = freePkt + Returned(c) /\ freeMsg' = freeMsg + Returned(c)
      /\ last' = last \/ (wpc[c] = "send" /\ last' = [last EXCEPT ![c] = held[c]])
      /\ UNCHANGED <<mpc, restarts, srun, spc, slot, client, fails, rrun, rpc, rslot,
                     npkt, queue, wrun, wslot, others>>
  <2> USE DEF PutDown, main, server, receiver
  <2>1. CASE Stopped(c)
    BY <2>1 DEF Stopped
  <2>2. CASE Send(c)
    BY <2>2 DEF Send
  <2>3. CASE SendFails(c)
    BY <2>3 DEF SendFails
  <2>4. CASE ConnectionLost(c)
    BY <2>4 DEF ConnectionLost
  <2> QED BY <2>1, <2>2, <2>3, <2>4
<1>2. /\ IsFiniteSet(Holders(held))' /\ Held' \in Nat
      /\ InHand(held[c]) \in Nat /\ Held' + InHand(held[c]) = Held
      /\ held' \in [Clients -> Numbers \cup {NULL}] /\ held'[c] = NULL
      /\ \A d \in Clients \ {c} : held'[d] = held[d]
  <2>1. NULL \in Numbers \cup {NULL} /\ InHand(NULL) = 0
    BY DEF InHand
  <2>2. /\ IsFiniteSet(Holders(held))' /\ Held' \in Nat
        /\ InHand(held[c]) \in Nat /\ Held' + InHand(held[c]) = Held + InHand(NULL)
        /\ held' \in [Clients -> Numbers \cup {NULL}] /\ held'[c] = NULL
        /\ \A d \in Clients \ {c} : held'[d] = held[d]
    BY <1>1, <2>1, HandChanges, Zenon
  <2> QED BY <2>1, <2>2, Counts
<1>3. /\ Phase'
      /\ wpc' \in [Clients -> {"new", "accepted", "rejected", "loop", "got", "send",
                               "cleanup", "drain", "closing", "gone"}]
      /\ wpc'[c] \in {"loop", "cleanup"} /\ \A d \in Clients : d # c => wpc'[d] = wpc[d]
      /\ \A d \in Clients : \A s : Owns(d, s)' <=> Owns(d, s)
  <2>1. PICK x \in {"loop", "cleanup"} : wpc' = [wpc EXCEPT ![c] = x]
    BY <1>1
  <2>2. restarts' + (IF spc = "failed" THEN 1 ELSE 0) <= fails
    BY <1>1 DEF Phase
  <2>3. wpc[c] \in {"got", "send"}
    BY <1>1
  <2>4. /\ Phase'
        /\ wpc' \in [Clients -> {"new", "accepted", "rejected", "loop", "got", "send",
                                 "cleanup", "drain", "closing", "gone"}]
        /\ wpc'[c] = x /\ \A d \in Clients : d # c => wpc'[d] = wpc[d]
        /\ (Active(c)' <=> Active(c)) =>
             \A d \in Clients : \A s : Owns(d, s)' <=> Owns(d, s)
    BY <1>1, <1>2, <2>1, <2>2, <2>3, WorkerMoves
  <2>5. Active(c)' <=> Active(c)
    BY <2>3, <2>4 DEF Active
  <2> QED BY <2>4, <2>5
<1>4. /\ last' \in [Clients -> 0 .. MaxPackets]
      /\ \A d \in Clients \ {c} : last'[d] = last[d]
      /\ last'[c] = last[c] \/ (held[c] # NULL /\ last'[c] = held[c])
  <2>1. last \in [Clients -> 0 .. MaxPackets] /\ held[c] \in Numbers \cup {NULL}
    BY DEF Shape
  <2>2. wpc[c] = "send" => held[c] \in 0 .. MaxPackets /\ held[c] # NULL
    BY <2>1, BoundsAssumption DEF HoldsMessage, Numbers
  <2> QED BY <1>1, <2>1, <2>2
<1>5. freePkt' \in Nat /\ freeMsg' \in Nat
  BY <1>1, <1>2, Counted, Counts
<1>6. Shape'
  BY <1>1, <1>2, <1>3, <1>4, <1>5 DEF Shape
<1>7. SlotsOwned' /\ OneOwner'
  BY <1>1, <1>3, OwnersKept
<1>8. StillFree'
  BY <1>1 DEF StillFree
<1>9. HoldsMessage'
  BY <1>1, <1>2, <1>3 DEF HoldsMessage
<1>10. InOrder'
  <2>1. \A s : Handled(s)' = Handled(s)
    BY <1>1 DEF Handled
  <2>2. ASSUME NEW s \in Slots, NEW d \in Clients, Pending(d, s)
        PROVE  Pending(d, s)'
    <3>1. CASE d = c
      BY <1>1, <1>2, <1>4, <2>1, <2>2, <3>1 DEF Pending
    <3>2. CASE d # c
      BY <1>1, <1>2, <1>4, <2>1, <2>2, <3>2 DEF Pending
    <3> QED BY <3>1, <3>2
  <2> QED BY <1>1, <1>3, <2>2 DEF InOrder
<1>11. BuffersConserved' /\ Finite'
  <2>1. Queued' = Queued /\ IsFiniteSet(Places(queue))' /\ AtMain' = AtMain
    BY <1>1 DEF Queued, Places, Column, Length, Size, Finite, AtMain
  <2>2. Returned(c) = InHand(held[c])
    BY Counted
  <2>3. /\ freePkt' + Queued' + Held' = freePkt + Queued + Held
        /\ freeMsg' + Queued' + Held' + others' + restarts' + AtMain'
           = freeMsg + Queued + Held + others + restarts + AtMain
    BY <1>1, <1>2, <2>1, <2>2, Counts
  <2> QED BY <1>2, <2>1, <2>3, Balanced DEF Finite
<1> QED BY <1>3, <1>6, <1>7, <1>8, <1>9, <1>10, <1>11, Assembled

(* The oldest packet of the queue passes into the worker's hands. Told to  *)
(* stop, the worker takes nothing.                                         *)
LEMMA TakeInv ==
  ASSUME IInv, NEW c \in Clients, Take(c)
  PROVE  IInv'
<1>0. /\ Shape /\ Phase /\ SlotsOwned /\ OneOwner /\ StillFree /\ HoldsMessage
      /\ InOrder /\ Finite
  BY OwnerParts DEF IInv
<1> USE <1>0
<1> DEFINE s == wslot[c]
           q == queue[s]
<1>1. /\ wpc[c] = "loop" /\ wpc' = [wpc EXCEPT ![c] = "got"]
      /\ UNCHANGED <<mpc, restarts, srun, spc, slot, client, fails, rrun, rpc, rslot,
                     npkt, wrun, wslot, last, freePkt, freeMsg, others>>
  BY DEF Take, main, server, receiver, pools
<1>2. \/ /\ wrun[s] /\ Length(s) > 0
         /\ held' = [held EXCEPT ![c] = q[Len(q)]]
         /\ queue' = [queue EXCEPT ![s] = SubSeq(q, 1, Len(q) - 1)]
      \/ (~wrun[s] \/ q = NULL) /\ UNCHANGED <<held, queue>>
  <2>1. s \in Slots /\ queue \in [Slots -> Seq(Numbers) \cup {NULL}]
    BY DEF Shape
  <2> QED BY <2>1 DEF Take
<1>3. /\ s \in Slots /\ held[c] = NULL /\ Owns(c, s) /\ q # NULL /\ q \in Seq(Numbers)
      /\ \A d \in Clients : Owns(d, s) => d = c
      /\ \A t : Owns(c, t) => t = s
  <2>1. s \in Slots /\ q \in Seq(Numbers) \cup {NULL}
    BY DEF Shape
  <2>2. held[c] = NULL /\ Owns(c, s) /\ \A t : Owns(c, t) => t = s
    BY <1>1 DEF Phase, Accepting, Owns, Active
  <2> QED BY <2>1, <2>2 DEF SlotsOwned, OneOwner
<1> HIDE DEF s, q
<1>4. ASSUME \A d \in Clients : d # c => held'[d] = held[d]
      PROVE  /\ Phase'
             /\ wpc' \in [Clients -> {"new", "accepted", "rejected", "loop", "got", "send",
                                      "cleanup", "drain", "closing", "gone"}]
             /\ wpc'[c] = "got" /\ \A d \in Clients : d # c => wpc'[d] = wpc[d]
             /\ \A d \in Clients : \A t : Owns(d, t)' <=> Owns(d, t)
  <2>1. restarts' + (IF spc = "failed" THEN 1 ELSE 0) <= fails
    BY <1>1 DEF Phase
  <2>2. wpc[c] \in {"loop", "got", "send", "cleanup", "drain", "closing"}
    BY <1>1
  <2>3. /\ Phase'
        /\ wpc' \in [Clients -> {"new", "accepted", "rejected", "loop", "got", "send",
                                 "cleanup", "drain", "closing", "gone"}]
        /\ wpc'[c] = "got" /\ \A d \in Clients : d # c => wpc'[d] = wpc[d]
        /\ (Active(c)' <=> Active(c)) =>
             \A d \in Clients : \A t : Owns(d, t)' <=> Owns(d, t)
    BY <1>1, <1>4, <2>1, <2>2, WorkerMoves
  <2>4. Active(c)' <=> Active(c)
    BY <1>1, <2>3 DEF Active
  <2> QED BY <2>3, <2>4
<1>5. CASE (~wrun[s] \/ q = NULL) /\ UNCHANGED <<held, queue>>
  <2>1. /\ Phase'
        /\ wpc' \in [Clients -> {"new", "accepted", "rejected", "loop", "got", "send",
                                 "cleanup", "drain", "closing", "gone"}]
        /\ wpc'[c] = "got" /\ \A d \in Clients : d # c => wpc'[d] = wpc[d]
        /\ \A d \in Clients : \A t : Owns(d, t)' <=> Owns(d, t)
    BY <1>4, <1>5
  <2>2. Shape'
    BY <1>1, <1>5, <2>1 DEF Shape
  <2>3. SlotsOwned' /\ OneOwner' /\ InOrder'
    BY <1>1, <1>5, <2>1, OwnersKept, OrderKept
  <2>4. StillFree'
    BY <1>1, <1>5 DEF StillFree
  <2>5. HoldsMessage'
    <3>1. ~wrun'[wslot'[c]]
      BY <1>1, <1>3, <1>5 DEF s
    <3> QED BY <1>1, <1>5, <2>1, <3>1 DEF HoldsMessage
  <2>6. BuffersConserved' /\ Finite'
    BY <1>1, <1>5, Counts, BooksKept DEF AtMain
  <2> QED BY <2>1, <2>2, <2>3, <2>4, <2>5, <2>6, Assembled
<1>6. CASE /\ wrun[s] /\ Length(s) > 0
           /\ held' = [held EXCEPT ![c] = q[Len(q)]]
           /\ queue' = [queue EXCEPT ![s] = SubSeq(q, 1, Len(q) - 1)]
  <2> DEFINE rest == SubSeq(q, 1, Len(q) - 1)
             p == q[Len(q)]
  <2>1. /\ Len(q) \in Nat \ {0} /\ Size(q) = Len(q) /\ p \in Numbers /\ p # NULL
        /\ \A i \in 1 .. Len(q) : q[i] \in Numbers
    <3>1. Len(q) > 0 /\ Size(q) = Len(q) /\ \A i \in 1 .. Len(q) : q[i] \in Numbers
      BY <1>3, <1>6, SizeFacts DEF Length, q
    <3>2. Len(q) \in Nat \ {0}
      BY <1>3, <3>1, LenProperties
    <3>3. p \in Numbers
      BY <3>1, <3>2
    <3>4. p # NULL
      BY <3>3, NullFacts DEF Numbers
    <3> QED BY <3>1, <3>2, <3>3, <3>4
  <2>2. /\ rest \in Seq(Numbers) /\ Len(rest) = Len(q) - 1
        /\ \A i \in 1 .. Len(q) - 1 : rest[i] = q[i]
    BY <1>3, <2>1, LastTaken
  <2>3. rest # NULL /\ Size(rest) = Len(q) - 1
    BY <2>2, NullFacts DEF Size
  <2> HIDE DEF rest, p
  <2>4. /\ IsFiniteSet(Places(queue))' /\ Queued' \in Nat
        /\ Queued' + Size(queue[s]) = Queued + Size(rest)
        /\ queue' \in [Slots -> Seq(Numbers) \cup {NULL}] /\ queue'[s] = rest
        /\ \A t \in Slots \ {s} : queue'[t] = queue[t]
    <3>1. s \in Slots /\ rest \in Seq(Numbers) \cup {NULL}
      BY <1>3, <2>2
    <3>2. queue' = [queue EXCEPT ![s] = rest]
      BY <1>6 DEF rest
    <3> QED BY ONLY IInv, <3>1, <3>2, QueueChanges, Zenon
  <2>5. /\ IsFiniteSet(Holders(held))' /\ Held' \in Nat
        /\ Held' + InHand(held[c]) = Held + InHand(p)
        /\ held' \in [Clients -> Numbers \cup {NULL}] /\ held'[c] = p
        /\ \A d \in Clients \ {c} : held'[d] = held[d]
    <3>1. p \in Numbers \cup {NULL} /\ held' = [held EXCEPT ![c] = p]
      BY <1>6, <2>1 DEF p
    <3> QED BY ONLY IInv, c \in Clients, <3>1, HandChanges, Zenon
  <2>6. /\ Phase'
        /\ wpc' \in [Clients -> {"new", "accepted", "rejected", "loop", "got", "send",
                                 "cleanup", "drain", "closing", "gone"}]
        /\ wpc'[c] = "got" /\ \A d \in Clients : d # c => wpc'[d] = wpc[d]
        /\ \A d \in Clients : \A t : Owns(d, t)' <=> Owns(d, t)
    BY <1>4, <2>5
  <2>7. Shape'
    BY <1>1, <2>4, <2>5, <2>6 DEF Shape
  <2>8. SlotsOwned' /\ OneOwner'
    <3>1. OneOwner'
      BY <2>6 DEF OneOwner
    <3>2. \A t \in Slots : queue'[t] # NULL <=> queue[t] # NULL
      BY <1>3, <2>3, <2>4 DEF q
    <3> QED BY <2>6, <3>1, <3>2 DEF SlotsOwned
  <2>9. StillFree'
    <3>1. spc = "create" => slot # s
      BY <1>3 DEF StillFree, q
    <3> QED BY <1>1, <2>4, <3>1 DEF StillFree, Shape
  <2>10. HoldsMessage'
    BY <1>1, <2>1, <2>5, <2>6 DEF HoldsMessage
  <2>11. InOrder'
    <3>1. \A t : Handled(t)' = Handled(t)
      BY <1>1 DEF Handled
    <3>2. ASSUME NEW t \in Slots, NEW d \in Clients, Pending(d, t), t # s, d # c
          PROVE  Pending(d, t)'
      BY <1>1, <2>4, <2>5, <3>1, <3>2 DEF Pending
    <3>3. ASSUME NEW t \in Slots, NEW d \in Clients, Pending(d, t), t = s, d = c
          PROVE  Pending(d, t)'
      <4>1. /\ last[c] <= Handled(s)
            /\ \A i \in 1 .. Len(q) :
                 /\ last[c] < q[i] /\ q[i] <= Handled(s)
                 /\ \A j \in 1 .. i - 1 : q[i] < q[j]
        BY <3>3 DEF Pending, q
      <4>2. last[c] < p /\ p <= Handled(s) /\ \A j \in 1 .. Len(q) - 1 : p < q[j]
        BY <2>1, <4>1 DEF p
      <4>3. ASSUME NEW i \in 1 .. Len(rest)
            PROVE  /\ last[c] < rest[i] /\ rest[i] <= Handled(s) /\ p < rest[i]
                   /\ \A j \in 1 .. i - 1 : rest[i] < rest[j]
        <5>1. i \in 1 .. Len(q) /\ rest[i] = q[i]
              /\ \A j \in 1 .. i - 1 : j \in 1 .. Len(q) - 1 /\ rest[j] = q[j]
          BY <2>1, <2>2
        <5> QED BY <2>1, <2>2, <4>1, <4>2, <5>1
      <4> QED BY <1>1, <2>4, <2>5, <3>1, <3>3, <4>1, <4>2, <4>3 DEF Pending
    <3>4. ASSUME NEW t \in Slots, NEW d \in Clients, Owns(d, t)
          PROVE  t = s <=> d = c
      BY <1>3, <3>4
    <3> QED BY <1>1, <2>6, <3>2, <3>3, <3>4 DEF InOrder
  <2>12. BuffersConserved' /\ Finite'
    <3>1. InHand(held[c]) = 0 /\ InHand(p) = 1 /\ Size(queue[s]) = Len(q)
      BY <1>3, <2>1 DEF InHand, q
    <3>2. Queued' + 1 = Queued /\ Held' = Held + 1 /\ AtMain' = AtMain
      <4>1. AtMain' = AtMain
        BY <1>1 DEF AtMain
      <4>2. /\ Queued' + Size(queue[s]) = Queued + Size(rest) /\ Size(queue[s]) = Len(q)
            /\ Size(rest) = Len(q) - 1 /\ Len(q) \in Nat
            /\ Queued' \in Nat /\ Queued \in Nat
        BY <2>1, <2>3, <2>4, <3>1, Counts
      <4>3. Held' + 0 = Held + 1 /\ Held' \in Nat /\ Held \in Nat
        BY <2>5, <3>1, Counts
      <4>4. /\ \A a, b, l \in Nat : a + l = b + (l - 1) => a + 1 = b
            /\ \A a, b \in Nat : a + 0 = b + 1 => a = b + 1
        OBVIOUS
      <4>5. Queued' + Len(q) = Queued + (Len(q) - 1)
        BY ONLY <4>2, Zenon
      <4>6. Queued' + 1 = Queued
        BY ONLY <4>2, <4>4, <4>5, Zenon
      <4>7. Held' = Held + 1
        BY ONLY <4>3, <4>4, Zenon
      <4> QED BY <4>1, <4>6, <4>7
    <3>3. /\ freePkt' + Queued' + Held' = freePkt + Queued + Held
          /\ freeMsg' + Queued' + Held' + others' + restarts' + AtMain'
             = freeMsg + Queued + Held + others + restarts + AtMain
      <4>1. /\ Queued' \in Nat /\ Held \in Nat
            /\ UNCHANGED <<freePkt, freeMsg, others, restarts>>
        BY <1>1, <2>4, Counts
      <4>2. \A a, b, h \in Nat : a + b + (h + 1) = a + (b + 1) + h
        OBVIOUS
      <4>3. freePkt' + Queued' + Held' = freePkt + Queued + Held
        BY <3>2, <4>1, <4>2, Counts
      <4>4. freeMsg' + Queued' + Held' = freeMsg + Queued + Held
        BY <3>2, <4>1, <4>2, Counts
      <4> QED BY <3>2, <4>1, <4>3, <4>4
    <3> QED BY <2>4, <2>5, <3>3, Balanced DEF Finite
  <2> QED BY <2>6, <2>7, <2>8, <2>9, <2>10, <2>11, <2>12, Assembled
<1> QED BY <1>2, <1>5, <1>6

(* Under the lock the queue goes, with all its buffers, and the worker's   *)
(* claim to the slot with it.                                              *)
LEMMA LeaveSlotInv ==
  ASSUME IInv, NEW c \in Clients, LeaveSlot(c)
  PROVE  IInv'
<1>0. /\ Shape /\ Phase /\ SlotsOwned /\ OneOwner /\ StillFree /\ HoldsMessage
      /\ InOrder /\ Finite
  BY OwnerParts DEF IInv
<1> USE <1>0
<1> DEFINE s == wslot[c]
<1>1. /\ wpc[c] = "drain" /\ wpc' = [wpc EXCEPT ![c] = "closing"]
      /\ queue' = [queue EXCEPT ![s] = NULL]
      /\ freePkt' = freePkt + Size(queue[s]) /\ freeMsg' = freeMsg + Size(queue[s])
      /\ UNCHANGED <<mpc, restarts, srun, spc, slot, client, fails, rrun, rpc, rslot,
                     npkt, wrun, wslot, held, last, others>>
  BY Counted DEF LeaveSlot, Drained, main, server, receiver
<1>2. /\ s \in Slots /\ held[c] = NULL /\ Owns(c, s)
      /\ spc = "spawn" => client # c
      /\ \A t : Owns(c, t) => t = s
  BY <1>1 DEF Phase, Accepting, Owns, Active, Shape
<1> HIDE DEF s
<1>3. /\ IsFiniteSet(Places(queue))' /\ Queued' \in Nat /\ Size(queue[s]) \in Nat
      /\ Queued' + Size(queue[s]) = Queued
      /\ queue' \in [Slots -> Seq(Numbers) \cup {NULL}] /\ queue'[s] = NULL
      /\ \A t \in Slots \ {s} : queue'[t] = queue[t]
  <2>1. s \in Slots /\ NULL \in Seq(Numbers) \cup {NULL} /\ Size(NULL) = 0
    BY <1>2 DEF Size
  <2>2. /\ IsFiniteSet(Places(queue))' /\ Queued' \in Nat /\ Size(queue[s]) \in Nat
        /\ Queued' + Size(queue[s]) = Queued + Size(NULL)
        /\ queue' \in [Slots -> Seq(Numbers) \cup {NULL}] /\ queue'[s] = NULL
        /\ \A t \in Slots \ {s} : queue'[t] = queue[t]
    <3>1. queue' = [queue EXCEPT ![s] = NULL]
      BY <1>1
    <3> QED BY ONLY IInv, <2>1, <3>1, QueueChanges, Zenon
  <2> QED BY <2>1, <2>2, Counts
<1>4. /\ Phase'
      /\ wpc' \in [Clients -> {"new", "accepted", "rejected", "loop", "got", "send",
                               "cleanup", "drain", "closing", "gone"}]
      /\ wpc'[c] = "closing" /\ \A d \in Clients : d # c => wpc'[d] = wpc[d]
  <2>1. restarts' + (IF spc = "failed" THEN 1 ELSE 0) <= fails
    BY <1>1 DEF Phase
  <2>2. wpc[c] \in {"loop", "got", "send", "cleanup", "drain", "closing"}
    BY <1>1
  <2>3. held'[c] = NULL
    BY <1>1, <1>2
  <2> QED BY <1>1, <2>1, <2>2, <2>3, WorkerMoves
<1>5. freePkt' \in Nat /\ freeMsg' \in Nat
  BY <1>1, <1>3, Counts
<1>6. Shape'
  BY <1>1, <1>3, <1>4, <1>5 DEF Shape
<1>7. \A d \in Clients : \A t : Owns(d, t)' <=> Owns(d, t) /\ d # c
  BY <1>1, <1>2, <1>4 DEF Owns, Active
<1>8. SlotsOwned'
  <2>1. ASSUME NEW t \in Slots
        PROVE  queue'[t] # NULL <=> \E d \in Clients : Owns(d, t)'
    <3>1. CASE t = s
      <4>1. \A d \in Clients : Owns(d, s) => d = c
        BY <1>2 DEF OneOwner
      <4> QED BY <1>3, <1>7, <3>1, <4>1
    <3>2. CASE t # s
      BY <1>2, <1>3, <1>7, <3>2 DEF SlotsOwned
    <3> QED BY <3>1, <3>2
  <2> QED BY <2>1 DEF SlotsOwned
<1>9. OneOwner' /\ HoldsMessage'
  BY <1>1, <1>4, <1>7 DEF OneOwner, HoldsMessage
<1>10. StillFree'
  BY <1>1, <1>3 DEF StillFree, Shape
<1>11. InOrder'
  <2>1. \A t : Handled(t)' = Handled(t)
    BY <1>1 DEF Handled
  <2>2. ASSUME NEW t \in Slots, NEW d \in Clients, Owns(d, t), d # c
        PROVE  Pending(d, t)'
    <3>1. t # s /\ Pending(d, t)
      BY <1>2, <2>2 DEF OneOwner, InOrder
    <3> QED BY <1>1, <1>3, <2>1, <3>1 DEF Pending
  <2> QED BY <1>1, <1>7, <2>2 DEF InOrder
<1>12. BuffersConserved' /\ Finite'
  <2>1. Held' = Held /\ IsFiniteSet(Holders(held))' /\ AtMain' = AtMain
    BY <1>1 DEF Held, Holders, Finite, AtMain
  <2>2. /\ freePkt' + Queued' + Held' = freePkt + Queued + Held
        /\ freeMsg' + Queued' + Held' + others' + restarts' + AtMain'
           = freeMsg + Queued + Held + others + restarts + AtMain
    BY <1>1, <1>3, <2>1, Counts
  <2> QED BY <1>3, <2>1, <2>2, Balanced DEF Finite
<1> QED BY <1>4, <1>6, <1>8, <1>9, <1>10, <1>11, <1>12, Assembled

-----------------------------------------------------------------------------
(* main                                                                    *)

(* The message that asks for a restart is kept until main is back in its   *)
(* loop.                                                                   *)
LEMMA MainInv ==
  ASSUME IInv, MainSteps
  PROVE  IInv'
<1>0. /\ Shape /\ Phase /\ SlotsOwned /\ OneOwner /\ StillFree /\ HoldsMessage
      /\ InOrder /\ Finite
  BY OwnerParts DEF IInv
<1> USE <1>0
<1>1. /\ mpc' \in {"run", "joinReceiver", "joinServer"} /\ AtMain' \in Nat
      /\ restarts' \in Nat /\ restarts' <= restarts /\ freeMsg' \in Nat
      /\ freeMsg' + restarts' + AtMain' = freeMsg + restarts + AtMain
      /\ srun' \in BOOLEAN /\ rrun' \in BOOLEAN
      /\ \/ UNCHANGED <<spc, client, rpc>>
         \/ spc = "exited" /\ spc' = "bind" /\ client' = NULL /\ rpc' = "wait"
      /\ UNCHANGED <<slot, fails, rslot, npkt, queue, wrun, wpc, wslot, held, last,
                     freePkt, others>>
  <2>1. restarts \in Nat /\ freeMsg \in Nat
    BY DEF Shape
  <2>2. srun \in BOOLEAN /\ rrun \in BOOLEAN
    BY DEF Shape
  <2>3. CASE StopReceiver
    <3>1. /\ mpc = "run" /\ mpc' = "joinReceiver" /\ restarts > 0
          /\ restarts' = restarts - 1 /\ rrun' = FALSE
          /\ UNCHANGED <<srun, spc, slot, client, fails, rpc, rslot, npkt, queue, wrun, wpc,
                     wslot, held, last, freePkt, freeMsg, others>>
      BY <2>3 DEF StopReceiver, server, workers, pools
    <3>2. AtMain = 0 /\ AtMain' = 1
      BY <3>1 DEF AtMain
    <3>3. /\ restarts' \in Nat /\ restarts' <= restarts /\ freeMsg' = freeMsg
          /\ freeMsg' + restarts' + AtMain' = freeMsg + restarts + AtMain
      BY ONLY <2>1, <3>1, <3>2
    <3> QED BY <2>1, <2>2, <3>1, <3>2, <3>3
  <2>4. CASE StopServer
    <3>1. /\ mpc = "joinReceiver" /\ mpc' = "joinServer" /\ srun' = FALSE
          /\ UNCHANGED <<restarts, spc, slot, client, fails, rrun, rpc, rslot, npkt, queue,
                     wrun, wpc, wslot, held, last, freePkt, freeMsg, others>>
      BY <2>4 DEF StopServer, receiver, workers, pools
    <3>2. AtMain = 1 /\ AtMain' = 1
      BY <3>1 DEF AtMain
    <3>3. restarts' <= restarts
      BY <2>1, <3>1
    <3> QED BY <2>1, <2>2, <3>1, <3>2, <3>3
  <2>5. CASE Restart
    <3>1. /\ mpc = "joinServer" /\ mpc' = "run" /\ freeMsg' = freeMsg + 1
          /\ srun' = TRUE /\ rrun' = TRUE
          /\ spc = "exited" /\ spc' = "bind" /\ client' = NULL /\ rpc' = "wait"
          /\ UNCHANGED <<restarts, slot, fails, rslot, npkt, queue, wrun, wpc, wslot, held,
                     last, freePkt, others>>
      BY <2>5 DEF Restart, workers
    <3>2. AtMain = 1 /\ AtMain' = 0
      BY <3>1 DEF AtMain
    <3>3. /\ restarts' \in Nat /\ restarts' <= restarts /\ freeMsg' \in Nat
          /\ freeMsg' + restarts' + AtMain' = freeMsg + restarts + AtMain
      BY ONLY <2>1, <3>1, <3>2
    <3> QED BY <2>2, <3>1, <3>2, <3>3
  <2> QED BY <2>3, <2>4, <2>5 DEF MainSteps
<1>2. Shape'
  BY <1>1 DEF Shape
<1>3. Phase'
  <2>1. restarts' + (IF spc' = "failed" THEN 1 ELSE 0) <= fails'
    <3>1. /\ restarts \in Nat /\ restarts' \in Nat /\ restarts' <= restarts
          /\ fails \in Nat /\ fails' = fails
      BY <1>1, BoundsAssumption DEF Shape
    <3>2. restarts + (IF spc = "failed" THEN 1 ELSE 0) <= fails
      BY DEF Phase
    <3>3. spc' = "failed" => spc = "failed"
      BY ONLY <1>1
    <3>4. restarts <= fails /\ (spc = "failed" => restarts + 1 <= fails)
      BY <3>1, <3>2
    <3>5. /\ \A a, b, f \in Nat : a <= b /\ b <= f => a + 0 <= f
          /\ \A a, b, f \in Nat : a <= b /\ b + 1 <= f => a + 1 <= f
      OBVIOUS
    <3>6. restarts' + 0 <= fails
      BY <3>1, <3>4, <3>5, Zenon
    <3>7. ASSUME spc = "failed"
          PROVE  restarts' + 1 <= fails
      BY <3>1, <3>4, <3>5, <3>7, Zenon
    <3> QED BY <3>1, <3>3, <3>6, <3>7
  <2> QED BY <1>1, <2>1 DEF Phase, Accepting
<1>4. \A c \in Clients : \A s : Owns(c, s)' <=> Owns(c, s)
  BY <1>1, SameOwners DEF Active
<1>5. SlotsOwned' /\ OneOwner'
  BY <1>1, <1>4, OwnersKept
<1>6. InOrder'
  <2>1. ASSUME NEW s \in Slots
        PROVE  Handled(s)' \in Int /\ Handled(s) <= Handled(s)'
    <3>1. Handled(s) \in Int /\ Handled(s) <= npkt /\ npkt \in Nat
      BY HandledType
    <3>2. Handled(s)' = Handled(s) \/ Handled(s)' = npkt
      BY <1>1 DEF Handled
    <3> QED BY <3>1, <3>2
  <2>2. rpc' = "copy" => npkt' > 0
    BY <1>1 DEF InOrder
  <2> QED BY <1>1, <1>4, <2>1, <2>2, OrderGrows
<1>7. StillFree' /\ HoldsMessage'
  BY <1>1 DEF StillFree, HoldsMessage
<1>8. BuffersConserved' /\ Finite'
  <2>1. freeMsg' + others' + restarts' + AtMain' = freeMsg + others + restarts + AtMain
    BY <1>1, Counts
  <2>2. others' \in Nat
    BY <1>1, Counts
  <2> QED BY <1>1, <2>1, <2>2, BooksKept
<1> QED BY <1>2, <1>3, <1>5, <1>6, <1>7, <1>8, Assembled

-----------------------------------------------------------------------------
(* The theorems                                                            *)

LEMMA StutterInv ==
  ASSUME IInv, UNCHANGED vars
  PROVE  IInv'
<1>0. /\ Shape /\ Phase /\ SlotsOwned /\ OneOwner /\ StillFree /\ HoldsMessage
      /\ InOrder /\ Finite
  BY OwnerParts DEF IInv
<1> USE <1>0
<1> USE DEF vars, main, server, receiver, workers, pools
<1>1. Shape' /\ Phase'
  BY DEF Shape, Phase, Accepting
<1>2. \A c \in Clients : \A s : Owns(c, s)' <=> Owns(c, s)
  BY DEF Owns, Active
<1>3. SlotsOwned' /\ OneOwner' /\ InOrder'
  BY <1>2, OwnersKept, OrderKept
<1>4. StillFree' /\ HoldsMessage'
  BY DEF StillFree, HoldsMessage
<1>5. BuffersConserved' /\ Finite'
  BY Counts, BooksKept DEF AtMain
<1> QED BY <1>1, <1>3, <1>4, <1>5, Assembled

LEMMA NextInv == IInv /\ [Next]_vars => IInv'
<1> SUFFICES ASSUME IInv, [Next]_vars PROVE IInv'
  OBVIOUS
<1>1. CASE Bind \/ ListenFails \/ AcceptFails \/ Listen \/ ScanBusy \/ ScanFree
  BY <1>1, ServerMovesInv
<1>2. ASSUME NEW c \in Clients, Accept(c) PROVE IInv'
  BY <1>2, AcceptInv
<1>3. CASE Reject
  <2>1. client \in Clients
    BY <1>3 DEF Reject, IInv, Phase, Accepting
  <2> QED BY <1>3, <2>1, AcceptInv
<1>4. CASE Report \/ CreateQueue \/ Spawn \/ ServerExits
  BY <1>4, ReportInv, CreateQueueInv, SpawnInv, ServerExitsInv
<1>5. CASE Receive \/ Copy
  BY <1>5, ReceiveInv, CopyInv
<1>6. CASE Borrow \/ GiveBack \/ ReceiverExits
  BY <1>6, LendingInv
<1>7. ASSUME NEW c \in Clients, WorkerSteps(c) PROVE IInv'
  BY <1>7, WorkerStepsInv, PutsDownInv, TakeInv, LeaveSlotInv DEF WorkerSteps
<1>8. CASE MainSteps
  BY <1>8, MainInv
<1>9. CASE UNCHANGED vars
  BY <1>9, StutterInv
<1> QED BY <1>1, <1>2, <1>3, <1>4, <1>5, <1>6, <1>7, <1>8, <1>9
        DEF Next, ServerSteps, ReceiverSteps

(* Every reachable state satisfies the inductive invariant.                *)
THEOREM Invariance == Spec => []IInv
BY InitInv, NextInv, PTL DEF Spec

(* Every variable keeps its type; no pool ever holds more buffers than it  *)
(* was made with, and the restart messages waiting for main are never more *)
(* than the times srt_listen has failed.                                   *)
THEOREM TypeCorrect == Spec => []TypeOK
<1>1. IInv => TypeOK
  <2> SUFFICES ASSUME IInv PROVE TypeOK
    OBVIOUS
  <2>1. Shape /\ Phase /\ BuffersConserved
    BY DEF IInv
  <2>2. restarts \in 0 .. MaxFails
    BY <2>1, BoundsAssumption DEF Shape, Phase
  <2>3. freePkt \in 0 .. Packets /\ freeMsg \in 0 .. Msgs
    <3>1. /\ freePkt + Queued + Held = Packets
          /\ freeMsg + Queued + Held + others + restarts + AtMain = Msgs
      BY <2>1 DEF BuffersConserved, AtMain
    <3> QED BY <3>1, Counts, PoolsAssumption
  <2> QED BY <2>1, <2>2, <2>3 DEF Shape, TypeOK, Numbers
<1> QED BY <1>1, Invariance, PTL

(* A slot has a queue exactly while one client owns it, the slot found     *)
(* free is still free when its queue is made, and no worker sends a NULL   *)
(* message: workers that outlive a restart never meet a new one in a slot. *)
THEOREM OneOwnerAlways == Spec => []OneOwnerPerSlot
<1>1. IInv => OneOwnerPerSlot
  BY DEF IInv
<1> QED BY <1>1, Invariance, PTL

(* No path of any thread loses a buffer or returns one twice.              *)
THEOREM BuffersConservedAlways == Spec => []BuffersConserved
<1>1. IInv => BuffersConserved
  BY DEF IInv
<1> QED BY <1>1, Invariance, PTL

-----------------------------------------------------------------------------
(* The refinement                                                          *)

(* What SlotTable sees of a state.                                         *)
Shown == <<Owner, Served, npkt, last>>

LEMMA SameVars == Promise!vars = Shown
BY DEF Promise!vars, Shown, Owner, Served

(* The owner of a slot, without the choice.                                *)
OwnerFound ==
    /\ Owner = [s \in Slots |-> Owner[s]]
    /\ \A s \in Slots, c \in Clients : Owns(c, s) => Owner[s] = c
    /\ \A s \in Slots : (\A c \in Clients : ~Owns(c, s)) => Owner[s] = NULL

LEMMA OwnerFacts == IInv => OwnerFound
<1> SUFFICES ASSUME IInv PROVE OwnerFound
  OBVIOUS
<1>1. OneOwner
  BY OwnerParts DEF IInv
<1>2. \A s \in Slots :
        Owner[s] = IF \E c \in Clients : Owns(c, s)
                   THEN CHOOSE c \in Clients : Owns(c, s) ELSE NULL
  BY DEF Owner
<1>3. Owner = [s \in Slots |-> Owner[s]]
  BY DEF Owner
<1>4. ASSUME NEW s \in Slots, NEW c \in Clients, Owns(c, s)
      PROVE  Owner[s] = c
  <2>1. Owns(CHOOSE d \in Clients : Owns(d, s), s)
        /\ (CHOOSE d \in Clients : Owns(d, s)) \in Clients
    BY <1>4
  <2>2. Owner[s] = CHOOSE d \in Clients : Owns(d, s)
    BY <1>2, <1>4
  <2> QED BY <1>1, <1>4, <2>1, <2>2 DEF OneOwner
<1>5. ASSUME NEW s \in Slots, \A c \in Clients : ~Owns(c, s)
      PROVE  Owner[s] = NULL
  BY <1>2, <1>5
<1> HIDE DEF Owner
<1> QED BY <1>3, <1>4, <1>5 DEF OwnerFound

LEMMA OwnerFactsNext == IInv' => OwnerFound'
BY OwnerFacts, PTL

(* The same owners before and after.                                       *)
LEMMA OwnerKept ==
  ASSUME OwnerFound, OwnerFound', \A c \in Clients : \A s : Owns(c, s)' <=> Owns(c, s)
  PROVE  Owner' = Owner
<1>1. ASSUME NEW s \in Slots
      PROVE  Owner'[s] = Owner[s]
  <2>1. CASE \E c \in Clients : Owns(c, s)
    BY <2>1 DEF OwnerFound
  <2>2. CASE \A c \in Clients : ~Owns(c, s)
    BY <2>2 DEF OwnerFound
  <2> QED BY <2>1, <2>2
<1>2. Owner = [s \in Slots |-> Owner[s]] /\ Owner' = [s \in Slots |-> Owner'[s]]
  BY DEF OwnerFound
<1> QED BY ONLY <1>1, <1>2

Unserved == {"new", "accepted", "rejected"}
AtSlot == {"loop", "got", "send", "cleanup", "drain"}
OffSlot == {"closing", "gone"}

(* A step in which no client comes to a slot or leaves it, and none is     *)
(* sent a packet.                                                          *)
LEMMA Stutters ==
  ASSUME OwnerFound, OwnerFound', UNCHANGED <<wslot, npkt, last>>,
         \A c \in Clients : \/ wpc'[c] = wpc[c]
                            \/ wpc[c] \in Unserved /\ wpc'[c] \in Unserved
                            \/ wpc[c] \in AtSlot /\ wpc'[c] \in AtSlot
                            \/ wpc[c] \in OffSlot /\ wpc'[c] \in OffSlot,
         spc' = "spawn" <=> spc = "spawn",
         spc = "spawn" => UNCHANGED <<client, slot>>
  PROVE  Shown' = Shown
<1>1. \A c \in Clients : Active(c)' <=> Active(c)
  BY DEF Active, Unserved, AtSlot, OffSlot
<1>2. Owner' = Owner
  BY <1>1, SameOwners, OwnerKept
<1>3. \A c \in Clients : c \in Served' <=> c \in Served
  BY DEF Served, Unserved, AtSlot, OffSlot
<1>4. Served' = Served
  BY <1>3 DEF Served
<1> QED BY <1>2, <1>4 DEF Shown

LEMMA ClientsApart ==
  ASSUME IInv, NEW c \in Clients, NEW x, wpc' = [wpc EXCEPT ![c] = x]
  PROVE  wpc'[c] = x /\ \A d \in Clients : d # c => wpc'[d] = wpc[d]
BY DEF IInv, Shape

LEMMA ServerStutters ==
  ASSUME IInv, OwnerFound, OwnerFound',
         \/ Bind \/ Listen \/ ListenFails \/ Report \/ AcceptFails
         \/ ScanBusy \/ ScanFree \/ ServerExits
  PROVE  Shown' = Shown
<1> USE DEF main, server, receiver, workers, pools
<1>1. UNCHANGED <<wpc, wslot, npkt, last>>
  BY DEF Bind, Listen, ListenFails, Report, AcceptFails, ScanBusy, ScanFree, ServerExits
<1>2. spc # "spawn" /\ spc' # "spawn"
  BY DEF Bind, Listen, ListenFails, Report, AcceptFails, ScanBusy, ScanFree, ServerExits
<1> QED BY <1>1, <1>2, Stutters

LEMMA ArrivalStutters ==
  ASSUME IInv, OwnerFound, OwnerFound', NEW c \in Clients,
         Accept(c) \/ (Reject /\ c = client)
  PROVE  Shown' = Shown
<1>1. /\ spc \in {"accept", "scan"} /\ spc' \in {"scan", "listen"}
      /\ wpc[c] \in Unserved
      /\ \E x \in {"accepted", "rejected"} : wpc' = [wpc EXCEPT ![c] = x]
      /\ UNCHANGED <<wslot, npkt, last>>
  BY DEF Accept, Reject, receiver, IInv, Phase, Accepting, Unserved
<1>2. wpc'[c] \in Unserved /\ \A d \in Clients : d # c => wpc'[d] = wpc[d]
  BY <1>1, ClientsApart DEF Unserved
<1>3. spc # "spawn" /\ spc' # "spawn"
  BY <1>1
<1> QED BY <1>1, <1>2, <1>3, Stutters

LEMMA RestStutters ==
  ASSUME IInv, OwnerFound, OwnerFound',
         Copy \/ Borrow \/ GiveBack \/ ReceiverExits \/ MainSteps \/ UNCHANGED vars
  PROVE  Shown' = Shown
<1> USE DEF vars, main, server, receiver, workers, pools
<1>1. /\ UNCHANGED <<wpc, wslot, npkt, last>>
      /\ \/ UNCHANGED <<spc, client, slot>>
         \/ spc = "exited" /\ spc' = "bind"
  BY DEF Copy, Borrow, GiveBack, ReceiverExits, MainSteps, StopReceiver, StopServer, Restart
<1>2. /\ spc' = "spawn" <=> spc = "spawn"
      /\ spc = "spawn" => UNCHANGED <<client, slot>>
  BY <1>1
<1> QED BY <1>1, <1>2, Stutters

(* The slot passes from the server to the worker.                          *)
LEMMA SpawnStutters ==
  ASSUME IInv, OwnerFound, OwnerFound', Spawn
  PROVE  Shown' = Shown
<1>1. /\ spc = "spawn" /\ spc' = "listen"
      /\ wpc' = [wpc EXCEPT ![client] = "loop"]
      /\ wslot' = [wslot EXCEPT ![client] = slot]
      /\ UNCHANGED <<npkt, last>>
  BY DEF Spawn, receiver
<1>2. client \in Clients /\ wpc[client] = "accepted" /\ Shape
  BY <1>1 DEF IInv, Phase, Accepting
<1>3. /\ wpc'[client] = "loop" /\ wslot'[client] = slot
      /\ \A d \in Clients : d # client => wpc'[d] = wpc[d] /\ wslot'[d] = wslot[d]
  BY <1>1, <1>2 DEF Shape
<1>4. \A c \in Clients : \A s : Owns(c, s)' <=> Owns(c, s)
  BY <1>1, <1>2, <1>3 DEF Owns, Active
<1>5. \A c \in Clients : c \in Served' <=> c \in Served
  BY <1>1, <1>2, <1>3 DEF Served
<1>6. Owner' = Owner
  BY <1>4, OwnerKept
<1>7. Served' = Served
  BY <1>5 DEF Served
<1> QED BY <1>1, <1>6, <1>7 DEF Shown

LEMMA WorkerStutters ==
  ASSUME IInv, OwnerFound, OwnerFound', NEW c \in Clients,
         \/ LeaveLoop(c) \/ Take(c) \/ Stopped(c) \/ GoesOn(c) \/ SendFails(c)
         \/ ConnectionLost(c) \/ ClearFlag(c) \/ WorkerEnds(c)
  PROVE  Shown' = Shown
<1> USE DEF main, server, receiver, workers, pools
<1>1. /\ \E x \in AtSlot \cup OffSlot :
           /\ wpc' = [wpc EXCEPT ![c] = x]
           /\ \/ wpc[c] \in AtSlot /\ x \in AtSlot
              \/ wpc[c] \in OffSlot /\ x \in OffSlot
      /\ UNCHANGED <<spc, client, slot, wslot, npkt, last>>
  <2> USE DEF AtSlot, OffSlot
  <2>1. CASE LeaveLoop(c) \/ GoesOn(c) \/ ClearFlag(c) \/ WorkerEnds(c)
    BY <2>1 DEF LeaveLoop, GoesOn, ClearFlag, WorkerEnds
  <2>2. CASE Take(c)
    BY <2>2 DEF Take
  <2>3. CASE Stopped(c) \/ SendFails(c) \/ ConnectionLost(c)
    BY <2>3 DEF Stopped, SendFails, ConnectionLost
  <2> QED BY <2>1, <2>2, <2>3
<1>2. /\ \/ wpc[c] \in AtSlot /\ wpc'[c] \in AtSlot
         \/ wpc[c] \in OffSlot /\ wpc'[c] \in OffSlot
      /\ \A d \in Clients : d # c => wpc'[d] = wpc[d]
  BY <1>1, ClientsApart
<1> QED BY <1>1, <1>2, Stutters

LEMMA CreateQueueClaims ==
  ASSUME IInv, OwnerFound, OwnerFound', CreateQueue
  PROVE  Promise!Claim(slot, client)
<1>0. Shape /\ Phase /\ SlotsOwned /\ StillFree /\ InOrder
  BY OwnerParts DEF IInv
<1>1. /\ spc = "create" /\ spc' = "spawn"
      /\ last' = [last EXCEPT ![client] = IF rpc = "copy" THEN npkt - 1 ELSE npkt]
      /\ UNCHANGED <<slot, client, npkt, wpc, wslot>>
  BY DEF CreateQueue, receiver
<1>2. client \in Clients /\ wpc[client] = "accepted" /\ slot \in Slots
  BY <1>0, <1>1 DEF Phase, Accepting, Shape
<1>3. \A c \in Clients : ~Owns(c, slot)
  BY <1>0, <1>1, <1>2 DEF SlotsOwned, StillFree
<1>4. Owner[slot] = NULL /\ client \notin Served
  BY <1>1, <1>2, <1>3 DEF OwnerFound, Served
<1>5. \A c \in Clients : \A s : Owns(c, s)' <=> Owns(c, s) \/ (c = client /\ s = slot)
  BY <1>1 DEF Owns, Active
<1>6. Owner' = [Owner EXCEPT ![slot] = client]
  <2>1. Owner'[slot] = client
    BY <1>1, <1>2, <1>5 DEF OwnerFound
  <2>2. ASSUME NEW s \in Slots, s # slot
        PROVE  Owner'[s] = Owner[s]
    <3>1. CASE \E c \in Clients : Owns(c, s)
      BY <1>5, <2>2, <3>1 DEF OwnerFound
    <3>2. CASE \A c \in Clients : ~Owns(c, s)
      BY <1>5, <2>2, <3>2 DEF OwnerFound
    <3> QED BY <3>1, <3>2
  <2>3. Owner = [s \in Slots |-> Owner[s]] /\ Owner' = [s \in Slots |-> Owner'[s]]
    BY DEF OwnerFound
  <2> QED BY ONLY <1>2, <2>1, <2>2, <2>3
<1>7. Served' = Served \cup {client}
  <2>1. \A c \in Clients : c \in Served' <=> c \in Served \/ c = client
    BY <1>1, <1>2 DEF Served
  <2> QED BY <1>2, <2>1 DEF Served
<1>8. \E n \in {npkt - 1, npkt} \cap Nat : last' = [last EXCEPT ![client] = n]
  <2>1. (IF rpc = "copy" THEN npkt - 1 ELSE npkt) \in {npkt - 1, npkt} \cap Nat
    BY <1>0, BoundsAssumption DEF Shape, InOrder
  <2> QED BY <1>1, <2>1
<1> QED BY <1>1, <1>4, <1>6, <1>7, <1>8 DEF Promise!Claim, Owner, Served

LEMMA LeaveSlotReleases ==
  ASSUME IInv, OwnerFound, OwnerFound', NEW c \in Clients, LeaveSlot(c)
  PROVE  Promise!Release(wslot[c])
<1>0. Shape /\ Phase /\ OneOwner
  BY OwnerParts DEF IInv
<1> DEFINE s == wslot[c]
<1>1. /\ wpc[c] = "drain" /\ wpc' = [wpc EXCEPT ![c] = "closing"]
      /\ UNCHANGED <<spc, slot, client, npkt, last, wslot>>
  BY DEF LeaveSlot, server, receiver
<1>2. wpc'[c] = "closing" /\ \A d \in Clients : d # c => wpc'[d] = wpc[d]
  BY <1>1, ClientsApart
<1>3. s \in Slots /\ Owns(c, s) /\ \A t : Owns(c, t) => t = s
  BY <1>0, <1>1 DEF Shape, Phase, Accepting, Owns, Active
<1>4. \A d \in Clients : \A t : Owns(d, t)' <=> Owns(d, t) /\ d # c
  BY <1>0, <1>1, <1>2 DEF Owns, Active, Phase, Accepting
<1> HIDE DEF s
<1>5. Owner[s] = c /\ c # NULL
  BY <1>3, NullFacts DEF OwnerFound
<1>6. Owner' = [Owner EXCEPT ![s] = NULL]
  <2>1. ASSUME NEW t \in Slots, t = s
        PROVE  Owner'[t] = NULL
    <3>1. \A d \in Clients : ~Owns(d, t)'
      BY <1>0, <1>3, <1>4, <2>1 DEF OneOwner
    <3> QED BY <3>1 DEF OwnerFound
  <2>2. ASSUME NEW t \in Slots, t # s
        PROVE  Owner'[t] = Owner[t]
    <3>1. CASE \E d \in Clients : Owns(d, t)
      BY <1>3, <1>4, <2>2, <3>1 DEF OwnerFound
    <3>2. CASE \A d \in Clients : ~Owns(d, t)
      BY <1>4, <2>2, <3>2 DEF OwnerFound
    <3> QED BY <3>1, <3>2
  <2>3. Owner = [t \in Slots |-> Owner[t]] /\ Owner' = [t \in Slots |-> Owner'[t]]
    BY DEF OwnerFound
  <2> QED BY ONLY <1>3, <2>1, <2>2, <2>3
<1>7. Served' = Served
  <2>1. \A d \in Clients : d \in Served' <=> d \in Served
    BY <1>1, <1>2 DEF Served
  <2> QED BY <2>1 DEF Served
<1>8. Promise!Release(s)
  BY <1>1, <1>5, <1>6, <1>7 DEF Promise!Release, Owner, Served
<1> QED BY <1>8 DEF s

LEMMA SendDelivers ==
  ASSUME IInv, OwnerFound, OwnerFound', NEW c \in Clients, Send(c)
  PROVE  Promise!Deliver(wslot[c])
<1>0. Shape /\ Phase /\ HoldsMessage /\ InOrder
  BY OwnerParts DEF IInv
<1>1. /\ wpc[c] = "send" /\ wpc' = [wpc EXCEPT ![c] = "loop"]
      /\ last' = [last EXCEPT ![c] = held[c]]
      /\ UNCHANGED <<spc, slot, client, npkt, wslot>>
  BY DEF Send, server, receiver
<1>2. wpc'[c] = "loop" /\ \A d \in Clients : d # c => wpc'[d] = wpc[d]
  BY <1>1, ClientsApart
<1>3. wslot[c] \in Slots /\ Owns(c, wslot[c])
  BY <1>0, <1>1 DEF Shape, Owns, Active
<1>4. Owner[wslot[c]] = c /\ c # NULL
  BY <1>3, NullFacts DEF OwnerFound
<1>5. held[c] \in (last[c] + 1) .. npkt
  <2>1. held[c] # NULL /\ Pending(c, wslot[c])
    BY <1>0, <1>1, <1>3 DEF HoldsMessage, InOrder
  <2>2. last[c] < held[c] /\ held[c] <= Handled(wslot[c])
    BY <2>1 DEF Pending
  <2>3. held[c] \in Int /\ last[c] \in Int
    BY <1>0, <2>1, BoundsAssumption DEF Shape, Numbers
  <2>4. held[c] <= npkt /\ npkt \in Int
    BY <1>3, <2>2, <2>3, HandledType
  <2> QED BY <2>2, <2>3, <2>4
<1>6. Owner' = Owner
  <2>1. \A d \in Clients : \A t : Owns(d, t)' <=> Owns(d, t)
    BY <1>1, <1>2 DEF Owns, Active
  <2> QED BY <2>1, OwnerKept
<1>7. Served' = Served
  <2>1. \A d \in Clients : d \in Served' <=> d \in Served
    BY <1>1, <1>2 DEF Served
  <2> QED BY <2>1 DEF Served
<1>8. \E n \in (last[Owner[wslot[c]]] + 1) .. npkt :
        last' = [last EXCEPT ![Owner[wslot[c]]] = n]
  BY <1>1, <1>4, <1>5
<1>9. Owner[wslot[c]] # NULL
  BY <1>4
<1> QED BY <1>1, <1>6, <1>7, <1>8, <1>9 DEF Promise!Deliver, Owner, Served

LEMMA StepRefines == IInv /\ IInv' /\ [Next]_vars => [Promise!Next]_(Promise!vars)
<1> SUFFICES ASSUME IInv, OwnerFound, OwnerFound', [Next]_vars
             PROVE  Promise!Next \/ Shown' = Shown
  BY OwnerFacts, OwnerFactsNext, SameVars DEF Promise!vars, Shown, Owner, Served
<1>1. CASE \/ Bind \/ Listen \/ ListenFails \/ Report \/ AcceptFails
           \/ ScanBusy \/ ScanFree \/ ServerExits
  BY <1>1, ServerStutters
<1>2. ASSUME NEW c \in Clients, Accept(c) PROVE Shown' = Shown
  BY <1>2, ArrivalStutters
<1>3. CASE Reject
  <2>1. client \in Clients
    BY <1>3 DEF Reject, IInv, Phase, Accepting
  <2> QED BY <1>3, <2>1, ArrivalStutters
<1>4. CASE CreateQueue
  <2>1. slot \in Slots /\ client \in Clients
    BY <1>4 DEF CreateQueue, IInv, Shape, Phase, Accepting
  <2> QED BY <1>4, <2>1, CreateQueueClaims DEF Promise!Next
<1>5. CASE Spawn
  BY <1>5, SpawnStutters
<1>6. CASE Receive
  <2>1. UNCHANGED <<spc, client, slot, wpc, wslot, last>> /\ npkt' = npkt + 1
    BY <1>6 DEF Receive, server, workers
  <2>2. Owner' = Owner
    <3>1. \A c \in Clients : \A s : Owns(c, s)' <=> Owns(c, s)
      BY <2>1 DEF Owns, Active
    <3> QED BY <3>1, OwnerKept
  <2>3. Served' = Served
    BY <2>1 DEF Served
  <2>4. Promise!Arrive
    BY <2>1, <2>2, <2>3 DEF Promise!Arrive, Owner, Served
  <2> QED BY <2>4 DEF Promise!Next
<1>7. CASE Copy \/ Borrow \/ GiveBack \/ ReceiverExits \/ MainSteps \/ UNCHANGED vars
  BY <1>7, RestStutters
<1>8. ASSUME NEW c \in Clients, WorkerSteps(c)
      PROVE  Promise!Next \/ Shown' = Shown
  <2>1. wslot[c] \in Slots
    BY DEF IInv, Shape
  <2>2. CASE Send(c)
    BY <2>1, <2>2, SendDelivers DEF Promise!Next
  <2>3. CASE LeaveSlot(c)
    BY <2>1, <2>3, LeaveSlotReleases DEF Promise!Next
  <2>4. CASE ~Send(c) /\ ~LeaveSlot(c)
    BY <1>8, <2>4, WorkerStutters DEF WorkerSteps
  <2> QED BY <2>2, <2>3, <2>4
<1> QED BY <1>1, <1>2, <1>3, <1>4, <1>5, <1>6, <1>7, <1>8
        DEF Next, ServerSteps, ReceiverSteps

(* The threads together keep what SlotTable promises: a slot goes to one   *)
(* client at a time, a client gets a slot once in its life, and what it is *)
(* sent was received while it had the slot, oldest first and none twice.   *)
THEOREM ImplementsSlotTable == Spec => SlotTableSpec
<1>1. Init => Promise!Init
  <2> SUFFICES ASSUME Init PROVE Promise!Init
    OBVIOUS
  <2>1. \A c \in Clients : \A s : ~Owns(c, s)
    BY DEF Init, Owns, Active
  <2>2. OwnerFound
    BY InitInv, OwnerFacts
  <2>3. Owner = [s \in Slots |-> NULL]
    BY <2>1, <2>2 DEF OwnerFound
  <2>4. Served = {}
    BY DEF Init, Served
  <2> QED BY <2>3, <2>4 DEF Init, Promise!Init, Owner, Served
<1> QED BY <1>1, StepRefines, Invariance, PTL DEF Spec, SlotTableSpec, Promise!Spec
=============================================================================

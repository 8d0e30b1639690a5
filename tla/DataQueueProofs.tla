-------------------------- MODULE DataQueueProofs ---------------------------
(***************************************************************************)
(* Proofs about the message queue, for any nodes, messages and bound on    *)
(* stops: the links of the list and the count it reports agree in every    *)
(* reachable state, a consumer sleeps only on an empty queue, and the list *)
(* is the double-ended queue of module Deque.                              *)
(***************************************************************************)
EXTENDS DataQueue, SequenceTheorems, TLAPS

-----------------------------------------------------------------------------
(* Sequences that lose or gain one element at an end                       *)

LEMMA AddedFirst ==
  ASSUME NEW S, NEW s \in Seq(S), NEW e \in S
  PROVE  LET t == <<e>> \o s
         IN  /\ t \in Seq(S) /\ Len(t) = Len(s) + 1 /\ t # <<>>
             /\ t[1] = e
             /\ \A i \in 1 .. Len(s) : t[i + 1] = s[i]
             /\ \A i \in 2 .. Len(t) : t[i] = s[i - 1]
<1>1. <<e>> \in Seq(S) /\ Len(<<e>>) = 1 /\ <<e>>[1] = e
  OBVIOUS
<1>2. Len(s) \in Nat
  BY LenProperties
<1> QED BY <1>1, <1>2, ConcatProperties, EmptySeq

LEMMA AddedLast ==
  ASSUME NEW S, NEW s \in Seq(S), NEW e \in S
  PROVE  LET t == Append(s, e)
         IN  /\ t \in Seq(S) /\ Len(t) = Len(s) + 1 /\ t # <<>>
             /\ t[Len(t)] = e
             /\ \A i \in 1 .. Len(s) : t[i] = s[i]
BY AppendProperties, LenProperties

LEMMA FirstGone ==
  ASSUME NEW S, NEW s \in Seq(S), s # <<>>
  PROVE  LET t == Tail(s)
         IN  /\ t \in Seq(S) /\ Len(t) = Len(s) - 1
             /\ \A i \in 1 .. Len(t) : t[i] = s[i + 1]
BY HeadTailProperties

LEMMA LastGone ==
  ASSUME NEW S, NEW s \in Seq(S), s # <<>>
  PROVE  LET t == SubSeq(s, 1, Len(s) - 1)
         IN  /\ t \in Seq(S) /\ Len(t) = Len(s) - 1
             /\ \A i \in 1 .. Len(t) : t[i] = s[i]
<1>1. Len(s) \in Nat \ {0} /\ \A i \in 1 .. Len(s) : s[i] \in S
  BY LenProperties, EmptySeq, ElementOfSeq
<1>2. \A i \in 1 .. Len(s) - 1 : s[i] \in S
  BY <1>1
<1>3. /\ SubSeq(s, 1, Len(s) - 1) \in Seq(S)
      /\ Len(SubSeq(s, 1, Len(s) - 1)) = IF 1 <= Len(s) - 1 THEN (Len(s) - 1) - 1 + 1 ELSE 0
      /\ \A i \in 1 .. (Len(s) - 1) - 1 + 1 : SubSeq(s, 1, Len(s) - 1)[i] = s[1 + i - 1]
  <2>1. 1 \in Int /\ Len(s) - 1 \in Int
    BY <1>1
  <2> QED BY <1>2, <2>1, SubSeqProperties
<1>4. \A k \in Nat \ {0} : /\ (IF 1 <= k - 1 THEN (k - 1) - 1 + 1 ELSE 0) = k - 1
                           /\ (k - 1) - 1 + 1 = k - 1
                           /\ \A i \in 1 .. k - 1 : 1 + i - 1 = i
  OBVIOUS
<1>5. Len(SubSeq(s, 1, Len(s) - 1)) = Len(s) - 1
  BY <1>1, <1>3, <1>4
<1>6. \A i \in 1 .. Len(s) - 1 : SubSeq(s, 1, Len(s) - 1)[i] = s[i]
  BY <1>1, <1>3, <1>4
<1> QED BY <1>3, <1>5, <1>6

(* A sequence is empty when its length is zero.                            *)
LEMMA EmptyLength ==
  ASSUME NEW S, NEW s \in Seq(S)
  PROVE  /\ Len(s) \in Nat
         /\ s = <<>> <=> Len(s) = 0
         /\ \A i \in 1 .. Len(s) : s[i] \in S
BY LenProperties, EmptySeq, ElementOfSeq

-----------------------------------------------------------------------------
(* The list: what the four operations on it preserve                       *)

ListType ==
  /\ head \in Nodes \cup {NULL} /\ tail \in Nodes \cup {NULL}
  /\ count \in Nat
  /\ next \in [Nodes -> Nodes \cup {NULL}]
  /\ prev \in [Nodes -> Nodes \cup {NULL}]
  /\ message \in [Nodes -> Messages \cup {NULL}]
  /\ took \in Messages \cup {NULL}
  /\ order \in Seq(Nodes)

ListInv == ListType /\ LinksMatch /\ CountMatches

(* The ends of a list that is linked as its order says.                    *)
LEMMA Ends ==
  ASSUME ListInv
  PROVE  /\ head = NULL <=> order = <<>>
         /\ tail = NULL <=> order = <<>>
         /\ order # <<>> => /\ Len(order) \in Nat \ {0}
                            /\ head = order[1] /\ tail = order[Len(order)]
                            /\ head \in Nodes /\ tail \in Nodes
<1>1. Len(order) \in Nat /\ (order = <<>> <=> Len(order) = 0)
      /\ \A i \in 1 .. Len(order) : order[i] \in Nodes
  BY EmptyLength DEF ListInv, ListType
<1> QED BY <1>1, NullAssumption DEF ListInv, LinksMatch

LEMMA PutFrontList ==
  ASSUME ListInv, NEW n \in Nodes, NEW m \in Messages, PutFront(n, m)
  PROVE  ListInv'
<1>1. /\ n \notin Linked
      /\ prev' = [i \in Nodes |-> IF i = n THEN NULL ELSE IF i = head THEN n ELSE prev[i]]
      /\ next' = [next EXCEPT ![n] = head]
      /\ message' = [message EXCEPT ![n] = m]
      /\ head' = n
      /\ tail' = IF head = NULL THEN n ELSE tail
      /\ count' = count + 1
      /\ order' = <<n>> \o order
      /\ took' = took
  BY DEF PutFront, FrontLinks
<1>2. /\ order' \in Seq(Nodes) /\ Len(order') = Len(order) + 1 /\ order' # <<>>
      /\ order'[1] = n
      /\ \A i \in 1 .. Len(order) : order'[i + 1] = order[i]
      /\ \A i \in 2 .. Len(order') : order'[i] = order[i - 1]
  BY <1>1, AddedFirst DEF ListInv, ListType
<1>3. Len(order) \in Nat /\ \A i \in 1 .. Len(order) : order[i] \in Nodes /\ order[i] # n
  BY <1>1, EmptyLength DEF ListInv, ListType, Linked
<1>4. ListType'
  BY <1>1, <1>2 DEF ListInv, ListType
<1>5. CountMatches'
  BY <1>1, <1>2 DEF ListInv, CountMatches
<1>6. LinksMatch'
  <2>1. head' = order'[1]
    BY <1>1, <1>2
  <2>2. tail' = order'[Len(order')]
    BY <1>1, <1>2, <1>3, Ends, EmptyLength DEF ListInv, ListType
  <2>3. ASSUME NEW i \in 1 .. Len(order')
        PROVE  /\ next'[order'[i]] = IF i = Len(order') THEN NULL ELSE order'[i + 1]
               /\ prev'[order'[i]] = IF i = 1 THEN NULL ELSE order'[i - 1]
    <3>1. CASE i = 1
      BY <3>1, <1>1, <1>2, <1>3, Ends, EmptyLength DEF ListInv, ListType
    <3>2. CASE i # 1
      <4>1. i - 1 \in 1 .. Len(order) /\ order'[i] = order[i - 1]
        BY <3>2, <1>2, <1>3
      <4>2. order[i - 1] \in Nodes /\ order[i - 1] # n
        BY <4>1, <1>3
      <4>3. next'[order'[i]] = IF i = Len(order') THEN NULL ELSE order'[i + 1]
        BY <4>1, <4>2, <1>1, <1>2, <1>3 DEF ListInv, ListType, LinksMatch
      <4>4. CASE i = 2
        <5>1. order[1] = head
          BY <4>1, <4>4, <1>3 DEF ListInv, LinksMatch
        <5> QED BY <4>1, <4>2, <4>3, <4>4, <5>1, <1>1, <1>2
      <4>5. CASE i # 2
        <5>1. i - 2 \in 1 .. Len(order) /\ order'[i - 1] = order[i - 2]
          BY <4>1, <4>5, <1>2, <1>3
        <5>2. order[i - 1] # head
          BY <4>1, <4>5, <1>3, Ends DEF ListInv, LinksMatch
        <5> QED BY <4>1, <4>2, <4>3, <5>1, <5>2, <1>1 DEF ListInv, ListType, LinksMatch
      <4> QED BY <4>3, <4>4, <4>5
    <3> QED BY <3>1, <3>2
  <2>4. ASSUME NEW i \in 1 .. Len(order'), NEW j \in 1 .. Len(order'), order'[i] = order'[j]
        PROVE  i = j
    <3>1. \A k \in 1 .. Len(order') : k = 1 \/ /\ k - 1 \in 1 .. Len(order)
                                               /\ order'[k] = order[k - 1] /\ order'[k] # n
      BY <1>2, <1>3
    <3> QED BY <2>4, <3>1, <1>2 DEF ListInv, LinksMatch
  <2> QED BY <2>1, <2>2, <2>3, <2>4, <1>2 DEF LinksMatch
<1> QED BY <1>4, <1>5, <1>6 DEF ListInv

LEMMA PutBackList ==
  ASSUME ListInv, NEW n \in Nodes, NEW m \in Messages, PutBack(n, m)
  PROVE  ListInv'
<1>1. /\ n \notin Linked
      /\ next' = [i \in Nodes |-> IF i = n THEN NULL ELSE IF i = tail THEN n ELSE next[i]]
      /\ prev' = [prev EXCEPT ![n] = tail]
      /\ message' = [message EXCEPT ![n] = m]
      /\ tail' = n
      /\ head' = IF tail = NULL THEN n ELSE head
      /\ count' = count + 1
      /\ order' = Append(order, n)
      /\ took' = took
  BY DEF PutBack
<1>2. /\ order' \in Seq(Nodes) /\ Len(order') = Len(order) + 1 /\ order' # <<>>
      /\ order'[Len(order')] = n
      /\ \A i \in 1 .. Len(order) : order'[i] = order[i]
  BY <1>1, AddedLast DEF ListInv, ListType
<1>3. Len(order) \in Nat /\ \A i \in 1 .. Len(order) : order[i] \in Nodes /\ order[i] # n
  BY <1>1, EmptyLength DEF ListInv, ListType, Linked
<1>4. ListType'
  BY <1>1, <1>2 DEF ListInv, ListType
<1>5. CountMatches'
  BY <1>1, <1>2 DEF ListInv, CountMatches
<1>6. LinksMatch'
  <2>1. tail' = order'[Len(order')]
    BY <1>1, <1>2
  <2>2. head' = order'[1]
    BY <1>1, <1>2, <1>3, Ends, EmptyLength DEF ListInv, ListType
  <2>3. ASSUME NEW i \in 1 .. Len(order')
        PROVE  /\ next'[order'[i]] = IF i = Len(order') THEN NULL ELSE order'[i + 1]
               /\ prev'[order'[i]] = IF i = 1 THEN NULL ELSE order'[i - 1]
    <3>1. CASE i = Len(order')
      <4>1. next'[n] = NULL /\ prev'[n] = tail /\ order'[i] = n
        BY <3>1, <1>1, <1>2 DEF ListInv, ListType
      <4>2. tail = IF i = 1 THEN NULL ELSE order'[i - 1]
        BY <3>1, <1>2, <1>3, Ends, EmptyLength DEF ListInv, ListType
      <4> QED BY <3>1, <4>1, <4>2
    <3>2. CASE i # Len(order')
      <4>1. i \in 1 .. Len(order) /\ order'[i] = order[i]
        BY <3>2, <1>2, <1>3
      <4>2. order[i] \in Nodes /\ order[i] # n
        BY <4>1, <1>3
      <4>3. prev'[order'[i]] = IF i = 1 THEN NULL ELSE order'[i - 1]
        BY <4>1, <4>2, <1>1, <1>2, <1>3 DEF ListInv, ListType, LinksMatch
      <4>4. CASE i = Len(order)
        <5>1. order[i] = tail
          BY <4>1, <4>4, <1>3 DEF ListInv, LinksMatch
        <5> QED BY <4>1, <4>2, <4>3, <4>4, <5>1, <1>1, <1>2
      <4>5. CASE i # Len(order)
        <5>1. i + 1 \in 1 .. Len(order) /\ order'[i + 1] = order[i + 1]
          BY <4>1, <4>5, <1>2, <1>3
        <5>2. order[i] # tail
          BY <4>1, <4>5, <1>3, Ends DEF ListInv, LinksMatch
        <5> QED BY <4>1, <4>2, <4>3, <4>5, <5>1, <5>2, <1>1, <3>2 DEF ListInv, ListType, LinksMatch
      <4> QED BY <4>4, <4>5
    <3> QED BY <3>1, <3>2
  <2>4. ASSUME NEW i \in 1 .. Len(order'), NEW j \in 1 .. Len(order'), order'[i] = order'[j]
        PROVE  i = j
    <3>1. \A k \in 1 .. Len(order') : k = Len(order') \/ /\ k \in 1 .. Len(order)
                                                         /\ order'[k] = order[k] /\ order'[k] # n
      BY <1>2, <1>3
    <3> QED BY <2>4, <3>1, <1>2 DEF ListInv, LinksMatch
  <2> QED BY <2>1, <2>2, <2>3, <2>4, <1>2 DEF LinksMatch
<1> QED BY <1>4, <1>5, <1>6 DEF ListInv

LEMMA UnlinkFrontList ==
  ASSUME ListInv, head # NULL, UnlinkFront
  PROVE  ListInv'
<1> DEFINE h == next[head]
<1>1. /\ head' = h
      /\ prev' = [i \in Nodes |-> IF i = h THEN NULL ELSE prev[i]]
      /\ tail' = IF h = NULL THEN NULL ELSE tail
      /\ next' = [next EXCEPT ![head] = NULL]
      /\ count' = count - 1
      /\ took' = message[head]
      /\ order' = Tail(order)
      /\ message' = message
  BY DEF UnlinkFront
<1>2. /\ order # <<>> /\ Len(order) \in Nat \ {0}
      /\ head = order[1] /\ tail = order[Len(order)] /\ head \in Nodes /\ tail \in Nodes
  BY Ends
<1>3. /\ order' \in Seq(Nodes) /\ Len(order') = Len(order) - 1
      /\ \A i \in 1 .. Len(order') : order'[i] = order[i + 1]
  BY <1>1, <1>2, FirstGone DEF ListInv, ListType
<1>4. \A i \in 1 .. Len(order) : order[i] \in Nodes
  BY EmptyLength DEF ListInv, ListType
<1>5. order' = <<>> <=> Len(order') = 0
  BY <1>3, EmptyLength
<1>6. h = IF Len(order) = 1 THEN NULL ELSE order[2]
  <2>1. 1 \in 1 .. Len(order) /\ 1 + 1 = 2
    BY <1>2
  <2>2. next[order[1]] = IF 1 = Len(order) THEN NULL ELSE order[1 + 1]
    BY <2>1 DEF ListInv, LinksMatch
  <2> QED BY <1>2, <2>1, <2>2
<1>7. Len(order) # 1 => 2 \in 1 .. Len(order) /\ order[2] \in Nodes /\ h # NULL
  BY <1>2, <1>4, <1>6, NullAssumption
<1> HIDE DEF h
<1>8. ListType'
  BY <1>1, <1>2, <1>3, <1>6, <1>7 DEF ListInv, ListType, CountMatches
<1>9. CountMatches'
  BY <1>1, <1>2, <1>3 DEF ListInv, CountMatches
<1>10. LinksMatch'
  <2>1. head' = IF order' = <<>> THEN NULL ELSE order'[1]
    BY <1>1, <1>2, <1>3, <1>5, <1>6
  <2>2. tail' = IF order' = <<>> THEN NULL ELSE order'[Len(order')]
    BY <1>1, <1>2, <1>3, <1>5, <1>6, <1>7
  <2>3. ASSUME NEW i \in 1 .. Len(order')
        PROVE  /\ next'[order'[i]] = IF i = Len(order') THEN NULL ELSE order'[i + 1]
               /\ prev'[order'[i]] = IF i = 1 THEN NULL ELSE order'[i - 1]
    <3>1. i + 1 \in 1 .. Len(order) /\ order'[i] = order[i + 1] /\ order[i + 1] \in Nodes
      BY <1>2, <1>3, <1>4
    <3>2. order[i + 1] # head
      BY <3>1, <1>2 DEF ListInv, LinksMatch
    <3>3. next'[order'[i]] = IF i = Len(order') THEN NULL ELSE order'[i + 1]
      <4>1. next'[order[i + 1]] = next[order[i + 1]]
        BY <3>1, <3>2, <1>1 DEF ListInv, ListType
      <4>2. next[order[i + 1]] = IF i + 1 = Len(order) THEN NULL ELSE order[i + 1 + 1]
        BY <3>1 DEF ListInv, LinksMatch
      <4>3. i # Len(order') => i + 1 \in 1 .. Len(order') /\ order'[i + 1] = order[i + 1 + 1]
        BY <1>2, <1>3
      <4> QED BY <3>1, <4>1, <4>2, <4>3, <1>2, <1>3
    <3>4. CASE i = 1
      BY <3>1, <3>3, <3>4, <1>1, <1>2, <1>6
    <3>5. CASE i # 1
      <4>1. i - 1 \in 1 .. Len(order') /\ order'[i - 1] = order[i]
        BY <3>5, <1>2, <1>3
      <4>2. order[i + 1] # h
        BY <3>1, <3>5, <1>2, <1>6, <1>7 DEF ListInv, LinksMatch
      <4> QED BY <3>1, <3>3, <3>5, <4>1, <4>2, <1>1 DEF ListInv, LinksMatch
    <3> QED BY <3>4, <3>5
  <2>4. ASSUME NEW i \in 1 .. Len(order'), NEW j \in 1 .. Len(order'), order'[i] = order'[j]
        PROVE  i = j
    BY <2>4, <1>2, <1>3 DEF ListInv, LinksMatch
  <2> QED BY <2>1, <2>2, <2>3, <2>4 DEF LinksMatch
<1> QED BY <1>8, <1>9, <1>10 DEF ListInv

LEMMA UnlinkBackList ==
  ASSUME ListInv, tail # NULL, UnlinkBack
  PROVE  ListInv'
<1> DEFINE t == prev[tail]
<1>1. /\ tail' = t
      /\ next' = [i \in Nodes |-> IF i = t THEN NULL ELSE next[i]]
      /\ head' = IF t = NULL THEN NULL ELSE head
      /\ prev' = [prev EXCEPT ![tail] = NULL]
      /\ count' = count - 1
      /\ took' = message[tail]
      /\ order' = SubSeq(order, 1, Len(order) - 1)
      /\ message' = message
  BY DEF UnlinkBack, HeadAfterUnlink
<1>2. /\ order # <<>> /\ Len(order) \in Nat \ {0}
      /\ head = order[1] /\ tail = order[Len(order)] /\ head \in Nodes /\ tail \in Nodes
  BY Ends
<1>3. /\ order' \in Seq(Nodes) /\ Len(order') = Len(order) - 1
      /\ \A i \in 1 .. Len(order') : order'[i] = order[i]
  BY <1>1, <1>2, LastGone DEF ListInv, ListType
<1>4. \A i \in 1 .. Len(order) : order[i] \in Nodes
  BY EmptyLength DEF ListInv, ListType
<1>5. order' = <<>> <=> Len(order') = 0
  BY <1>3, EmptyLength
<1>6. t = IF Len(order) = 1 THEN NULL ELSE order[Len(order) - 1]
  <2>1. Len(order) \in 1 .. Len(order)
    BY <1>2
  <2>2. prev[order[Len(order)]] = IF Len(order) = 1 THEN NULL ELSE order[Len(order) - 1]
    BY <2>1 DEF ListInv, LinksMatch
  <2> QED BY <1>2, <2>1, <2>2
<1>7. Len(order) # 1 => /\ Len(order) - 1 \in 1 .. Len(order)
                        /\ order[Len(order) - 1] \in Nodes /\ t # NULL
  <2>1. Len(order) # 1 => Len(order) - 1 \in 1 .. Len(order)
    <3>1. \A k \in Nat \ {0} : k # 1 => k - 1 \in 1 .. k
      OBVIOUS
    <3> QED BY <1>2, <3>1
  <2>2. Len(order) # 1 => order[Len(order) - 1] \in Nodes
    BY <1>4, <2>1
  <2> QED BY <1>6, <2>1, <2>2, NullAssumption
<1> HIDE DEF t
<1>8. ListType'
  BY <1>1, <1>2, <1>3, <1>6, <1>7 DEF ListInv, ListType, CountMatches
<1>9. CountMatches'
  BY <1>1, <1>2, <1>3 DEF ListInv, CountMatches
<1>10. LinksMatch'
  <2>1. head' = IF order' = <<>> THEN NULL ELSE order'[1]
    BY <1>1, <1>2, <1>3, <1>5, <1>6, <1>7
  <2>2. tail' = IF order' = <<>> THEN NULL ELSE order'[Len(order')]
    BY <1>1, <1>2, <1>3, <1>5, <1>6, <1>7
  <2>3. ASSUME NEW i \in 1 .. Len(order')
        PROVE  /\ next'[order'[i]] = IF i = Len(order') THEN NULL ELSE order'[i + 1]
               /\ prev'[order'[i]] = IF i = 1 THEN NULL ELSE order'[i - 1]
    <3>1. i \in 1 .. Len(order) /\ order'[i] = order[i] /\ order[i] \in Nodes
      BY <1>2, <1>3, <1>4
    <3>2. order[i] # tail
      BY <3>1, <1>2, <1>3 DEF ListInv, LinksMatch
    <3>3. prev'[order'[i]] = IF i = 1 THEN NULL ELSE order'[i - 1]
      BY <3>1, <3>2, <1>1, <1>2, <1>3 DEF ListInv, ListType, LinksMatch
    <3>4. CASE i = Len(order')
      BY <3>1, <3>3, <3>4, <1>1, <1>2, <1>3, <1>6
    <3>5. CASE i # Len(order')
      <4>1. i + 1 \in 1 .. Len(order') /\ order'[i + 1] = order[i + 1]
        BY <3>5, <1>2, <1>3
      <4>2. order[i] # t
        <5>1. Len(order) # 1 /\ Len(order) - 1 \in 1 .. Len(order) /\ i # Len(order) - 1
          BY <3>5, <1>2, <1>3
        <5>2. order[i] # order[Len(order) - 1]
          BY <3>1, <5>1 DEF ListInv, LinksMatch
        <5> QED BY <5>1, <5>2, <1>6
      <4> QED BY <3>1, <3>3, <3>5, <4>1, <4>2, <1>1, <1>3 DEF ListInv, LinksMatch
    <3> QED BY <3>4, <3>5
  <2>4. ASSUME NEW i \in 1 .. Len(order'), NEW j \in 1 .. Len(order'), order'[i] = order'[j]
        PROVE  i = j
    BY <2>4, <1>2, <1>3 DEF ListInv, LinksMatch
  <2> QED BY <2>1, <2>2, <2>3, <2>4 DEF LinksMatch
<1> QED BY <1>8, <1>9, <1>10 DEF ListInv

-----------------------------------------------------------------------------
(* The invariant of the whole queue                                        *)

(* The rest of TypeOK, which no step of the list disturbs.                 *)
ThreadType ==
  /\ running \in BOOLEAN
  /\ pc \in {"call", "check", "asleep", "drain", "exited"}
  /\ did \in {"none", "putFront", "putBack", "takeFront", "takeBack"}
  /\ stops \in 0 .. MaxStops

LEMMA InvParts == Inv <=> ListInv /\ ThreadType
BY DEF Inv, TypeOK, ListInv, ListType, ThreadType

LEMMA InitInv == Init => Inv
<1> SUFFICES ASSUME Init PROVE ListInv /\ ThreadType
  BY InvParts
<1>1. order = <<>> /\ order \in Seq(Nodes) /\ Len(order) = 0
  BY EmptySeq DEF Init
<1>2. ListType
  BY <1>1 DEF Init, ListType
<1>3. LinksMatch
  <2>1. head = NULL /\ tail = NULL /\ 1 .. Len(order) = {}
    BY <1>1 DEF Init
  <2> QED BY <1>1, <2>1 DEF LinksMatch
<1>4. CountMatches
  BY <1>1 DEF Init, CountMatches
<1>5. ThreadType
  BY StopsAssumption DEF Init, ThreadType
<1> QED BY <1>2, <1>3, <1>4, <1>5 DEF ListInv

LEMMA NothingList ==
  ASSUME ListInv, Nothing
  PROVE  ListInv'
BY DEF Nothing, list, ListInv, ListType, LinksMatch, CountMatches

LEMMA UnchangedList ==
  ASSUME ListInv, UNCHANGED list, took' = took
  PROVE  ListInv'
BY DEF list, ListInv, ListType, LinksMatch, CountMatches

(* One step of any thread: the list by the lemmas above, then the flags.   *)
LEMMA NextInv == Inv /\ [Next]_vars => Inv'
<1> SUFFICES ASSUME ListInv, ThreadType, [Next]_vars PROVE ListInv' /\ ThreadType'
  BY DEF Inv, TypeOK, ListInv, ListType, ThreadType
<1> USE DEF thread, answer
<1>1. ASSUME NEW n \in Nodes, NEW m \in Messages, PutFront(n, m)
      PROVE  ListInv' /\ ThreadType'
  <2>1. ListInv'
    BY <1>1, PutFrontList
  <2> QED BY <2>1, <1>1 DEF PutFront, Signal, ThreadType
<1>2. ASSUME NEW n \in Nodes, NEW m \in Messages, PutBack(n, m)
      PROVE  ListInv' /\ ThreadType'
  <2>1. ListInv'
    BY <1>2, PutBackList
  <2> QED BY <2>1, <1>2 DEF PutBack, Signal, ThreadType
<1>3. CASE TakeFront /\ UNCHANGED thread
  <2>1. ListInv'
    BY <1>3, UnlinkFrontList, NothingList DEF TakeFront
  <2> QED BY <2>1, <1>3 DEF TakeFront, ThreadType
<1>4. CASE TakeBack /\ UNCHANGED thread
  <2>1. ListInv'
    BY <1>4, UnlinkBackList, NothingList DEF TakeBack
  <2> QED BY <2>1, <1>4 DEF TakeBack, ThreadType
<1>5. CASE Call \/ Sleep \/ Timeout \/ Stop \/ Restart
  <2>1. UNCHANGED list /\ UNCHANGED answer
    BY <1>5 DEF Call, Sleep, Timeout, Stop, Restart
  <2>2. ListInv'
    BY <2>1, UnchangedList
  <2>3. CASE Call \/ Sleep \/ Timeout
    BY <2>1, <2>2, <2>3 DEF Call, Sleep, Timeout, ThreadType
  <2>4. CASE Stop
    <3>1. stops' \in 0 .. MaxStops
      BY <2>4, StopsAssumption DEF Stop, ThreadType
    <3> QED BY <2>1, <2>2, <2>4, <3>1 DEF Stop, ThreadType
  <2>5. CASE Restart
    BY <2>1, <2>2, <2>5 DEF Restart, ThreadType
  <2> QED BY <1>5, <2>3, <2>4, <2>5
<1>6. CASE Receive
  <2>1. ListInv'
    BY <1>6, UnlinkBackList DEF Receive
  <2> QED BY <2>1, <1>6 DEF Receive, ThreadType
<1>7. CASE GiveUp
  <2>1. ListInv'
    BY <1>7, NothingList DEF GiveUp
  <2> QED BY <2>1, <1>7 DEF GiveUp, ThreadType
<1>8. CASE Drain
  <2>1. ListInv'
    BY <1>8, UnlinkBackList, NothingList DEF Drain, TakeBack
  <2> QED BY <2>1, <1>8 DEF Drain, TakeBack, ThreadType
<1>9. CASE UNCHANGED vars
  <2>1. ListInv'
    BY <1>9, UnchangedList DEF vars
  <2> QED BY <2>1, <1>9 DEF vars, ThreadType
<1> QED BY <1>1, <1>2, <1>3, <1>4, <1>5, <1>6, <1>7, <1>8, <1>9 DEF Next, Consumer

(* In every reachable state the links in both directions are those of one  *)
(* sequence of distinct nodes, whose length is the count.                  *)
THEOREM ListInvariance == Spec => []Inv
BY InitInv, NextInv, PTL DEF Spec

(* A consumer falls asleep only on an empty queue, and whoever puts while  *)
(* it sleeps wakes it in the same step.                                    *)
LEMMA NextSleeps ==
  Inv /\ SleepsOnlyWhenEmpty /\ [Next]_vars => SleepsOnlyWhenEmpty'
<1> SUFFICES ASSUME Inv, SleepsOnlyWhenEmpty, [Next]_vars, pc' = "asleep"
             PROVE  tail' = NULL
  BY DEF SleepsOnlyWhenEmpty
<1> USE DEF SleepsOnlyWhenEmpty, thread, answer, list
<1>1. ASSUME NEW n \in Nodes, NEW m \in Messages, PutFront(n, m) \/ PutBack(n, m)
      PROVE  FALSE
  BY <1>1 DEF PutFront, PutBack, Signal
<1>2. CASE TakeFront /\ UNCHANGED thread
  <2>1. head = NULL
    BY <1>2, Ends, InvParts
  <2> QED BY <1>2, <2>1 DEF TakeFront, Nothing
<1>3. CASE TakeBack /\ UNCHANGED thread
  BY <1>3 DEF TakeBack, Nothing
<1>4. CASE Consumer
  BY <1>4 DEF Consumer, Call, Sleep, Timeout, Receive, GiveUp, Drain, KeepsWaiting
<1>5. CASE Stop \/ Restart \/ UNCHANGED vars
  BY <1>5 DEF Stop, Restart, vars
<1> QED BY <1>1, <1>2, <1>3, <1>4, <1>5 DEF Next

(* No wake-up is lost: a sleeping consumer's queue is empty, always.       *)
THEOREM NoLostWakeup == Spec => []SleepsOnlyWhenEmpty
<1>1. Init => SleepsOnlyWhenEmpty
  BY DEF Init, SleepsOnlyWhenEmpty
<1> QED BY <1>1, NextSleeps, ListInvariance, PTL DEF Spec

-----------------------------------------------------------------------------
(* Refinement                                                              *)

(* The queue of module Deque that nodes o with messages g stand for.       *)
View(o, g) == [i \in 1 .. Len(o) |-> g[o[i]]]

Deliverable == Messages \cup {NULL}

LEMMA ViewSeq ==
  ASSUME NEW o \in Seq(Nodes), NEW g \in [Nodes -> Deliverable]
  PROVE  /\ View(o, g) \in Seq(Deliverable)
         /\ Len(View(o, g)) = Len(o)
         /\ \A i \in 1 .. Len(o) : View(o, g)[i] = g[o[i]]
<1>1. Len(o) \in Nat /\ \A i \in 1 .. Len(o) : o[i] \in Nodes
  BY EmptyLength
<1>2. View(o, g) \in [1 .. Len(o) -> Deliverable]
  BY <1>1 DEF View
<1>3. View(o, g) \in Seq(Deliverable)
  BY <1>1, <1>2
<1>4. Len(View(o, g)) = Len(o)
  BY <1>1, <1>2, <1>3, LenProperties
<1> QED BY <1>3, <1>4 DEF View

(* A node put in front puts its message in front.                          *)
LEMMA ViewFront ==
  ASSUME NEW o \in Seq(Nodes), NEW g \in [Nodes -> Deliverable],
         NEW n \in Nodes, NEW m \in Messages, \A i \in 1 .. Len(o) : o[i] # n
  PROVE  View(<<n>> \o o, [g EXCEPT ![n] = m]) = <<m>> \o View(o, g)
<1> DEFINE p == <<n>> \o o
           k == [g EXCEPT ![n] = m]
<1>1. /\ p \in Seq(Nodes) /\ Len(p) = Len(o) + 1 /\ p[1] = n
      /\ \A i \in 2 .. Len(p) : p[i] = o[i - 1]
  BY AddedFirst
<1>2. k \in [Nodes -> Deliverable]
  BY DEF Deliverable
<1>3. Len(o) \in Nat /\ \A i \in 1 .. Len(o) : o[i] \in Nodes
  BY EmptyLength
<1>4. m \in Deliverable
  BY DEF Deliverable
<1> DEFINE v == View(o, g)
<1>5. v \in Seq(Deliverable) /\ Len(v) = Len(o) /\ \A i \in 1 .. Len(o) : v[i] = g[o[i]]
  BY ViewSeq
<1>6. /\ View(p, k) \in Seq(Deliverable) /\ Len(View(p, k)) = Len(p)
      /\ \A i \in 1 .. Len(p) : View(p, k)[i] = k[p[i]]
  BY <1>1, <1>2, ViewSeq
<1> HIDE DEF v
<1>7. /\ <<m>> \o v \in Seq(Deliverable) /\ Len(<<m>> \o v) = Len(v) + 1 /\ (<<m>> \o v)[1] = m
      /\ \A i \in 2 .. Len(<<m>> \o v) : (<<m>> \o v)[i] = v[i - 1]
  BY <1>4, <1>5, AddedFirst
<1>8. ASSUME NEW i \in 1 .. Len(p) PROVE k[p[i]] = (<<m>> \o v)[i]
  <2>1. CASE i = 1
    BY <2>1, <1>1, <1>7
  <2>2. CASE i # 1
    <3>1. i \in 2 .. Len(p) /\ i - 1 \in 1 .. Len(o)
      BY <2>2, <1>1, <1>3
    <3>2. k[p[i]] = g[o[i - 1]]
      BY <3>1, <1>1, <1>3
    <3>3. (<<m>> \o v)[i] = g[o[i - 1]]
      BY <3>1, <1>1, <1>5, <1>7
    <3> QED BY <3>2, <3>3
  <2> QED BY <2>1, <2>2
<1>9. \A i \in 1 .. Len(View(p, k)) : View(p, k)[i] = (<<m>> \o v)[i]
  BY <1>6, <1>8
<1>10. Len(View(p, k)) = Len(<<m>> \o v)
  BY <1>1, <1>5, <1>6, <1>7
<1>11. View(p, k) = <<m>> \o v
  <2> HIDE DEF p, k
  <2> QED BY <1>6, <1>7, <1>9, <1>10, SeqEqual
<1> QED BY <1>11 DEF v

LEMMA ViewBack ==
  ASSUME NEW o \in Seq(Nodes), NEW g \in [Nodes -> Deliverable],
         NEW n \in Nodes, NEW m \in Messages, \A i \in 1 .. Len(o) : o[i] # n
  PROVE  View(Append(o, n), [g EXCEPT ![n] = m]) = Append(View(o, g), m)
<1> DEFINE p == Append(o, n)
           k == [g EXCEPT ![n] = m]
           v == View(o, g)
<1>1. /\ p \in Seq(Nodes) /\ Len(p) = Len(o) + 1 /\ p[Len(p)] = n
      /\ \A i \in 1 .. Len(o) : p[i] = o[i]
  BY AddedLast
<1>2. k \in [Nodes -> Deliverable] /\ m \in Deliverable
  BY DEF Deliverable
<1>3. Len(o) \in Nat /\ \A i \in 1 .. Len(o) : o[i] \in Nodes
  BY EmptyLength
<1>5. v \in Seq(Deliverable) /\ Len(v) = Len(o) /\ \A i \in 1 .. Len(o) : v[i] = g[o[i]]
  BY ViewSeq
<1>6. /\ View(p, k) \in Seq(Deliverable) /\ Len(View(p, k)) = Len(p)
      /\ \A i \in 1 .. Len(p) : View(p, k)[i] = k[p[i]]
  BY <1>1, <1>2, ViewSeq
<1> HIDE DEF v
<1>7. /\ Append(v, m) \in Seq(Deliverable) /\ Len(Append(v, m)) = Len(v) + 1
      /\ Append(v, m)[Len(Append(v, m))] = m
      /\ \A i \in 1 .. Len(v) : Append(v, m)[i] = v[i]
  BY <1>2, <1>5, AddedLast
<1>8. ASSUME NEW i \in 1 .. Len(p) PROVE k[p[i]] = Append(v, m)[i]
  <2>1. CASE i = Len(p)
    BY <2>1, <1>1, <1>5, <1>7
  <2>2. CASE i # Len(p)
    <3>1. i \in 1 .. Len(o)
      BY <2>2, <1>1, <1>3
    <3>2. k[p[i]] = g[o[i]]
      BY <3>1, <1>1, <1>3
    <3> QED BY <3>1, <3>2, <1>5, <1>7
  <2> QED BY <2>1, <2>2
<1>9. \A i \in 1 .. Len(View(p, k)) : View(p, k)[i] = Append(v, m)[i]
  BY <1>6, <1>8
<1>10. Len(View(p, k)) = Len(Append(v, m))
  BY <1>1, <1>5, <1>6, <1>7
<1>11. View(p, k) = Append(v, m)
  <2> HIDE DEF p, k
  <2> QED BY <1>6, <1>7, <1>9, <1>10, SeqEqual
<1> QED BY <1>11 DEF v

(* The node at an end carries the message at that end, and taking it off   *)
(* takes the message off.                                                  *)
LEMMA ViewWithoutFirst ==
  ASSUME NEW o \in Seq(Nodes), NEW g \in [Nodes -> Deliverable], o # <<>>
  PROVE  /\ View(o, g) # <<>>
         /\ Head(View(o, g)) = g[o[1]]
         /\ View(Tail(o), g) = Tail(View(o, g))
<1> DEFINE p == Tail(o)
           v == View(o, g)
<1>1. p \in Seq(Nodes) /\ Len(p) = Len(o) - 1 /\ \A i \in 1 .. Len(p) : p[i] = o[i + 1]
  BY FirstGone
<1>2. Len(o) \in Nat \ {0}
  BY EmptyLength
<1>3. v \in Seq(Deliverable) /\ Len(v) = Len(o) /\ \A i \in 1 .. Len(o) : v[i] = g[o[i]]
  BY ViewSeq
<1>4. /\ View(p, g) \in Seq(Deliverable) /\ Len(View(p, g)) = Len(p)
      /\ \A i \in 1 .. Len(p) : View(p, g)[i] = g[p[i]]
  BY <1>1, ViewSeq
<1> HIDE DEF v
<1>5. v # <<>>
  BY <1>2, <1>3, EmptyLength
<1>6. Tail(v) \in Seq(Deliverable) /\ Len(Tail(v)) = Len(v) - 1
      /\ \A i \in 1 .. Len(Tail(v)) : Tail(v)[i] = v[i + 1]
  BY <1>3, <1>5, FirstGone
<1>7. ASSUME NEW i \in 1 .. Len(p) PROVE View(p, g)[i] = Tail(v)[i]
  <2>1. i + 1 \in 1 .. Len(o) /\ i \in 1 .. Len(Tail(v))
    BY <1>1, <1>2, <1>3, <1>6
  <2> QED BY <2>1, <1>1, <1>3, <1>4, <1>6
<1>8. View(p, g) = Tail(v)
  <2> HIDE DEF p
  <2> QED BY <1>1, <1>3, <1>4, <1>6, <1>7, SeqEqual
<1>9. Head(v) = g[o[1]]
  BY <1>2, <1>3, <1>5
<1> QED BY <1>5, <1>8, <1>9 DEF v

LEMMA ViewWithoutLast ==
  ASSUME NEW o \in Seq(Nodes), NEW g \in [Nodes -> Deliverable], o # <<>>
  PROVE  LET v == View(o, g)
         IN  /\ v # <<>>
             /\ v[Len(v)] = g[o[Len(o)]]
             /\ View(SubSeq(o, 1, Len(o) - 1), g) = SubSeq(v, 1, Len(v) - 1)
<1> DEFINE p == SubSeq(o, 1, Len(o) - 1)
           v == View(o, g)
           w == SubSeq(v, 1, Len(v) - 1)
<1>1. p \in Seq(Nodes) /\ Len(p) = Len(o) - 1 /\ \A i \in 1 .. Len(p) : p[i] = o[i]
  BY LastGone
<1>2. Len(o) \in Nat \ {0}
  BY EmptyLength
<1>3. v \in Seq(Deliverable) /\ Len(v) = Len(o) /\ \A i \in 1 .. Len(o) : v[i] = g[o[i]]
  BY ViewSeq
<1>4. /\ View(p, g) \in Seq(Deliverable) /\ Len(View(p, g)) = Len(p)
      /\ \A i \in 1 .. Len(p) : View(p, g)[i] = g[p[i]]
  BY <1>1, ViewSeq
<1> HIDE DEF v
<1>5. v # <<>>
  BY <1>2, <1>3, EmptyLength
<1>6. w \in Seq(Deliverable) /\ Len(w) = Len(v) - 1 /\ \A i \in 1 .. Len(w) : w[i] = v[i]
  BY <1>3, <1>5, LastGone
<1> HIDE DEF w, p
<1>7. ASSUME NEW i \in 1 .. Len(p) PROVE View(p, g)[i] = w[i]
  <2>1. i \in 1 .. Len(o) /\ i \in 1 .. Len(w)
    BY <1>1, <1>2, <1>3, <1>6
  <2> QED BY <2>1, <1>1, <1>3, <1>4, <1>6
<1>8. View(p, g) = w
  BY <1>1, <1>3, <1>4, <1>6, <1>7, SeqEqual
<1>9. v[Len(v)] = g[o[Len(o)]]
  <2>1. Len(o) \in 1 .. Len(o)
    BY <1>2
  <2> QED BY <2>1, <1>3
<1> QED BY <1>5, <1>8, <1>9 DEF v, w, p

(* The refinement mapping of DequeSpec is this view of the list.           *)
Content == View(order, message)

Shown == <<Content, took, did, running>>

LEMMA SameVars == Promise!vars = Shown
BY DEF Promise!vars, Shown, Content, View

LEMMA FrontLeaves ==
  ASSUME ListInv, head # NULL, UnlinkFront, did' = "takeFront", running' = running
  PROVE  Promise!TakeFront
<1>1. order # <<>> /\ head = order[1] /\ order \in Seq(Nodes) /\ message \in [Nodes -> Deliverable]
  BY Ends DEF ListInv, ListType, Deliverable
<1>2. /\ Content # <<>> /\ Head(Content) = message[order[1]]
      /\ View(Tail(order), message) = Tail(Content)
  BY <1>1, ViewWithoutFirst DEF Content
<1>3. order' = Tail(order) /\ message' = message /\ took' = message[head]
  BY DEF UnlinkFront
<1>4. Content' = Tail(Content) /\ took' = Head(Content)
  BY <1>1, <1>2, <1>3 DEF Content
<1> QED BY <1>2, <1>4 DEF Promise!TakeFront, Content, View

LEMMA BackLeaves ==
  ASSUME ListInv, tail # NULL, UnlinkBack, did' = "takeBack", running' = running
  PROVE  Promise!TakeBack
<1>1. /\ order # <<>> /\ tail = order[Len(order)]
      /\ order \in Seq(Nodes) /\ message \in [Nodes -> Deliverable]
  BY Ends DEF ListInv, ListType, Deliverable
<1>2. /\ Content # <<>> /\ Content[Len(Content)] = message[order[Len(order)]]
      /\ View(SubSeq(order, 1, Len(order) - 1), message) = SubSeq(Content, 1, Len(Content) - 1)
  BY <1>1, ViewWithoutLast DEF Content
<1>3. order' = SubSeq(order, 1, Len(order) - 1) /\ message' = message /\ took' = message[tail]
  BY DEF UnlinkBack
<1>4. Content' = SubSeq(Content, 1, Len(Content) - 1) /\ took' = Content[Len(Content)]
  BY <1>1, <1>2, <1>3 DEF Content
<1> QED BY <1>2, <1>4 DEF Promise!TakeBack, Content, View

(* An empty list is an empty queue.                                        *)
LEMMA NothingLeaves ==
  ASSUME ListInv, Nothing, did' \in {"takeFront", "takeBack"}, running' = running,
         head = NULL \/ tail = NULL \/ ~running
  PROVE  Promise!TakeNothing
<1>1. Content' = Content
  BY DEF Nothing, list, Content
<1>2. order = <<>> => Content = <<>>
  <2> SUFFICES ASSUME order = <<>> PROVE View(order, message) = <<>>
    BY DEF Content
  <2>1. View(order, message) \in Seq(Deliverable) /\ Len(View(order, message)) = 0
    <3>1. order \in Seq(Nodes) /\ message \in [Nodes -> Deliverable]
      BY DEF ListInv, ListType, Deliverable
    <3>2. Len(order) = 0
      BY <3>1, EmptyLength
    <3> QED BY <3>1, <3>2, ViewSeq
  <2> QED BY <2>1, EmptyLength
<1>3. Content = <<>> \/ ~running
  BY <1>2, Ends
<1> QED BY <1>1, <1>3 DEF Nothing, Promise!TakeNothing, Content, View

LEMMA StepRefines == Inv /\ [Next]_vars => [Promise!Next]_(Promise!vars)
<1> SUFFICES ASSUME ListInv, [Next]_vars PROVE Promise!Next \/ Shown' = Shown
  BY InvParts, SameVars DEF Promise!vars, Shown, Content, View
<1> USE DEF thread, answer, list
<1>types. /\ order \in Seq(Nodes) /\ message \in [Nodes -> Deliverable]
          /\ \A n \in Nodes : n \notin Linked => \A i \in 1 .. Len(order) : order[i] # n
  BY DEF ListInv, ListType, Deliverable, Linked
<1>1. ASSUME NEW n \in Nodes, NEW m \in Messages, PutFront(n, m)
      PROVE  Promise!Next
  <2>1. Content' = <<m>> \o Content
    BY <1>1, <1>types, ViewFront DEF PutFront, Content
  <2>2. did' = "putFront" /\ took' = took /\ running' = running
    BY <1>1 DEF PutFront, Signal
  <2>3. Promise!PutFront(m)
    BY <2>1, <2>2 DEF Promise!PutFront, Content, View
  <2> QED BY <2>3 DEF Promise!Next
<1>2. ASSUME NEW n \in Nodes, NEW m \in Messages, PutBack(n, m)
      PROVE  Promise!Next
  <2>1. Content' = Append(Content, m)
    BY <1>2, <1>types, ViewBack DEF PutBack, Content
  <2>2. did' = "putBack" /\ took' = took /\ running' = running
    BY <1>2 DEF PutBack, Signal
  <2>3. Promise!PutBack(m)
    BY <2>1, <2>2 DEF Promise!PutBack, Content, View
  <2> QED BY <2>3 DEF Promise!Next
<1>3. CASE TakeFront /\ UNCHANGED thread
  BY <1>3, FrontLeaves, NothingLeaves DEF TakeFront, Promise!Next
<1>4. CASE TakeBack /\ UNCHANGED thread
  BY <1>4, BackLeaves, NothingLeaves DEF TakeBack, Promise!Next
<1>5. CASE Call \/ Sleep \/ Timeout \/ UNCHANGED vars
  BY <1>5 DEF Call, Sleep, Timeout, vars, Shown, Content
<1>6. CASE Receive
  BY <1>6, BackLeaves DEF Receive, Promise!Next
<1>7. CASE GiveUp
  BY <1>7, NothingLeaves DEF GiveUp, Promise!Next
<1>8. CASE Drain
  BY <1>8, BackLeaves, NothingLeaves DEF Drain, TakeBack, Promise!Next
<1>9. CASE Stop \/ Restart
  <2>1. Content' = Content /\ UNCHANGED answer /\ running' \in BOOLEAN
    BY <1>9 DEF Stop, Restart, Content
  <2>2. Promise!Switch
    BY <2>1 DEF Promise!Switch, Content, View
  <2> QED BY <2>2 DEF Promise!Next
<1> QED BY <1>1, <1>2, <1>3, <1>4, <1>5, <1>6, <1>7, <1>8, <1>9 DEF Next, Consumer

(* The doubly linked list is a double-ended queue, whatever the threads    *)
(* that share it do: every take returns the message at its end, nothing is *)
(* lost, doubled or reordered, and a take finds nothing only in an empty   *)
(* queue or, waiting, because of a stop.                                   *)
THEOREM ImplementsDeque == Spec => DequeSpec
<1>1. Init => Promise!Init
  <2> SUFFICES ASSUME Init PROVE Content = <<>>
    BY DEF Init, Promise!Init, Content, View
  <2>1. ListInv
    BY InitInv, InvParts
  <2>2. order = <<>> /\ order \in Seq(Nodes) /\ message \in [Nodes -> Deliverable]
    BY <2>1 DEF Init, ListInv, ListType, Deliverable
  <2>3. Content \in Seq(Deliverable) /\ Len(Content) = 0
    BY <2>2, ViewSeq, EmptyLength DEF Content
  <2> QED BY <2>3, EmptyLength
<1> QED BY <1>1, StepRefines, ListInvariance, PTL DEF Spec, DequeSpec, Promise!Spec
=============================================================================

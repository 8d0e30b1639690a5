---------------------------- MODULE SpliceProofs ----------------------------
(***************************************************************************)
(* Proofs about the SCTE-35 parser of Scte35: whatever the section and     *)
(* wherever the packet ends, the parser reads the fields the splicer laid  *)
(* out and hands on the cues it means.                                     *)
(***************************************************************************)
EXTENDS Monitor, SequenceTheorems, FiniteSetTheorems, WellFoundedInduction, TLAPS

-----------------------------------------------------------------------------
(* Numbers. What is shown by induction below, over the parts of a list, is *)
(* shown by the least number for which it fails.                           *)

(* A set of numbers that is not empty has a least one.                     *)
LEMMA LeastOf ==
  ASSUME NEW S, S \subseteq Nat, S # {}
  PROVE  \E x \in S : \A y \in S : x =< y
<1>1. \E x \in S : \A y \in S : ~ (<<y, x>> \in OpToRel(<, Nat))
  BY NatLessThanWellFounded, WFMin
<1>2. PICK x \in S : \A y \in S : ~ (<<y, x>> \in OpToRel(<, Nat))
  BY <1>1
<1>3. \A y \in S : x =< y
  <2>1. ASSUME NEW y \in S, y < x PROVE <<y, x>> \in OpToRel(<, Nat)
    BY <2>1 DEF OpToRel
  <2>2. \A y \in S : ~ (y < x)
    BY <1>2, <2>1, Zenon
  <2>3. \A m, n \in Nat : ~ (n < m) => m =< n
    OBVIOUS
  <2> QED BY <2>2, <2>3
<1> QED BY <1>3

(* A set of numbers with 0, and with the next of each, holds every number  *)
(* up to a bound.                                                          *)
LEMMA UpTo ==
  ASSUME NEW N \in Nat, NEW S, 0 \in S,
         \A n \in Nat : n \in S /\ n < N => n + 1 \in S
  PROVE  \A n \in 0 .. N : n \in S
<1>1. SUFFICES ASSUME (0 .. N) \ S # {} PROVE FALSE
  OBVIOUS
<1>2. (0 .. N) \ S \subseteq Nat
  OBVIOUS
<1>3. PICK x \in (0 .. N) \ S : \A y \in (0 .. N) \ S : x =< y
  BY <1>1, <1>2, LeastOf
<1>4. x # 0 /\ x \in Nat /\ x =< N
  BY <1>3
<1>5. x - 1 \in Nat /\ x - 1 < N /\ x - 1 \in 0 .. N
  BY <1>4
<1>6. x - 1 \in S
  BY <1>3, <1>4, <1>5
<1>7. (x - 1) + 1 \in S
  BY <1>5, <1>6
<1>8. (x - 1) + 1 = x
  BY <1>4
<1> QED BY <1>3, <1>7, <1>8

(* The smaller of two numbers.                                             *)
LEMMA MinOfTwo ==
  ASSUME NEW a \in Int, NEW b \in Int
  PROVE  /\ Splices!Min({a, b}) \in {a, b}
         /\ Splices!Min({a, b}) =< a /\ Splices!Min({a, b}) =< b
         /\ Splices!Min({a, b}) = IF a =< b THEN a ELSE b
<1> DEFINE least == IF a =< b THEN a ELSE b
<1>1. least \in {a, b} /\ \A y \in {a, b} : least =< y
  OBVIOUS
<1>2. \A x \in {a, b} : (\A y \in {a, b} : x =< y) => x = least
  OBVIOUS
<1>3. Splices!Min({a, b}) \in {a, b} /\ \A y \in {a, b} : Splices!Min({a, b}) =< y
  BY <1>1 DEF Splices!Min
<1>4. Splices!Min({a, b}) = least
  BY <1>2, <1>3
<1> QED BY <1>3, <1>4

-----------------------------------------------------------------------------
(* Where the parts of a list begin.                                        *)

(* The offsets are what their definition says: the first part begins at    *)
(* the beginning, each other one where the one before it ends.             *)
LEMMA OffsetsAre ==
  ASSUME NEW first \in Nat, NEW sizes \in Seq(Nat)
  PROVE  /\ Splices!Offsets(first, sizes) \in [1 .. Len(sizes) + 1 -> Nat]
         /\ Splices!Offsets(first, sizes)[1] = first
         /\ \A i \in 1 .. Len(sizes) :
              Splices!Offsets(first, sizes)[i + 1] = Splices!Offsets(first, sizes)[i] + sizes[i]
<1>1. PICK L \in Nat : L = Len(sizes) /\ L + 1 \in Nat
  BY LenProperties
<1>2. \A i \in 1 .. L : sizes[i] \in Nat
  BY <1>1, ElementOfSeq
<1> DEFINE Begin(g, i) == IF i = 1 THEN first ELSE g[i - 1] + sizes[i - 1]
           Good(g, n) == \A i \in 1 .. n : g[i] = Begin(g, i)
           S == {n \in 0 .. L + 1 : \E g \in [1 .. n -> Nat] : Good(g, n)}
<1>3. 0 \in S
  <2>1. [i \in 1 .. 0 |-> 0] \in [1 .. 0 -> Nat] /\ Good([i \in 1 .. 0 |-> 0], 0)
    OBVIOUS
  <2>2. 0 \in 0 .. L + 1
    BY <1>1
  <2> QED BY <2>1, <2>2, Zenon
<1>4. ASSUME NEW n \in Nat, n \in S, n < L + 1 PROVE n + 1 \in S
  <2>1. PICK g \in [1 .. n -> Nat] : Good(g, n)
    BY <1>4
  <2>2. PICK h : h = [i \in 1 .. n + 1 |-> IF i = n + 1 THEN Begin(g, i) ELSE g[i]]
    OBVIOUS
  <2>3. Begin(g, n + 1) \in Nat
    <3>1. CASE n = 0
      BY <3>1
    <3>2. CASE n # 0
      <4>1. n \in 1 .. n /\ n \in 1 .. L
        BY <3>2, <1>1, <1>4
      <4>2. (n + 1) - 1 = n /\ n + 1 # 1
        BY <3>2
      <4> QED BY <4>1, <4>2, <2>1, <1>2
    <3> QED BY <3>1, <3>2
  <2>4. h \in [1 .. n + 1 -> Nat]
    BY <2>1, <2>2, <2>3
  <2>5. \A i \in 1 .. n : h[i] = g[i]
    BY <2>2
  <2>6. ASSUME NEW i \in 1 .. n + 1 PROVE h[i] = Begin(h, i)
    <3>1. h[i] = Begin(g, i)
      <4>1. CASE i = n + 1
        BY <4>1, <2>2
      <4>2. CASE i # n + 1
        BY <4>2, <2>1, <2>5
      <4> QED BY <4>1, <4>2
    <3>2. i # 1 => i - 1 \in 1 .. n
      OBVIOUS
    <3> QED BY <3>1, <3>2, <2>5
  <2>7. Good(h, n + 1)
    BY <2>6
  <2>8. n + 1 \in 0 .. L + 1
    BY <1>1, <1>4
  <2> QED BY <2>4, <2>7, <2>8, Zenon
<1> HIDE DEF S
<1>5. L + 1 \in S
  <2>1. \A n \in 0 .. L + 1 : n \in S
    BY <1>1, <1>3, <1>4, UpTo, Zenon
  <2> QED BY <1>1, <2>1
<1>6. PICK g \in [1 .. L + 1 -> Nat] : Good(g, L + 1)
  BY <1>5 DEF S
<1>7. g = [i \in 1 .. Len(sizes) + 1 |-> IF i = 1 THEN first ELSE g[i - 1] + sizes[i - 1]]
  BY <1>1, <1>6
<1>8. PICK f : f = Splices!Offsets(first, sizes)
  OBVIOUS
<1>9. f = [i \in 1 .. Len(sizes) + 1 |-> IF i = 1 THEN first ELSE f[i - 1] + sizes[i - 1]]
  BY <1>7, <1>8 DEF Splices!Offsets
<1>10. DOMAIN f = 1 .. L + 1 /\ \A i \in 1 .. L + 1 : f[i] = Begin(f, i)
  BY <1>1, <1>9
<1> DEFINE Same == {n \in 0 .. L + 1 : \A i \in 1 .. n : f[i] = g[i]}
<1>11. 0 \in Same
  BY <1>1
<1>12. ASSUME NEW n \in Nat, n \in Same, n < L + 1 PROVE n + 1 \in Same
  <2>1. n + 1 \in 1 .. L + 1 /\ n + 1 \in 0 .. L + 1
    BY <1>1, <1>12
  <2>2. f[n + 1] = g[n + 1]
    <3>1. f[n + 1] = Begin(f, n + 1) /\ g[n + 1] = Begin(g, n + 1)
      BY <2>1, <1>6, <1>10
    <3>2. n # 0 => f[n] = g[n] /\ (n + 1) - 1 = n
      BY <1>12
    <3> QED BY <3>1, <3>2
  <2> QED BY <1>12, <2>1, <2>2
<1> HIDE DEF Same
<1>13. L + 1 \in Same
  <2>1. \A n \in 0 .. L + 1 : n \in Same
    BY <1>1, <1>11, <1>12, UpTo, Zenon
  <2> QED BY <1>1, <2>1
<1>14. \A i \in 1 .. L + 1 : f[i] = g[i]
  BY <1>13 DEF Same
<1>15. f \in [1 .. L + 1 -> Nat]
  BY <1>6, <1>9, <1>14, <1>1
<1>16. f[1] = first
  BY <1>1, <1>10
<1>17. ASSUME NEW i \in 1 .. L PROVE f[i + 1] = f[i] + sizes[i]
  <2>1. i + 1 \in 1 .. L + 1 /\ i + 1 # 1 /\ (i + 1) - 1 = i
    BY <1>1
  <2> QED BY <1>10, <2>1
<1> QED BY <1>1, <1>8, <1>15, <1>16, <1>17

(* A part ends before any later one begins.                                *)
LEMMA OffsetsGrow ==
  ASSUME NEW first \in Nat, NEW sizes \in Seq(Nat),
         NEW i \in 1 .. Len(sizes), NEW j \in 1 .. Len(sizes) + 1, i < j
  PROVE  Splices!Offsets(first, sizes)[i] + sizes[i] =< Splices!Offsets(first, sizes)[j]
<1>1. PICK L \in Nat : L = Len(sizes)
  BY LenProperties
<1>2. \A k \in 1 .. L : sizes[k] \in Nat
  BY <1>1, ElementOfSeq
<1>3. PICK f : f = Splices!Offsets(first, sizes)
  OBVIOUS
<1>4. f \in [1 .. L + 1 -> Nat] /\ \A k \in 1 .. L : f[k + 1] = f[k] + sizes[k]
  BY <1>1, <1>3, OffsetsAre
<1>5. i \in 1 .. L
  BY <1>1
<1> DEFINE S == {n \in 0 .. L - i : f[i] + sizes[i] =< f[i + 1 + n]}
<1>6. 0 \in S
  <2>1. f[i + 1] = f[i] + sizes[i] /\ i + 1 + 0 = i + 1 /\ 0 \in 0 .. L - i
    BY <1>4, <1>5
  <2>2. f[i] + sizes[i] \in Nat
    BY <1>2, <1>4, <1>5
  <2> QED BY <2>1, <2>2
<1>7. ASSUME NEW n \in Nat, n \in S, n < L - i PROVE n + 1 \in S
  <2>1. i + 1 + n \in 1 .. L /\ n + 1 \in 0 .. L - i /\ i + 1 + (n + 1) = (i + 1 + n) + 1
    BY <1>5, <1>7
  <2>2. f[(i + 1 + n) + 1] = f[i + 1 + n] + sizes[i + 1 + n]
    BY <2>1, <1>4
  <2>3. f[i] \in Nat /\ f[i + 1 + n] \in Nat /\ sizes[i] \in Nat /\ sizes[i + 1 + n] \in Nat
    BY <2>1, <1>2, <1>4, <1>5
  <2>4. f[i] + sizes[i] =< f[i + 1 + n]
    BY <1>7
  <2>5. f[i] + sizes[i] =< f[i + 1 + (n + 1)]
    BY <2>1, <2>2, <2>3, <2>4
  <2> QED BY <2>1, <2>5
<1> HIDE DEF S
<1>8. PICK m \in 0 .. L - i : j = i + 1 + m
  <2>1. j - i - 1 \in 0 .. L - i /\ j = i + 1 + (j - i - 1)
    BY <1>1, <1>5
  <2> QED BY <2>1
<1>9. m \in S
  <2>1. L - i \in Nat
    BY <1>1, <1>5
  <2>2. \A n \in 0 .. L - i : n \in S
    BY <1>6, <1>7, <2>1, UpTo, Zenon
  <2> QED BY <2>2
<1> QED BY <1>3, <1>8, <1>9 DEF S

-----------------------------------------------------------------------------
(* What the descriptors of a time_signal mean.                             *)

(* The cues the descriptors of a signal may stand for.                     *)
MeantCues(s) == {Splices!SegmentationMeans(s, s.descriptors[i]) : i \in DOMAIN s.descriptors}

(* The cues meant are what their definition says: none before the first    *)
(* descriptor, and one more behind each segmentation.                      *)
LEMMA MeantIs ==
  ASSUME NEW s, NEW N \in Nat, DOMAIN s.descriptors = 1 .. N, N = Len(s.descriptors)
  PROVE  /\ Splices!Meant(s) \in [0 .. N -> Seq(MeantCues(s))]
         /\ Splices!Meant(s)[0] = <<>>
         /\ \A n \in 1 .. N :
              Splices!Meant(s)[n] = IF s.descriptors[n].system = "CUEI"
                            THEN Append(Splices!Meant(s)[n - 1],
                                Splices!SegmentationMeans(s, s.descriptors[n]))
                            ELSE Splices!Meant(s)[n - 1]
<1> DEFINE Lists == Seq(MeantCues(s))
           Next1(v, n) == IF s.descriptors[n].system = "CUEI"
                          THEN Append(v, Splices!SegmentationMeans(s, s.descriptors[n])) ELSE v
           Told(g, n) == IF n = 0 THEN <<>> ELSE Next1(g[n - 1], n)
           Good(g, n) == \A i \in 0 .. n : g[i] = Told(g, i)
           S == {n \in 0 .. N : \E g \in [0 .. n -> Lists] : Good(g, n)}
<1>1. <<>> \in Lists
  OBVIOUS
<1>2. ASSUME NEW v \in Lists, NEW n \in 1 .. N PROVE Next1(v, n) \in Lists
  <2>1. Splices!SegmentationMeans(s, s.descriptors[n]) \in MeantCues(s)
    BY DEF MeantCues
  <2>2. Append(v, Splices!SegmentationMeans(s, s.descriptors[n])) \in Lists
    BY <2>1, AppendProperties
  <2> QED BY <2>2
<1> HIDE DEF Lists, Next1
<1>3. 0 \in S
  <2>1. PICK g : g = [i \in 0 .. 0 |-> <<>>]
    OBVIOUS
  <2>2. g \in [0 .. 0 -> Lists] /\ Good(g, 0)
    BY <2>1, <1>1
  <2>3. 0 \in 0 .. N
    OBVIOUS
  <2> QED BY <2>2, <2>3, Zenon
<1>4. ASSUME NEW n \in Nat, n \in S, n < N PROVE n + 1 \in S
  <2>1. PICK g \in [0 .. n -> Lists] : Good(g, n)
    BY <1>4
  <2>2. PICK h : h = [i \in 0 .. n + 1 |-> IF i = n + 1 THEN Next1(g[n], n + 1) ELSE g[i]]
    OBVIOUS
  <2>3. Next1(g[n], n + 1) \in Lists
    BY <2>1, <1>2, <1>4
  <2>4. h \in [0 .. n + 1 -> Lists]
    BY <2>2, <2>3
  <2>5. (\A i \in 0 .. n : h[i] = g[i]) /\ h[n + 1] = Next1(g[n], n + 1)
    BY <2>2
  <2>6. ASSUME NEW i \in 0 .. n + 1 PROVE h[i] = Told(h, i)
    <3>1. CASE i = n + 1
      <4>1. i # 0 /\ i - 1 = n /\ n \in 0 .. n
        BY <3>1
      <4> QED BY <3>1, <4>1, <2>5
    <3>2. CASE i # n + 1
      <4>1. i \in 0 .. n /\ (i # 0 => i - 1 \in 0 .. n)
        BY <3>2
      <4> QED BY <4>1, <2>1, <2>5
    <3> QED BY <3>1, <3>2
  <2>7. Good(h, n + 1)
    BY <2>6
  <2>8. n + 1 \in 0 .. N
    BY <1>4
  <2> QED BY <2>4, <2>7, <2>8, Zenon
<1> HIDE DEF S
<1>5. N \in S
  <2>1. \A n \in 0 .. N : n \in S
    BY <1>3, <1>4, UpTo, Zenon
  <2> QED BY <2>1
<1>6. PICK g \in [0 .. N -> Lists] : Good(g, N)
  BY <1>5 DEF S
<1>7. PICK f : f = Splices!Meant(s)
  OBVIOUS
<1>8. g = [n \in 0 .. Len(s.descriptors) |->
            IF n = 0 THEN <<>>
            ELSE IF s.descriptors[n].system = "CUEI"
                 THEN Append(g[n - 1], Splices!SegmentationMeans(s, s.descriptors[n]))
                     ELSE g[n - 1]]
  BY <1>6 DEF Next1
<1>9. f = [n \in 0 .. Len(s.descriptors) |->
            IF n = 0 THEN <<>>
            ELSE IF s.descriptors[n].system = "CUEI"
                 THEN Append(f[n - 1], Splices!SegmentationMeans(s, s.descriptors[n]))
                     ELSE f[n - 1]]
  BY <1>7, <1>8 DEF Splices!Meant
<1>10. \A i \in 0 .. N : f[i] = Told(f, i)
  BY <1>9 DEF Next1
<1> DEFINE Same == {n \in 0 .. N : f[n] = g[n]}
<1>11. 0 \in Same
  BY <1>6, <1>10
<1>12. ASSUME NEW n \in Nat, n \in Same, n < N PROVE n + 1 \in Same
  <2>1. n + 1 \in 0 .. N /\ n + 1 # 0 /\ (n + 1) - 1 = n
    BY <1>12
  <2>2. f[n + 1] = Next1(f[n], n + 1) /\ g[n + 1] = Next1(g[n], n + 1)
    BY <2>1, <1>6, <1>10
  <2> QED BY <1>12, <2>1, <2>2
<1> HIDE DEF Same
<1>13. \A n \in 0 .. N : n \in Same
  BY <1>11, <1>12, UpTo, Zenon
<1>14. \A n \in 0 .. N : f[n] = g[n]
  BY <1>13 DEF Same
<1>15. f \in [0 .. N -> Lists]
  BY <1>6, <1>9, <1>14
<1>16. f[0] = <<>>
  BY <1>10
<1>17. ASSUME NEW n \in 1 .. N PROVE f[n] = Next1(f[n - 1], n)
  <2>1. n \in 0 .. N /\ n # 0
    OBVIOUS
  <2> QED BY <2>1, <1>10
<1> QED BY <1>7, <1>15, <1>16, <1>17 DEF Lists, Next1

(* The cues of the first descriptors are the first cues of all.            *)
LEMMA MeantGrows ==
  ASSUME NEW s, NEW N \in Nat, DOMAIN s.descriptors = 1 .. N, N = Len(s.descriptors),
         NEW m \in 0 .. N
  PROVE  /\ Len(Splices!Meant(s)[m]) =< Len(Splices!Meant(s)[N])
         /\ \A i \in 1 .. Len(Splices!Meant(s)[m]) : Splices!Meant(s)[m][i] = Splices!Meant(s)[N][i]
<1>1. PICK f : f = Splices!Meant(s)
  OBVIOUS
<1> DEFINE Lists == Seq(MeantCues(s))
<1>2. f \in [0 .. N -> Lists]
  BY <1>1, MeantIs
<1> DEFINE Begins(k) == /\ Len(f[m]) =< Len(f[k])
                        /\ \A i \in 1 .. Len(f[m]) : f[m][i] = f[k][i]
           S == {n \in 0 .. N - m : Begins(m + n)}
<1>3. 0 \in S
  <2>1. m + 0 = m /\ 0 \in 0 .. N - m
    OBVIOUS
  <2>2. Len(f[m]) \in Nat
    BY <1>2, LenProperties
  <2>3. Begins(m)
    BY <2>2
  <2> QED BY <2>1, <2>3
<1>4. ASSUME NEW n \in Nat, n \in S, n < N - m PROVE n + 1 \in S
  <2>1. m + n \in 0 .. N /\ m + (n + 1) \in 1 .. N /\ m + (n + 1) - 1 = m + n
        /\ n + 1 \in 0 .. N - m
    <3>1. n < N - m
      BY <1>4
    <3> HIDE DEF S, Begins
    <3>2. m + n \in 0 .. N
      BY <3>1
    <3>3. m + (n + 1) \in 1 .. N /\ m + (n + 1) - 1 = m + n
      BY <3>1
    <3>4. n + 1 \in 0 .. N - m
      BY <3>1
    <3> QED BY <3>2, <3>3, <3>4
  <2>2. Begins(m + n)
    BY <1>4
  <2>3. PICK x : x = Splices!SegmentationMeans(s, s.descriptors[m + (n + 1)])
    OBVIOUS
  <2>4. f[m + (n + 1)] = f[m + n] \/ f[m + (n + 1)] = Append(f[m + n], x)
    <3>1. PICK k : k = m + (n + 1)
      OBVIOUS
    <3>2. k \in 1 .. N /\ k - 1 = m + n
      BY <2>1, <3>1
    <3>3. f[k] = IF s.descriptors[k].system = "CUEI"
                 THEN Append(f[k - 1], Splices!SegmentationMeans(s, s.descriptors[k])) ELSE f[k - 1]
      BY <3>2, <1>1, MeantIs
    <3>4. f[k] = f[m + n] \/ f[k] = Append(f[m + n], Splices!SegmentationMeans(s, s.descriptors[k]))
      BY <3>2, <3>3
    <3> QED BY <2>3, <3>1, <3>4
  <2>5. f[m] \in Lists /\ f[m + n] \in Lists
    BY <2>1, <1>2
  <2>6. Len(f[m]) \in Nat /\ Len(f[m + n]) \in Nat
    BY <2>5, LenProperties
  <2>7. CASE f[m + (n + 1)] = Append(f[m + n], x)
    <3>1. x \in MeantCues(s)
      BY <2>1, <2>3 DEF MeantCues
    <3>2. /\ Len(f[m + (n + 1)]) = Len(f[m + n]) + 1
          /\ \A i \in 1 .. Len(f[m + n]) : f[m + (n + 1)][i] = f[m + n][i]
      BY <2>5, <2>7, <3>1, AppendProperties
    <3>3. Len(f[m]) =< Len(f[m + (n + 1)])
      BY <2>2, <2>6, <3>2
    <3>4. \A i \in 1 .. Len(f[m]) : f[m][i] = f[m + (n + 1)][i]
      BY <2>2, <2>6, <3>2
    <3> QED BY <2>1, <3>3, <3>4
  <2>8. CASE f[m + (n + 1)] = f[m + n]
    BY <2>1, <2>2, <2>8
  <2> QED BY <2>4, <2>7, <2>8
<1> HIDE DEF S
<1>5. N - m \in S
  <2>1. N - m \in Nat
    OBVIOUS
  <2>2. \A n \in 0 .. N - m : n \in S
    BY <1>3, <1>4, <2>1, UpTo, Zenon
  <2> QED BY <2>1, <2>2
<1>6. m + (N - m) = N
  OBVIOUS
<1> QED BY <1>1, <1>5, <1>6 DEF S

-----------------------------------------------------------------------------
(* Layouts: which fields begin where.                                      *)

(* The fields of the part of a section from lo to hi, one at each place.   *)
Laid(fields, lo, hi) ==
    /\ \A e \in fields : e[1] \in Int /\ lo =< e[1] /\ e[1] < hi
    /\ \A e, f \in fields : e[1] = f[1] => e = f

(* No field at all, and one field.                                         *)
LEMMA LaidNone == ASSUME NEW lo, NEW hi PROVE Laid({}, lo, hi)
  BY DEF Laid

(* A field alone.                                                          *)
LEMMA LaidOne ==
  ASSUME NEW p \in Int, NEW size, NEW value, NEW lo \in Int, NEW hi \in Int, lo =< p, p < hi
  PROVE  Laid({Splices!At(p, size, value)}, lo, hi)
<1>1. \A e \in {Splices!At(p, size, value)} : e[1] = p
  BY DEF Splices!At
<1> QED BY <1>1 DEF Laid

(* One part behind the other.                                              *)
LEMMA LaidBehind ==
  ASSUME NEW A, NEW B, NEW lo \in Int, NEW mid \in Int, NEW hi \in Int, lo =< mid, mid =< hi,
         Laid(A, lo, mid), Laid(B, mid, hi)
  PROVE  Laid(A \cup B, lo, hi)
<1>1. \A e \in A : e[1] \in Int /\ lo =< e[1] /\ e[1] < mid
  BY DEF Laid
<1>2. \A e \in B : e[1] \in Int /\ mid =< e[1] /\ e[1] < hi
  BY DEF Laid
<1>3. \A e \in A \cup B : e[1] \in Int /\ lo =< e[1] /\ e[1] < hi
  BY <1>1, <1>2
<1>4. ASSUME NEW e \in A \cup B, NEW f \in A \cup B, e[1] = f[1] PROVE e = f
  <2>1. CASE e \in A /\ f \in A
    BY <1>4, <2>1 DEF Laid
  <2>2. CASE e \in B /\ f \in B
    BY <1>4, <2>2 DEF Laid
  <2>3. CASE e \in A /\ f \in B
    BY <1>1, <1>2, <1>4, <2>3
  <2>4. CASE e \in B /\ f \in A
    BY <1>1, <1>2, <1>4, <2>4
  <2> QED BY <2>1, <2>2, <2>3, <2>4
<1> QED BY <1>3, <1>4 DEF Laid

(* Parts that may be missing, and parts with room around them.             *)
LEMMA LaidWhen ==
  ASSUME NEW condition \in BOOLEAN, NEW A, NEW lo, NEW hi, condition => Laid(A, lo, hi)
  PROVE  Laid(Splices!When(condition, A), lo, hi)
  BY LaidNone DEF Splices!When

(* A layout lies in every larger range.                                    *)
LEMMA LaidWithin ==
  ASSUME NEW A, NEW lo \in Int, NEW hi \in Int, NEW from \in Int, NEW to \in Int,
         from =< lo, hi =< to, Laid(A, lo, hi)
  PROVE  Laid(A, from, to)
  BY DEF Laid

(* The parts of a list.                                                    *)
LEMMA LaidParts ==
  ASSUME NEW n \in Nat, NEW from \in [1 .. n + 1 -> Nat], NEW piece,
         \A i \in 1 .. n : Laid(piece[i], from[i], from[i + 1]),
         \A i \in 1 .. n : \A j \in 1 .. n + 1 : i < j => from[i] =< from[j]
  PROVE  Laid(UNION {piece[i] : i \in 1 .. n}, from[1], from[n + 1])
<1> DEFINE U == UNION {piece[i] : i \in 1 .. n}
<1>1. ASSUME NEW e \in U
      PROVE  \E i \in 1 .. n : e \in piece[i] /\ e[1] \in Int /\ from[i] =< e[1]
             /\ e[1] < from[i + 1]
  <2>1. PICK i \in 1 .. n : e \in piece[i]
    OBVIOUS
  <2> QED BY <2>1 DEF Laid
<1> HIDE DEF U
<1>2. \A i \in 1 .. n : from[i] \in Nat /\ from[i + 1] \in Nat
  OBVIOUS
<1>3. ASSUME NEW e \in U PROVE e[1] \in Int /\ from[1] =< e[1] /\ e[1] < from[n + 1]
  <2>1. PICK i \in 1 .. n : e[1] \in Int /\ from[i] =< e[1] /\ e[1] < from[i + 1]
    BY <1>1
  <2>2. from[1] =< from[i]
    <3>1. CASE i = 1
      BY <3>1, <1>2
    <3>2. CASE i # 1
      <4>1. 1 \in 1 .. n /\ i \in 1 .. n + 1 /\ 1 < i
        BY <3>2
      <4> QED BY <4>1
    <3> QED BY <3>1, <3>2
  <2>3. from[i + 1] =< from[n + 1]
    <3>1. CASE i = n
      BY <3>1, <1>2
    <3>2. CASE i # n
      <4>1. i + 1 \in 1 .. n /\ n + 1 \in 1 .. n + 1 /\ i + 1 < n + 1
        BY <3>2
      <4> QED BY <4>1
    <3> QED BY <3>1, <3>2
  <2>4. from[1] \in Nat /\ from[n + 1] \in Nat
    OBVIOUS
  <2> QED BY <2>1, <2>2, <2>3, <2>4, <1>2
<1>4. ASSUME NEW e \in U, NEW f \in U, e[1] = f[1] PROVE e = f
  <2>1. PICK i \in 1 .. n : /\ e \in piece[i] /\ e[1] \in Int
                            /\ from[i] =< e[1] /\ e[1] < from[i + 1]
    BY <1>1
  <2>2. PICK j \in 1 .. n : /\ f \in piece[j] /\ f[1] \in Int
                            /\ from[j] =< f[1] /\ f[1] < from[j + 1]
    BY <1>1
  <2>3. ~ (i < j)
    <3>1. SUFFICES ASSUME i < j PROVE FALSE
      OBVIOUS
    <3>2. from[i + 1] =< from[j]
      <4>1. CASE i + 1 = j
        BY <4>1, <1>2
      <4>2. CASE i + 1 # j
        <5>1. i + 1 \in 1 .. n /\ j \in 1 .. n + 1 /\ i + 1 < j
          BY <3>1, <4>2
        <5> QED BY <5>1
      <4> QED BY <4>1, <4>2
    <3> QED BY <1>2, <1>4, <2>1, <2>2, <3>2
  <2>4. ~ (j < i)
    <3>1. SUFFICES ASSUME j < i PROVE FALSE
      OBVIOUS
    <3>2. from[j + 1] =< from[i]
      <4>1. CASE j + 1 = i
        BY <4>1, <1>2
      <4>2. CASE j + 1 # i
        <5>1. j + 1 \in 1 .. n /\ i \in 1 .. n + 1 /\ j + 1 < i
          BY <3>1, <4>2
        <5> QED BY <5>1
      <4> QED BY <4>1, <4>2
    <3> QED BY <1>2, <1>4, <2>1, <2>2, <3>2
  <2>5. i = j
    BY <2>3, <2>4
  <2> QED BY <2>1, <2>2, <2>5, <1>4 DEF Laid
<1> QED BY <1>3, <1>4 DEF Laid, U

-----------------------------------------------------------------------------
(* The section of a splice_insert.                                         *)

(* What a splice_insert that is no cancellation says.                      *)
LEMMA InsertTyped ==
  ASSUME NEW c \in Splices!Inserts
  PROVE  /\ c.cancel \in BOOLEAN
         /\ ~c.cancel => /\ {c.out, c.program, c.immediate, c.duration} \subseteq BOOLEAN
                         /\ c.timed \in Seq(BOOLEAN)
                         /\ c.program => Len(c.timed) = 1
<1>1. CASE c \in [cancel : {TRUE}]
  BY <1>1
<1>2. CASE c \in [cancel : {FALSE}, out : BOOLEAN, program : BOOLEAN, immediate : BOOLEAN,
                  duration : BOOLEAN, timed : Splices!SeqOf(BOOLEAN, MaxComponents)]
  <2>1. {c.out, c.program, c.immediate, c.duration} \subseteq BOOLEAN /\ c.cancel = FALSE
        /\ c.timed \in Splices!SeqOf(BOOLEAN, MaxComponents)
    BY <1>2
  <2>2. c.program => Len(c.timed) = 1
    BY <2>1 DEF Splices!Inserts
  <2>3. PICK m \in 0 .. MaxComponents : c.timed \in [1 .. m -> BOOLEAN]
    BY <2>1 DEF Splices!SeqOf
  <2>4. m \in Nat
    BY <2>3
  <2>5. c.timed \in Seq(BOOLEAN)
    BY <2>3, <2>4, SeqDef
  <2> QED BY <2>1, <2>2, <2>5
<1> QED BY <1>1, <1>2 DEF Splices!Inserts

(* Where the components begin, and in which order.                         *)
LEMMA ComponentsPlaced ==
  ASSUME NEW c \in Splices!Inserts, ~c.cancel, NEW n \in Nat, n = Len(c.timed)
  PROVE  /\ DOMAIN c.timed = 1 .. n /\ \A i \in 1 .. n : c.timed[i] \in BOOLEAN
         /\ Splices!ComponentsAt(c) \in [1 .. n + 1 -> Nat]
         /\ Splices!ComponentsAt(c)[1] = Splices!FLAGS + 2
         /\ \A i \in 1 .. n :
              Splices!ComponentsAt(c)[i + 1] = Splices!ComponentsAt(c)[i] + IF c.immediate THEN 1
                                                            ELSE 1 + Splices!TimeSize(c.timed[i])
         /\ \A i \in 1 .. n : \A j \in 1 .. n + 1 : i < j
              => Splices!ComponentsAt(c)[i] =< Splices!ComponentsAt(c)[j]
         /\ \A j \in 1 .. n + 1 : Splices!FLAGS + 2 =< Splices!ComponentsAt(c)[j]
<1>1. DOMAIN c.timed = 1 .. n /\ \A i \in 1 .. n : c.timed[i] \in BOOLEAN
  BY InsertTyped, LenProperties, ElementOfSeq
<1>2. PICK sizes : sizes = [i \in DOMAIN c.timed |-> IF c.immediate THEN 1
                                                     ELSE 1 + Splices!TimeSize(c.timed[i])]
  OBVIOUS
<1>3. sizes \in [1 .. n -> Nat]
  BY <1>1, <1>2 DEF Splices!TimeSize
<1>4. sizes \in Seq(Nat)
  BY <1>3, SeqDef
<1>5. Len(sizes) = n
  BY <1>3, <1>4, LenProperties
<1>6. Splices!ComponentsAt(c) = Splices!Offsets(Splices!FLAGS + 2, sizes)
  BY <1>2 DEF Splices!ComponentsAt
<1>7. Splices!FLAGS + 2 \in Nat
  BY DEF Splices!FLAGS, Splices!HEADER
<1>8. PICK f : f = Splices!Offsets(Splices!FLAGS + 2, sizes)
  OBVIOUS
<1>9. /\ f \in [1 .. n + 1 -> Nat] /\ f[1] = Splices!FLAGS + 2
      /\ \A i \in 1 .. n : f[i + 1] = f[i] + sizes[i]
  BY <1>4, <1>5, <1>7, <1>8, OffsetsAre
<1>10. ASSUME NEW i \in 1 .. n, NEW j \in 1 .. n + 1, i < j PROVE f[i] =< f[j]
  <2>1. f[i] + sizes[i] =< f[j]
    BY <1>4, <1>5, <1>7, <1>8, <1>10, OffsetsGrow
  <2>2. i \in 1 .. n + 1 /\ sizes[i] \in Nat
    BY <1>3
  <2>3. f[i] \in Nat /\ f[j] \in Nat
    BY <1>9, <2>2
  <2> QED BY <2>1, <2>2, <2>3
<1>11. ASSUME NEW j \in 1 .. n + 1 PROVE Splices!FLAGS + 2 =< f[j]
  <2>1. CASE j = 1
    BY <2>1, <1>7, <1>9
  <2>2. CASE j # 1
    <3>1. 1 \in 1 .. n /\ 1 < j
      BY <2>2
    <3> QED BY <3>1, <1>9, <1>10
  <2> QED BY <2>1, <2>2
<1>12. \A i \in 1 .. n : sizes[i] = IF c.immediate THEN 1 ELSE 1 + Splices!TimeSize(c.timed[i])
  BY <1>1, <1>2
<1> QED BY <1>1, <1>6, <1>8, <1>9, <1>10, <1>11, <1>12

(* Where the rest of a splice_insert is.                                   *)
LEMMA InsertPlaces ==
  ASSUME NEW c \in Splices!Inserts, ~c.cancel
  PROVE  /\ Splices!TimesEnd(c) \in Nat /\ 21 =< Splices!TimesEnd(c)
         /\ c.program /\ c.immediate => Splices!TimesEnd(c) = 21
         /\ c.program /\ ~c.immediate => Splices!TimesEnd(c) = 21 + Splices!TimeSize(c.timed[1])
         /\ ~c.program => Splices!TimesEnd(c) = Splices!ComponentsAt(c)[Len(c.timed) + 1]
              /\ 22 =< Splices!TimesEnd(c)
         /\ Splices!ProgramAt(c) \in Nat
         /\ Splices!ProgramAt(c) =
              IF c.duration THEN Splices!TimesEnd(c) + 5 ELSE Splices!TimesEnd(c)
         /\ Splices!InsertEnd(c) = Splices!ProgramAt(c) + 4
<1>1. PICK n \in Nat : n = Len(c.timed)
  BY InsertTyped, LenProperties
<1>2. c.program \in BOOLEAN /\ c.immediate \in BOOLEAN /\ c.duration \in BOOLEAN
  BY InsertTyped
<1>3. /\ Splices!TimesEnd(c) \in Nat /\ 21 =< Splices!TimesEnd(c)
      /\ c.program /\ c.immediate => Splices!TimesEnd(c) = 21
      /\ c.program /\ ~c.immediate => Splices!TimesEnd(c) = 21 + Splices!TimeSize(c.timed[1])
      /\ ~c.program => Splices!TimesEnd(c) = Splices!ComponentsAt(c)[Len(c.timed) + 1]
           /\ 22 =< Splices!TimesEnd(c)
  <2>1. CASE ~c.program
    <3>1. Splices!ComponentsAt(c)[n + 1] \in Nat
          /\ Splices!FLAGS + 2 =< Splices!ComponentsAt(c)[n + 1]
      BY <1>1, ComponentsPlaced
    <3> QED BY <3>1, <2>1, <1>1 DEF Splices!TimesEnd, Splices!FLAGS, Splices!HEADER
  <2>2. CASE c.program
    BY <2>2, <1>2 DEF Splices!TimesEnd, Splices!FLAGS, Splices!HEADER, Splices!TimeSize
  <2> QED BY <2>1, <2>2
<1>4. Splices!ProgramAt(c) \in Nat
      /\ Splices!ProgramAt(c) = IF c.duration THEN Splices!TimesEnd(c) + 5 ELSE Splices!TimesEnd(c)
  BY <1>2, <1>3 DEF Splices!ProgramAt
<1> QED BY <1>3, <1>4 DEF Splices!InsertEnd

(* The fields of a splice_insert are laid out one behind the other.        *)
LEMMA TimesLaid ==
  ASSUME NEW c \in Splices!Inserts, ~c.cancel
  PROVE  Laid(Splices!TimeFields(c), 21, Splices!TimesEnd(c))
<1>1. c.program \in BOOLEAN /\ c.immediate \in BOOLEAN
  BY InsertTyped
<1>2. Splices!TimesEnd(c) \in Int /\ 21 =< Splices!TimesEnd(c)
  BY InsertPlaces
<1>3. CASE c.program
  <2>1. Splices!TimeFields(c) = Splices!When(~c.immediate, {Splices!TimeAt(21, c.timed[1], 1)})
    BY <1>3 DEF Splices!TimeFields, Splices!FLAGS, Splices!HEADER
  <2>2. ASSUME ~c.immediate PROVE Laid({Splices!TimeAt(21, c.timed[1], 1)}, 21, Splices!TimesEnd(c))
    <3>1. 21 < Splices!TimesEnd(c)
      BY <2>2, <1>3, InsertPlaces DEF Splices!TimeSize
    <3> QED BY <3>1, <1>2, LaidOne DEF Splices!TimeAt
  <2>3. (~c.immediate) \in BOOLEAN
    OBVIOUS
  <2> QED BY <2>1, <2>2, <2>3, LaidWhen
<1>4. CASE ~c.program
  <2>1. PICK n \in Nat : n = Len(c.timed)
    BY InsertTyped, LenProperties
  <2>2. PICK f : f = Splices!ComponentsAt(c)
    OBVIOUS
  <2>3. /\ DOMAIN c.timed = 1 .. n /\ f \in [1 .. n + 1 -> Nat] /\ f[1] = 22
        /\ Splices!TimesEnd(c) = f[n + 1]
        /\ \A i \in 1 .. n : f[i + 1] = f[i] +
             IF c.immediate THEN 1 ELSE 1 + Splices!TimeSize(c.timed[i])
        /\ \A i \in 1 .. n : \A j \in 1 .. n + 1 : i < j => f[i] =< f[j]
    <3>1. Splices!FLAGS + 2 = 22
      BY DEF Splices!FLAGS, Splices!HEADER
    <3>2. Splices!TimesEnd(c) = f[n + 1]
      BY <2>1, <2>2, <1>4, InsertPlaces
    <3> QED BY <2>1, <2>2, <3>1, <3>2, ComponentsPlaced
  <2> DEFINE Times == {Splices!TimeAt(f[i] + 1, c.timed[i], i) : i \in 1 .. n}
  <2>4. ASSUME ~c.immediate PROVE Laid(Times, 22, Splices!TimesEnd(c))
    <3>1. PICK piece : piece = [i \in 1 .. n |-> {Splices!TimeAt(f[i] + 1, c.timed[i], i)}]
      OBVIOUS
    <3>2. ASSUME NEW i \in 1 .. n PROVE Laid(piece[i], f[i], f[i + 1])
      <4>1. f[i + 1] = f[i] + (1 + Splices!TimeSize(c.timed[i])) /\ f[i] \in Nat
        <5>1. i \in 1 .. n + 1
          BY <3>2
        <5>2. f[i] \in Nat
          BY <2>3, <5>1
        <5>3. f[i + 1] = f[i] + IF c.immediate THEN 1 ELSE 1 + Splices!TimeSize(c.timed[i])
          BY <2>3, <3>2
        <5>4. (IF c.immediate THEN 1 ELSE 1 + Splices!TimeSize(c.timed[i]))
              = 1 + Splices!TimeSize(c.timed[i])
          BY <2>4
        <5> QED BY <5>2, <5>3, <5>4
      <4>2. Splices!TimeSize(c.timed[i]) \in {1, 5}
        BY DEF Splices!TimeSize
      <4>3. f[i] + 1 \in Int /\ f[i + 1] \in Int /\ f[i] =< f[i] + 1 /\ f[i] + 1 < f[i + 1]
        BY <4>1, <4>2
      <4>4. piece[i] = {Splices!At(f[i] + 1, Splices!TimeSize(c.timed[i]),
                          IF c.timed[i] THEN [timed |-> TRUE, time |-> i] ELSE [timed |-> FALSE])}
        BY <3>1 DEF Splices!TimeAt
      <4> QED BY <4>1, <4>3, <4>4, LaidOne
    <3>3. Laid(UNION {piece[i] : i \in 1 .. n}, f[1], f[n + 1])
      BY <2>3, <3>2, LaidParts
    <3>4. UNION {piece[i] : i \in 1 .. n} = Times
      BY <3>1
    <3> QED BY <3>3, <3>4, <2>3
  <2>5. Splices!TimeFields(c) = {Splices!At(21, 1, n)} \cup Splices!When(~c.immediate, Times)
    BY <1>4, <2>1, <2>2, <2>3 DEF Splices!TimeFields, Splices!FLAGS, Splices!HEADER
  <2> HIDE DEF Times
  <2>6. Laid(Splices!When(~c.immediate, Times), 22, Splices!TimesEnd(c))
    <3>1. (~c.immediate) \in BOOLEAN
      OBVIOUS
    <3> QED BY <3>1, <2>4, LaidWhen
  <2>7. Laid({Splices!At(21, 1, n)}, 21, 22)
    BY LaidOne
  <2>8. 22 =< Splices!TimesEnd(c)
    BY <1>4, InsertPlaces
  <2> QED BY <2>5, <2>6, <2>7, <2>8, <1>2, LaidBehind
<1> QED BY <1>1, <1>3, <1>4

(* The whole splice_insert.                                                *)
LEMMA InsertLaid ==
  ASSUME NEW c \in Splices!Inserts
  PROVE  Splices!InsertEnd(c) \in Nat /\ 20 =< Splices!InsertEnd(c)
         /\ Laid(Splices!InsertFields(c), 15, Splices!InsertEnd(c))
<1>1. c.cancel \in BOOLEAN
  BY InsertTyped
<1> DEFINE id == {Splices!At(15, 4, "event")}
           cancel == {Splices!At(19, 1, c.cancel)}
           flags == {Splices!At(20, 1,
               [out |-> c.out, program |-> c.program, duration |-> c.duration,
                                immediate |-> c.immediate])}
           times == Splices!TimeFields(c)
           broken == Splices!When(c.duration, {Splices!At(Splices!TimesEnd(c), 5, "break")})
           program == {Splices!At(Splices!ProgramAt(c), 2, "program")}
           rest == ((flags \cup times) \cup broken) \cup program
<1>2. Laid(id \cup cancel, 15, 20)
  <2>1. Laid(id, 15, 19) /\ Laid(cancel, 19, 20)
    BY LaidOne
  <2> HIDE DEF id, cancel
  <2> QED BY <2>1, LaidBehind
<1>3. Splices!InsertFields(c) = (id \cup cancel) \cup Splices!When(~c.cancel, rest)
  <2>1. {Splices!At(15, 4, "event"), Splices!At(19, 1, c.cancel)} = id \cup cancel
    OBVIOUS
  <2> QED BY <2>1 DEF Splices!InsertFields, Splices!FLAGS, Splices!HEADER
<1>4. CASE c.cancel
  <2>1. Splices!InsertEnd(c) = 20
    BY <1>4 DEF Splices!InsertEnd, Splices!FLAGS, Splices!HEADER
  <2>2. Splices!When(~c.cancel, rest) = {}
    BY <1>4 DEF Splices!When
  <2>3. Splices!InsertFields(c) = id \cup cancel
    BY <1>3, <2>2
  <2> QED BY <1>2, <2>1, <2>3
<1>5. CASE ~c.cancel
  <2>1. PICK t \in Nat : t = Splices!TimesEnd(c) /\ 21 =< t
    BY <1>5, InsertPlaces
  <2>2. PICK p \in Nat : /\ p = Splices!ProgramAt(c) /\ Splices!InsertEnd(c) = p + 4
                         /\ p = IF c.duration THEN t + 5 ELSE t
    BY <1>5, <2>1, InsertPlaces
  <2>3. Laid(flags, 20, 21)
    BY LaidOne
  <2>4. Laid(times, 21, t)
    BY <1>5, <2>1, TimesLaid
  <2>5. Laid(broken, t, p)
    <3>1. ASSUME c.duration PROVE Laid({Splices!At(Splices!TimesEnd(c), 5, "break")}, t, p)
      BY <3>1, <2>1, <2>2, LaidOne
    <3>2. c.duration \in BOOLEAN
      BY <1>5, InsertTyped
    <3> QED BY <3>1, <3>2, LaidWhen
  <2>6. Laid(program, p, p + 4)
    BY <2>2, LaidOne
  <2>7. Splices!When(~c.cancel, rest) = rest
    BY <1>5 DEF Splices!When
  <2> HIDE DEF id, cancel, flags, times, broken, program
  <2>8. t =< p /\ 20 =< p + 4
    BY <2>1, <2>2
  <2>9. Laid(flags \cup times, 20, t)
    BY <2>1, <2>3, <2>4, LaidBehind
  <2>10. Laid((flags \cup times) \cup broken, 20, p)
    BY <2>1, <2>2, <2>5, <2>8, <2>9, LaidBehind
  <2>11. Laid(rest, 20, p + 4)
    BY <2>1, <2>2, <2>6, <2>8, <2>10, LaidBehind
  <2> HIDE DEF rest
  <2>12. Laid((id \cup cancel) \cup rest, 15, p + 4)
    BY <1>2, <2>2, <2>8, <2>11, LaidBehind
  <2>13. Splices!InsertFields(c) = (id \cup cancel) \cup rest
    BY <1>3, <2>7
  <2>14. Laid(Splices!InsertFields(c), 15, Splices!InsertEnd(c))
    BY <2>2, <2>12, <2>13
  <2> QED BY <2>2, <2>8, <2>14
<1> QED BY <1>1, <1>4, <1>5

-----------------------------------------------------------------------------
(* The section of a time_signal.                                           *)

(* What a descriptor says.                                                 *)
LEMMA KindsTyped ==
  ASSUME NEW d \in Splices!Kinds
  PROVE  /\ d.system \in {"CUEI", "other", "avail"}
         /\ d.system = "CUEI" => d.cancel \in BOOLEAN
         /\ d.system = "CUEI" /\ ~d.cancel =>
              d.components \in Nat /\ d.duration \in BOOLEAN /\ d.upid \in Nat /\ d.type \in Nat
<1>1. CASE d \in [system : {"CUEI"}, cancel : {TRUE}]
  BY <1>1
<1>2. CASE d \in [system : {"CUEI"}, cancel : {FALSE}, components : Nat, duration : BOOLEAN,
                  upid : Nat, type : Nat]
  BY <1>2
<1>3. CASE d \in [system : {"other", "avail"}]
  <2>1. d.system \in {"other", "avail"}
    BY <1>3
  <2>2. d.system # "CUEI"
    BY <2>1
  <2> QED BY <2>1, <2>2
<1> QED BY <1>1, <1>2, <1>3 DEF Splices!Kinds

(* Where its fields are.                                                   *)
LEMMA SegmentationPlaces ==
  ASSUME NEW d \in Splices!Kinds, d.system = "CUEI", ~d.cancel
  PROVE  /\ d.components \in Nat /\ d.duration \in BOOLEAN /\ d.upid \in Nat /\ d.type \in Nat
         /\ Splices!DurationAt(d) \in Nat
         /\ Splices!DurationAt(d) = IF d.components > 0 THEN 13 + 6 * d.components ELSE 12
         /\ Splices!UpidAt(d) \in Nat
         /\ Splices!UpidAt(d) =
              IF d.duration THEN Splices!DurationAt(d) + 5 ELSE Splices!DurationAt(d)
         /\ Splices!DescriptorSize(d) = Splices!UpidAt(d) + 2 + d.upid + 3
<1>1. d.components \in Nat /\ d.duration \in BOOLEAN /\ d.upid \in Nat /\ d.type \in Nat
  BY KindsTyped
<1>2. /\ Splices!DurationAt(d) \in Nat
      /\ Splices!DurationAt(d) = IF d.components > 0 THEN 13 + 6 * d.components ELSE 12
  BY <1>1 DEF Splices!DurationAt
<1>3. Splices!UpidAt(d) \in Nat
      /\ Splices!UpidAt(d) = IF d.duration THEN Splices!DurationAt(d) + 5 ELSE Splices!DurationAt(d)
  BY <1>1, <1>2 DEF Splices!UpidAt
<1>4. d.system # "avail" /\ d.system # "other"
  OBVIOUS
<1>5. Splices!DescriptorSize(d) = Splices!UpidAt(d) + 2 + d.upid + 3
  BY <1>4 DEF Splices!DescriptorSize
<1> QED BY <1>1, <1>2, <1>3, <1>5

(* The size of a descriptor of any system.                                 *)
LEMMA DescriptorPlaces ==
  ASSUME NEW d \in Splices!Kinds
  PROVE  /\ Splices!DescriptorSize(d) \in Nat /\ 6 =< Splices!DescriptorSize(d)
         /\ d.system = "CUEI" /\ d.cancel => Splices!DescriptorSize(d) = 11
<1>1. CASE d.system = "avail"
  BY <1>1 DEF Splices!DescriptorSize
<1>2. CASE d.system = "other"
  BY <1>2 DEF Splices!DescriptorSize
<1>3. CASE d.system = "CUEI" /\ d.cancel
  <2>1. d.system # "avail" /\ d.system # "other"
    BY <1>3
  <2> QED BY <1>3, <2>1 DEF Splices!DescriptorSize
<1>4. CASE d.system = "CUEI" /\ ~d.cancel
  <2>1. Splices!DescriptorSize(d) = Splices!UpidAt(d) + 2 + d.upid + 3
        /\ Splices!UpidAt(d) \in Nat /\ d.upid \in Nat
        /\ Splices!DurationAt(d) \in Nat /\ 12 =< Splices!DurationAt(d)
        /\ Splices!DurationAt(d) =< Splices!UpidAt(d)
    BY <1>4, SegmentationPlaces
  <2> QED BY <1>4, <2>1
<1> QED BY <1>1, <1>2, <1>3, <1>4, KindsTyped

(* The fields of a descriptor are laid out one behind the other.           *)
LEMMA SegmentationLaid ==
  ASSUME NEW d \in Splices!Kinds, d.system = "CUEI", NEW p \in Nat
  PROVE  Laid(Splices!SegmentationFields(p, d), p + 6, p + Splices!DescriptorSize(d))
<1>1. d.cancel \in BOOLEAN
  BY KindsTyped
<1> DEFINE id == {Splices!At(p + 6, 4, "event")}
           cancel == {Splices!At(p + 10, 1, d.cancel)}
           flags == {Splices!At(p + 11, 1, [program |-> d.components = 0, duration |-> d.duration])}
           components == Splices!When(d.components > 0, {Splices!At(p + 12, 1, d.components)})
           duration == Splices!When(d.duration,
               {Splices!At(p + Splices!DurationAt(d), 5, "segment")})
           type == {Splices!At(p + Splices!UpidAt(d), 1, "upid type")}
           upid == {Splices!At(p + Splices!UpidAt(d) + 1, 1, d.upid)}
           kind == {Splices!At(p + Splices!UpidAt(d) + 2 + d.upid, 1, d.type)}
           rest == ((flags \cup components) \cup duration) \cup ((type \cup upid) \cup kind)
<1>2. Laid(id \cup cancel, p + 6, p + 11)
  <2>1. Laid(id, p + 6, p + 10) /\ Laid(cancel, p + 10, p + 11)
    BY LaidOne
  <2>2. p + 6 \in Int /\ p + 10 \in Int /\ p + 11 \in Int /\ p + 6 =< p + 10 /\ p + 10 =< p + 11
    OBVIOUS
  <2> HIDE DEF id, cancel
  <2> QED BY <2>1, <2>2, LaidBehind
<1>3. Splices!SegmentationFields(p, d) = (id \cup cancel) \cup Splices!When(~d.cancel, rest)
  <2>1. {Splices!At(p + 6, 4, "event"), Splices!At(p + 10, 1, d.cancel)} = id \cup cancel
    OBVIOUS
  <2>2. {Splices!At(p + Splices!UpidAt(d), 1, "upid type"),
        Splices!At(p + Splices!UpidAt(d) + 1, 1, d.upid),
         Splices!At(p + Splices!UpidAt(d) + 2 + d.upid, 1, d.type)} = (type \cup upid) \cup kind
    OBVIOUS
  <2> HIDE DEF id, cancel, type, upid, kind, components, duration, flags
  <2> QED BY <2>1, <2>2 DEF Splices!SegmentationFields, flags, components, duration
<1>4. CASE d.cancel
  <2>1. Splices!DescriptorSize(d) = 11
    BY <1>4, DescriptorPlaces
  <2>2. Splices!When(~d.cancel, rest) = {}
    BY <1>4 DEF Splices!When
  <2>3. Splices!SegmentationFields(p, d) = id \cup cancel
    BY <1>3, <2>2
  <2> QED BY <1>2, <2>1, <2>3
<1>5. CASE ~d.cancel
  <2>1. PICK m \in Nat, t \in Nat, u \in Nat :
          /\ m = d.components /\ t = Splices!DurationAt(d) /\ u = Splices!UpidAt(d)
          /\ t = IF m > 0 THEN 13 + 6 * m ELSE 12
          /\ u = IF d.duration THEN t + 5 ELSE t
          /\ d.upid \in Nat /\ Splices!DescriptorSize(d) = u + 2 + d.upid + 3
          /\ d.duration \in BOOLEAN
    BY <1>5, SegmentationPlaces
  <2>2. 12 =< t /\ t =< u /\ (m > 0 => 13 =< t)
    BY <2>1
  <2>3. Laid(flags, p + 11, p + 12)
    BY LaidOne
  <2>4. Laid(components, p + 12, p + t)
    <3>1. ASSUME m > 0 PROVE Laid({Splices!At(p + 12, 1, d.components)}, p + 12, p + t)
      BY <3>1, <2>1, <2>2, LaidOne
    <3>2. (m > 0) \in BOOLEAN
      BY <2>1
    <3>3. Laid(Splices!When(m > 0, {Splices!At(p + 12, 1, d.components)}), p + 12, p + t)
      BY <3>1, <3>2, LaidWhen
    <3> QED BY <2>1, <3>3
  <2>5. Laid(duration, p + t, p + u)
    <3>1. ASSUME d.duration
          PROVE Laid({Splices!At(p + Splices!DurationAt(d), 5, "segment")}, p + t, p + u)
      BY <3>1, <2>1, LaidOne
    <3> QED BY <3>1, <2>1, LaidWhen
  <2>6. Laid(type, p + u, p + u + 1) /\ Laid(upid, p + u + 1, p + u + 2)
    <3>1. PICK q \in Int : q = p + u
      BY <2>1
    <3>2. type = {Splices!At(q, 1, "upid type")} /\ upid = {Splices!At(q + 1, 1, d.upid)}
      BY <2>1, <3>1
    <3>3. q =< q /\ q < q + 1 /\ q + 1 =< q + 1 /\ q + 1 < q + 2 /\ q + 1 \in Int /\ q + 2 \in Int
      OBVIOUS
    <3>4. Laid({Splices!At(q, 1, "upid type")}, q, q + 1)
      BY <3>3, LaidOne
    <3>5. Laid({Splices!At(q + 1, 1, d.upid)}, q + 1, q + 2)
      BY <3>3, LaidOne
    <3> QED BY <3>1, <3>2, <3>4, <3>5
  <2>7. Laid(kind, p + u + 2, p + Splices!DescriptorSize(d))
    <3>1. p + u + 2 =< p + u + 2 + d.upid /\ p + u + 2 + d.upid < p + Splices!DescriptorSize(d)
          /\ p + u + 2 \in Int /\ p + u + 2 + d.upid \in Int
          /\ p + Splices!DescriptorSize(d) \in Int
      BY <2>1
    <3> QED BY <2>1, <3>1, LaidOne
  <2>8. Splices!When(~d.cancel, rest) = rest
    BY <1>5 DEF Splices!When
  <2> HIDE DEF id, cancel, flags, components, duration, type, upid, kind
  <2>9. /\ {p + 6, p + 11, p + 12, p + t, p + u, p + u + 1, p + u + 2,
             p + Splices!DescriptorSize(d)} \subseteq Int
        /\ p + 11 =< p + 12 /\ p + 12 =< p + t /\ p + t =< p + u /\ p + u =< p + u + 1
        /\ p + u + 1 =< p + u + 2 /\ p + u + 2 =< p + Splices!DescriptorSize(d)
    BY <2>1, <2>2
  <2>10. Laid(flags \cup components, p + 11, p + t)
    BY <2>3, <2>4, <2>9, LaidBehind
  <2>11. p + 11 =< p + t /\ p + 11 =< p + u /\ p + u =< p + u + 2
         /\ p + u =< p + Splices!DescriptorSize(d)
         /\ p + 6 =< p + 11 /\ p + 11 =< p + Splices!DescriptorSize(d)
    BY <2>1, <2>2
  <2>12. Laid((flags \cup components) \cup duration, p + 11, p + u)
    BY <2>5, <2>9, <2>10, <2>11, LaidBehind
  <2>13. Laid(type \cup upid, p + u, p + u + 2)
    BY <2>6, <2>9, LaidBehind
  <2>14. Laid((type \cup upid) \cup kind, p + u, p + Splices!DescriptorSize(d))
    BY <2>7, <2>9, <2>11, <2>13, LaidBehind
  <2>15. Laid(rest, p + 11, p + Splices!DescriptorSize(d))
    BY <2>9, <2>11, <2>12, <2>14, LaidBehind
  <2> HIDE DEF rest
  <2>16. Laid((id \cup cancel) \cup rest, p + 6, p + Splices!DescriptorSize(d))
    BY <1>2, <2>9, <2>11, <2>15, LaidBehind
  <2>17. Splices!SegmentationFields(p, d) = (id \cup cancel) \cup rest
    BY <1>3, <2>8
  <2> QED BY <2>16, <2>17
<1> QED BY <1>1, <1>4, <1>5

(* The whole descriptor.                                                   *)
LEMMA DescriptorLaid ==
  ASSUME NEW d \in Splices!Kinds, NEW p \in Nat
  PROVE  Laid(Splices!DescriptorFields(p, d), p, p + Splices!DescriptorSize(d))
<1> DEFINE tag == {Splices!At(p, 1, IF d.system = "avail" THEN 0 ELSE Splices!SEGMENTATION)}
           size == {Splices!At(p + 1, 1, Splices!DescriptorSize(d) - 2)}
           system == {Splices!At(p + 2, 4, IF d.system = "CUEI" THEN "CUEI" ELSE "other")}
           body == Splices!When(d.system = "CUEI", Splices!SegmentationFields(p, d))
<1>1. PICK e \in Nat : e = p + Splices!DescriptorSize(d) /\ p + 6 =< e
  BY DescriptorPlaces
<1>2. Laid(tag, p, p + 1) /\ Laid(size, p + 1, p + 2)
  BY LaidOne
<1>3. Laid(system, p + 2, p + 6)
  BY LaidOne
<1>4. Laid(body, p + 6, e)
  <2>1. d.system = "CUEI" => Laid(Splices!SegmentationFields(p, d), p + 6, e)
    BY <1>1, SegmentationLaid
  <2>2. (d.system = "CUEI") \in BOOLEAN
    OBVIOUS
  <2> QED BY <2>1, <2>2, LaidWhen
<1>5. Splices!DescriptorFields(p, d) = ((tag \cup size) \cup system) \cup body
  <2>1. {Splices!At(p, 1, IF d.system = "avail" THEN 0 ELSE Splices!SEGMENTATION),
        Splices!At(p + 1, 1, Splices!DescriptorSize(d) - 2),
         Splices!At(p + 2, 4, IF d.system = "CUEI" THEN "CUEI" ELSE "other")}
             = (tag \cup size) \cup system
    OBVIOUS
  <2> HIDE DEF tag, size, system
  <2> QED BY <2>1 DEF Splices!DescriptorFields
<1> HIDE DEF tag, size, system, body
<1>6. /\ {p, p + 1, p + 2, p + 6, e} \subseteq Int
      /\ p =< p + 1 /\ p + 1 =< p + 2 /\ p + 2 =< p + 6 /\ p =< p + 2 /\ p =< p + 6
  BY <1>1
<1>7. Laid(tag \cup size, p, p + 2)
  BY <1>2, <1>6, LaidBehind
<1>8. Laid((tag \cup size) \cup system, p, p + 6)
  BY <1>3, <1>6, <1>7, LaidBehind
<1>9. Laid(((tag \cup size) \cup system) \cup body, p, e)
  BY <1>1, <1>4, <1>6, <1>8, LaidBehind
<1> QED BY <1>1, <1>5, <1>9

(* A time_signal and where its descriptors begin.                          *)
LEMMA SignalTyped ==
  ASSUME Segmentations \subseteq Splices!Kinds, NEW s \in Splices!Signals
  PROVE  /\ s.timed \in BOOLEAN /\ Splices!TimeSize(s.timed) \in {1, 5}
         /\ Len(s.descriptors) \in Nat /\ DOMAIN s.descriptors = 1 .. Len(s.descriptors)
         /\ \A i \in 1 .. Len(s.descriptors) : s.descriptors[i] \in Splices!Kinds
<1>1. s.timed \in BOOLEAN /\ s.descriptors \in Splices!SeqOf(Segmentations, MaxDescriptors)
  BY DEF Splices!Signals
<1>2. PICK m \in 0 .. MaxDescriptors : s.descriptors \in [1 .. m -> Segmentations]
  BY <1>1 DEF Splices!SeqOf
<1>3. m \in Nat
  BY <1>2
<1>4. s.descriptors \in Seq(Segmentations)
  BY <1>2, <1>3, SeqDef
<1>5. Len(s.descriptors) \in Nat /\ DOMAIN s.descriptors = 1 .. Len(s.descriptors)
  BY <1>4, LenProperties
<1>6. \A i \in 1 .. Len(s.descriptors) : s.descriptors[i] \in Splices!Kinds
  BY <1>4, ElementOfSeq
<1> QED BY <1>1, <1>5, <1>6 DEF Splices!TimeSize

(* Where the descriptors begin: one behind the other.                      *)
LEMMA DescriptorsPlaced ==
  ASSUME Segmentations \subseteq Splices!Kinds, NEW s \in Splices!Signals, NEW n \in Nat,
         n = Len(s.descriptors)
  PROVE  /\ Splices!DescriptorsAt(s) \in [1 .. n + 1 -> Nat]
         /\ Splices!DescriptorsAt(s)[1] = 15 + Splices!TimeSize(s.timed) + 2
         /\ \A i \in 1 .. n :
              Splices!DescriptorsAt(s)[i + 1]
                  = Splices!DescriptorsAt(s)[i] + Splices!DescriptorSize(s.descriptors[i])
         /\ \A i \in 1 .. n : \A j \in 1 .. n + 1 :
              i < j => Splices!DescriptorsAt(s)[i] + Splices!DescriptorSize(s.descriptors[i]) =< Splices!DescriptorsAt(s)[j]
<1>1. PICK sizes : sizes = [i \in DOMAIN s.descriptors |-> Splices!DescriptorSize(s.descriptors[i])]
  OBVIOUS
<1>2. DOMAIN s.descriptors = 1 .. n
  BY SignalTyped
<1>3. \A i \in 1 .. n : sizes[i] = Splices!DescriptorSize(s.descriptors[i]) /\ sizes[i] \in Nat
  BY <1>1, <1>2, SignalTyped, DescriptorPlaces
<1>4. sizes \in [1 .. n -> Nat]
  BY <1>1, <1>2, <1>3
<1>5. sizes \in Seq(Nat)
  BY <1>4, SeqDef
<1>6. Len(sizes) = n
  BY <1>4, <1>5, LenProperties
<1>7. PICK first \in Nat : first = 15 + Splices!TimeSize(s.timed) + 2
  BY SignalTyped
<1>8. Splices!DescriptorsAt(s) = Splices!Offsets(first, sizes)
  BY <1>1, <1>7 DEF Splices!DescriptorsAt, Splices!HEADER
<1>9. \A i \in 1 .. n : \A j \in 1 .. n + 1 :
        i < j => Splices!Offsets(first, sizes)[i] + sizes[i] =< Splices!Offsets(first, sizes)[j]
  BY <1>5, <1>6, OffsetsGrow
<1>10. /\ Splices!Offsets(first, sizes) \in [1 .. n + 1 -> Nat]
       /\ Splices!Offsets(first, sizes)[1] = first
       /\ \A i \in 1 .. n :
            Splices!Offsets(first, sizes)[i + 1] = Splices!Offsets(first, sizes)[i] + sizes[i]
  BY <1>5, <1>6, OffsetsAre
<1> QED BY <1>3, <1>7, <1>8, <1>9, <1>10

(* The loop of descriptors.                                                *)
LEMMA LoopLaid ==
  ASSUME Segmentations \subseteq Splices!Kinds, NEW s \in Splices!Signals, NEW n \in Nat,
         n = Len(s.descriptors)
  PROVE  Laid(Splices!LoopFields(s), Splices!DescriptorsAt(s)[1], Splices!DescriptorsAt(s)[n + 1])
<1>1. PICK f : f = Splices!DescriptorsAt(s)
  OBVIOUS
<1>2. /\ f \in [1 .. n + 1 -> Nat]
      /\ \A i \in 1 .. n : f[i + 1] = f[i] + Splices!DescriptorSize(s.descriptors[i])
      /\ \A i \in 1 .. n : \A j \in 1 .. n + 1 :
           i < j => f[i] + Splices!DescriptorSize(s.descriptors[i]) =< f[j]
  BY <1>1, DescriptorsPlaced
<1>3. DOMAIN s.descriptors = 1 .. n
      /\ \A i \in 1 .. n : s.descriptors[i] \in Splices!Kinds
           /\ Splices!DescriptorSize(s.descriptors[i]) \in Nat
  BY SignalTyped, DescriptorPlaces
<1>4. PICK piece : piece = [i \in 1 .. n |-> Splices!DescriptorFields(f[i], s.descriptors[i])]
  OBVIOUS
<1>5. ASSUME NEW i \in 1 .. n PROVE Laid(piece[i], f[i], f[i + 1])
  <2>1. f[i] \in Nat
    BY <1>2
  <2>2. Laid(Splices!DescriptorFields(f[i], s.descriptors[i]), f[i],
        f[i] + Splices!DescriptorSize(s.descriptors[i]))
    BY <1>3, <2>1, DescriptorLaid
  <2> QED BY <1>2, <1>4, <2>2
<1>6. ASSUME NEW i \in 1 .. n, NEW j \in 1 .. n + 1, i < j PROVE f[i] =< f[j]
  <2>1. i \in 1 .. n + 1 /\ f[i] + Splices!DescriptorSize(s.descriptors[i]) =< f[j]
    BY <1>2, <1>6
  <2>2. f[i] \in Nat /\ f[j] \in Nat
    BY <1>2, <2>1
  <2> QED BY <1>3, <2>1, <2>2
<1>7. Laid(UNION {piece[i] : i \in 1 .. n}, f[1], f[n + 1])
  BY <1>2, <1>5, <1>6, LaidParts
<1>8. Splices!LoopFields(s) = UNION {piece[i] : i \in 1 .. n}
  BY <1>1, <1>3, <1>4 DEF Splices!LoopFields
<1> QED BY <1>1, <1>7, <1>8

-----------------------------------------------------------------------------
(* Reading a section that is laid out.                                     *)

(* The whole section is laid out.                                          *)
LEMMA SectionLaid ==
  ASSUME NEW type, NEW length, NEW command, NEW end \in Nat, NEW loop, NEW loops \in Nat,
         15 =< end, end + 2 =< loops, Laid(command, 15, end), Laid(loop, end + 2, loops)
  PROVE  Laid(Splices!SectionOf(type, length, command, end, loop, loops).fields, 2, loops)
<1> DEFINE declared == {Splices!At(2, 2, loops)}
           commanded == {Splices!At(11, 3, length)}
           typed == {Splices!At(14, 1, type)}
           looped == {Splices!At(end, 2, loops - end - 2)}
<1>1. Laid(declared, 2, 11) /\ Laid(commanded, 11, 14) /\ Laid(typed, 14, 15)
  BY LaidOne
<1>2. Laid(looped, end, end + 2)
  <2>1. end \in Int /\ end + 2 \in Int /\ end < end + 2
    OBVIOUS
  <2> QED BY <2>1, LaidOne
<1>3. Splices!SectionOf(type, length, command, end, loop, loops).fields
        = (((declared \cup commanded) \cup typed) \cup command) \cup (looped \cup loop)
  <2>1. {Splices!At(2, 2, loops), Splices!At(11, 3, length), Splices!At(14, 1, type)}
        = (declared \cup commanded) \cup typed
    OBVIOUS
  <2> HIDE DEF declared, commanded, typed
  <2> QED BY <2>1 DEF Splices!SectionOf
<1> HIDE DEF declared, commanded, typed, looped
<1>4. Laid(declared \cup commanded, 2, 14)
  BY <1>1, LaidBehind
<1>5. Laid((declared \cup commanded) \cup typed, 2, 15)
  BY <1>1, <1>4, LaidBehind
<1>6. Laid(((declared \cup commanded) \cup typed) \cup command, 2, end)
  BY <1>5, LaidBehind
<1>7. Laid(looped \cup loop, end, loops)
  <2>1. end + 2 \in Int /\ end =< end + 2
    OBVIOUS
  <2> QED BY <1>2, <2>1, LaidBehind
<1>8. Laid((((declared \cup commanded) \cup typed) \cup command) \cup (looped \cup loop), 2, loops)
  BY <1>6, <1>7, LaidBehind
<1> QED BY <1>3, <1>8

(* The field at a place is the one laid out there.                         *)
LEMMA ChosenIs ==
  ASSUME NEW fields, NEW lo, NEW hi, Laid(fields, lo, hi),
         NEW p, NEW size, NEW value, Splices!At(p, size, value) \in fields
  PROVE  (CHOOSE e \in fields : e[1] = p)[2] = [size |-> size, value |-> value]
<1>1. PICK f : f = Splices!At(p, size, value)
  OBVIOUS
<1>2. f[1] = p /\ f[2] = [size |-> size, value |-> value]
  BY <1>1 DEF Splices!At
<1>3. PICK e : e = CHOOSE x \in fields : x[1] = p
  OBVIOUS
<1>4. e \in fields /\ e[1] = p
  BY <1>1, <1>2, <1>3
<1>5. e = f
  BY <1>1, <1>2, <1>4 DEF Laid
<1> QED BY <1>2, <1>3, <1>5

(* The same for the section that was sent.                                 *)
LEMMA FieldIs ==
  ASSUME NEW lo, NEW hi, Laid(section.fields, lo, hi),
         NEW p, NEW size, NEW value, Splices!At(p, size, value) \in section.fields
  PROVE  Splices!FieldAt(p) = [size |-> size, value |-> value] /\ Splices!FieldAt(p).value = value
<1>1. Splices!FieldAt(p) = [size |-> size, value |-> value]
  BY ChosenIs DEF Splices!FieldAt
<1> QED BY <1>1

(* A byte at the cursor plus k, and a field there that has arrived.        *)
LEMMA FlagsRead ==
  ASSUME NEW lo, NEW hi, Laid(section.fields, lo, hi),
         NEW p, NEW size, NEW value, Splices!At(p, size, value) \in section.fields,
         NEW k, at + k = p
  PROVE  Splices!Flags(k) = value
  BY FieldIs DEF Splices!Flags

(* A field that has arrived.                                               *)
LEMMA FieldRead ==
  ASSUME NEW lo, NEW hi, Laid(section.fields, lo, hi),
         NEW p, NEW size, NEW value, Splices!At(p, size, value) \in section.fields,
         NEW k, at + k = p, p + size =< Splices!Min({arrived, section.length})
  PROVE  Splices!Read(k, size) = value
<1>1. Splices!At(p, size, value)[1] = at + k /\ Splices!At(p, size, value)[2].size = size
  BY DEF Splices!At
<1>2. \E e \in section.fields : e[1] = at + k /\ e[2].size = size
  BY <1>1
<1>3. Splices!FieldAt(at + k).value = value
  BY FieldIs
<1>4. at + k + size =< Splices!Min({arrived, section.length})
  OBVIOUS
<1> QED BY <1>2, <1>3, <1>4 DEF Splices!Read

(* What is in the section of a splice_insert.                              *)
LEMMA InsertHolds ==
  ASSUME NEW c \in Splices!Inserts
  PROVE  LET s == Splices!InsertSection(c) IN
         /\ s.length = Splices!InsertEnd(c) + 6 /\ Splices!InsertEnd(c) \in Nat
         /\ 20 =< Splices!InsertEnd(c)
         /\ Laid(s.fields, 2, Splices!InsertEnd(c) + 2)
         /\ Splices!At(2, 2, Splices!InsertEnd(c) + 2) \in s.fields
         /\ Splices!At(15, 4, "event") \in s.fields /\ Splices!At(19, 1, c.cancel) \in s.fields
         /\ ~c.cancel =>
              /\ Splices!At(20, 1, [out |-> c.out, program |-> c.program, duration |-> c.duration,
                            immediate |-> c.immediate]) \in s.fields
              /\ c.program /\ ~c.immediate => Splices!TimeAt(21, c.timed[1], 1) \in s.fields
              /\ ~c.program => Splices!At(21, 1, Len(c.timed)) \in s.fields
              /\ ~c.program /\ ~c.immediate =>
                   \A i \in DOMAIN c.timed :
                     Splices!TimeAt(Splices!ComponentsAt(c)[i] + 1, c.timed[i], i) \in s.fields
              /\ c.duration => Splices!At(Splices!TimesEnd(c), 5, "break") \in s.fields
              /\ Splices!At(Splices!ProgramAt(c), 2, "program") \in s.fields
<1>1. PICK end \in Nat : end = Splices!InsertEnd(c) /\ 20 =< end
  BY InsertLaid
<1>2. PICK s : s = Splices!InsertSection(c)
  OBVIOUS
<1>3. s.length = end + 6
  BY <1>1, <1>2 DEF Splices!InsertSection, Splices!SectionOf
<1>4. Laid(s.fields, 2, end + 2)
  <2>1. Laid(Splices!InsertFields(c), 15, end) /\ Laid({}, end + 2, end + 2)
    BY <1>1, InsertLaid, LaidNone
  <2>2. Laid(Splices!SectionOf("insert", Splices!InsertEnd(c) - Splices!HEADER,
        Splices!InsertFields(c), end, {}, end + 2).fields, 2, end + 2)
    BY <1>1, <2>1, SectionLaid
  <2> QED BY <1>1, <1>2, <2>2 DEF Splices!InsertSection
<1>5. Splices!At(2, 2, end + 2) \in s.fields /\ Splices!InsertFields(c) \subseteq s.fields
  BY <1>1, <1>2 DEF Splices!InsertSection, Splices!SectionOf
<1>6. Splices!At(15, 4, "event") \in s.fields /\ Splices!At(19, 1, c.cancel) \in s.fields
  BY <1>5 DEF Splices!InsertFields, Splices!HEADER
<1>7. ASSUME ~c.cancel
      PROVE  /\ Splices!At(20, 1, [out |-> c.out, program |-> c.program, duration |-> c.duration,
                           immediate |-> c.immediate]) \in s.fields
             /\ Splices!TimeFields(c) \subseteq s.fields
             /\ c.duration => Splices!At(Splices!TimesEnd(c), 5, "break") \in s.fields
             /\ Splices!At(Splices!ProgramAt(c), 2, "program") \in s.fields
  BY <1>5, <1>7 DEF Splices!InsertFields, Splices!FLAGS, Splices!HEADER, Splices!When
<1>8. ASSUME ~c.cancel
      PROVE  /\ c.program /\ ~c.immediate => Splices!TimeAt(21, c.timed[1], 1) \in s.fields
             /\ ~c.program => Splices!At(21, 1, Len(c.timed)) \in s.fields
             /\ ~c.program /\ ~c.immediate =>
                  \A i \in DOMAIN c.timed :
                      Splices!TimeAt(Splices!ComponentsAt(c)[i] + 1, c.timed[i], i) \in s.fields
  BY <1>7, <1>8 DEF Splices!TimeFields, Splices!FLAGS, Splices!HEADER, Splices!When
<1> QED BY <1>1, <1>2, <1>3, <1>4, <1>5, <1>6, <1>7, <1>8

(* What is in the section of a time_signal.                                *)
LEMMA SignalHolds ==
  ASSUME Segmentations \subseteq Splices!Kinds, NEW s \in Splices!Signals, NEW known \in BOOLEAN,
         NEW n \in Nat, n = Len(s.descriptors), NEW loops \in Nat,
             loops = Splices!DescriptorsAt(s)[n + 1]
  PROVE  LET x == Splices!SignalSection(s, known)
             size == Splices!TimeSize(s.timed) IN
         /\ x.length = loops + 4 /\ 15 + size + 2 =< loops
         /\ Laid(x.fields, 2, loops)
         /\ Splices!At(2, 2, loops) \in x.fields
         /\ Splices!At(11, 3, IF known THEN size ELSE 4095) \in x.fields
         /\ Splices!TimeAt(15, s.timed, 1) \in x.fields
         /\ Splices!At(15 + size, 2, loops - (15 + size) - 2) \in x.fields
         /\ \A i \in 1 .. n :
              Splices!DescriptorFields(Splices!DescriptorsAt(s)[i], s.descriptors[i])
                  \subseteq x.fields
<1>1. PICK size \in Nat : size = Splices!TimeSize(s.timed) /\ size \in {1, 5}
  BY SignalTyped
<1>2. PICK x : x = Splices!SignalSection(s, known)
  OBVIOUS
<1>3. x = Splices!SectionOf("signal", IF known THEN size ELSE 4095,
      {Splices!TimeAt(15, s.timed, 1)}, 15 + size,
                    Splices!LoopFields(s), loops)
  BY <1>1, <1>2 DEF Splices!SignalSection, Splices!HEADER
<1>4. x.length = loops + 4
  BY <1>3 DEF Splices!SectionOf
<1>5. PICK f : f = Splices!DescriptorsAt(s)
  OBVIOUS
<1>6. /\ f \in [1 .. n + 1 -> Nat] /\ f[1] = 15 + size + 2
      /\ \A i \in 1 .. n : \A j \in 1 .. n + 1 :
           i < j => f[i] + Splices!DescriptorSize(s.descriptors[i]) =< f[j]
  BY <1>1, <1>5, DescriptorsPlaced
<1>7. f[1] =< loops
  <2>1. CASE n = 0
    BY <2>1, <1>5, <1>6
  <2>2. CASE n # 0
    <3>1. 1 \in 1 .. n /\ n + 1 \in 1 .. n + 1 /\ 1 < n + 1
      BY <2>2
    <3>2. f[1] + Splices!DescriptorSize(s.descriptors[1]) =< loops
      BY <3>1, <1>5, <1>6
    <3>3. Splices!DescriptorSize(s.descriptors[1]) \in Nat
      BY <3>1, SignalTyped, DescriptorPlaces
    <3> QED BY <3>2, <3>3, <1>1, <1>6
  <2> QED BY <2>1, <2>2
<1>8. 15 + size + 2 =< loops
  BY <1>6, <1>7
<1>9. Laid({Splices!TimeAt(15, s.timed, 1)}, 15, 15 + size)
  <2>1. PICK first \in Int, behind \in Int : first = 15 /\ behind = 15 + size /\ first < behind
    BY <1>1
  <2>2. PICK value :
        Splices!TimeAt(first, s.timed, 1) = Splices!At(first, Splices!TimeSize(s.timed), value)
    BY DEF Splices!TimeAt
  <2>3. Laid({Splices!At(first, Splices!TimeSize(s.timed), value)}, first, behind)
    BY <2>1, LaidOne
  <2> QED BY <2>1, <2>2, <2>3
<1>10. Laid(Splices!LoopFields(s), (15 + size) + 2, loops)
  <2>1. Laid(Splices!LoopFields(s), f[1], loops)
    BY <1>5, LoopLaid
  <2> QED BY <2>1, <1>6
<1>11. Laid(x.fields, 2, loops)
  <2>1. 15 + size \in Nat /\ 15 =< 15 + size
    BY <1>1
  <2> QED BY <1>3, <1>8, <1>9, <1>10, <2>1, SectionLaid
<1>12. /\ Splices!At(2, 2, loops) \in x.fields
       /\ Splices!At(11, 3, IF known THEN size ELSE 4095) \in x.fields
       /\ Splices!TimeAt(15, s.timed, 1) \in x.fields
       /\ Splices!At(15 + size, 2, loops - (15 + size) - 2) \in x.fields
       /\ Splices!LoopFields(s) \subseteq x.fields
  BY <1>3 DEF Splices!SectionOf
<1>13. ASSUME NEW i \in 1 .. n
       PROVE  Splices!DescriptorFields(f[i], s.descriptors[i]) \subseteq x.fields
  <2>1. i \in DOMAIN s.descriptors
    BY SignalTyped
  <2>2. Splices!DescriptorFields(f[i], s.descriptors[i]) \subseteq Splices!LoopFields(s)
    BY <2>1, <1>5 DEF Splices!LoopFields
  <2> QED BY <2>2, <1>12
<1> QED BY <1>1, <1>2, <1>4, <1>5, <1>8, <1>11, <1>12, <1>13

-----------------------------------------------------------------------------
(* The parser in a splice_insert.                                          *)

(* A time, and what it needs.                                              *)
LEMMA TimeRead ==
  ASSUME NEW lo, NEW hi, Laid(section.fields, lo, hi),
         NEW timed \in BOOLEAN, NEW name, NEW p, Splices!TimeAt(p, timed, name) \in section.fields,
         NEW k \in Nat, at + k = p, at \in Nat, loopEnd \in Int
  PROVE  /\ Splices!Flags(k).timed = timed
         /\ timed /\ p + 5 =< Splices!Min({arrived, section.length})
              => Splices!Read(k, 5).time = name
         /\ Splices!TimeNeeds(k) \in Nat /\ Splices!TimeNeeds(k) =< k + Splices!TimeSize(timed)
         /\ Splices!Has(Splices!TimeNeeds(k)) => Splices!TimeNeeds(k) = k + Splices!TimeSize(timed)
<1>1. PICK value : value = IF timed THEN [timed |-> TRUE, time |-> name] ELSE [timed |-> FALSE]
  OBVIOUS
<1>2. Splices!At(p, Splices!TimeSize(timed), value) \in section.fields
  BY <1>1 DEF Splices!TimeAt
<1>3. Splices!Flags(k) = value
  BY <1>2, FlagsRead
<1>4. Splices!Flags(k).timed = timed
  <2>1. CASE timed
    BY <2>1, <1>1, <1>3
  <2>2. CASE ~timed
    <3>1. timed = FALSE
      BY <2>2
    <3>2. value = [timed |-> FALSE]
      BY <2>2, <1>1
    <3>3. value.timed = FALSE
      BY <3>2, Zenon
    <3> QED BY <3>1, <3>3, <1>3
  <2> QED BY <2>1, <2>2
<1>5. ASSUME timed, p + 5 =< Splices!Min({arrived, section.length})
      PROVE Splices!Read(k, 5).time = name
  <2>1. Splices!At(p, 5, value) \in section.fields
    BY <1>2, <1>5 DEF Splices!TimeSize
  <2>2. Splices!Read(k, 5) = value
    BY <1>5, <2>1, FieldRead
  <2> QED BY <1>1, <1>5, <2>2
<1>6. Splices!TimeNeeds(k) = IF at + (k + 1) =< loopEnd /\ timed THEN k + 5 ELSE k + 1
  BY <1>4 DEF Splices!TimeNeeds, Splices!Has
<1>7. Splices!TimeNeeds(k) \in Nat /\ Splices!TimeNeeds(k) =< k + Splices!TimeSize(timed)
  BY <1>6 DEF Splices!TimeSize
<1>8. Splices!Has(Splices!TimeNeeds(k)) => Splices!TimeNeeds(k) = k + Splices!TimeSize(timed)
  BY <1>6 DEF Splices!TimeSize, Splices!Has
<1> QED BY <1>4, <1>5, <1>7, <1>8

(* A time that is given and has arrived.                                   *)
LEMMA TimeIs ==
  ASSUME NEW lo, NEW hi, Laid(section.fields, lo, hi),
         NEW name, NEW p, NEW timed, timed, Splices!TimeAt(p, timed, name) \in section.fields,
         NEW k, at + k = p, p + 5 =< Splices!Min({arrived, section.length})
  PROVE  Splices!Read(k, 5).time = name
<1>1. PICK value : value = [timed |-> TRUE, time |-> name]
  OBVIOUS
<1>2. Splices!At(p, 5, value) \in section.fields
  BY <1>1 DEF Splices!TimeAt, Splices!TimeSize
<1>3. Splices!Read(k, 5) = value
  BY <1>2, FieldRead
<1> QED BY <1>1, <1>3

(* The cue of a splice_insert, and what has been read of it.               *)
InsertCue(id, cancel, out, immediate, time, duration, program) ==
    [command |-> "insert", event |-> id, cancel |-> cancel, out |-> out,
     immediate |-> immediate, time |-> time, duration |-> duration, program |-> program,
     upid |-> NONE, type |-> -1, direction |-> "unknown", complete |-> FALSE]
TimeOf(c) == IF c.timed # <<>> /\ ~c.immediate /\ c.timed[1] THEN 1 ELSE NONE
BreakOf(c) == IF c.duration THEN "break" ELSE NONE
Told(c, time, duration) == InsertCue("event", FALSE, c.out, c.immediate, time, duration, NONE)

Limit == Splices!Min({arrived, section.length})

(* The cue handed on: the one meant, unless bytes are missing.             *)
InsertDone(c) ==
    \/ cues = <<>> /\ arrived < section.length
    \/ \E x : cues = <<x>>
         /\ IF x.complete THEN x = Splices!InsertMeans(c) ELSE arrived < section.length

(* The parser with a splice_insert: the cursor is at the field its step    *)
(* reads, and the cue has what was read before it.                         *)
InsertReads(c) ==
    /\ pc \in {"insert", "flags", "time", "components", "component", "break", "program"}
    /\ at \in Nat /\ Splices!HEADER =< at /\ at =< loopEnd /\ loopEnd = Limit /\ cues = <<>>
    /\ pc = "insert" => at = 15 /\ cue = InsertCue(NONE, FALSE, FALSE, FALSE, NONE, NONE, NONE)
    /\ pc # "insert" => ~c.cancel
    /\ pc = "flags" => at = 20 /\ cue = InsertCue("event", FALSE, FALSE, FALSE, NONE, NONE, NONE)
    /\ pc = "time" => c.program /\ ~c.immediate /\ at = 21 /\ cue = Told(c, NONE, NONE)
    /\ pc = "components" => ~c.program /\ at = 21 /\ cue = Told(c, NONE, NONE)
    /\ pc = "component" =>
         /\ ~c.program /\ count.all = Len(c.timed) /\ 1 =< count.left
         /\ at = Splices!ComponentsAt(c)[count.all - count.left + 1]
         /\ cue = Told(c, IF count.left = count.all THEN NONE ELSE TimeOf(c), NONE)
    /\ pc = "break" => c.duration /\ at = Splices!TimesEnd(c) /\ cue = Told(c, TimeOf(c), NONE)
    /\ pc = "program" => at = Splices!ProgramAt(c) /\ cue = Told(c, TimeOf(c), BreakOf(c))
Inserting(c) ==
    /\ section = Splices!InsertSection(c) /\ promised = <<Splices!InsertMeans(c)>>
    /\ arrived \in Nat
    /\ count \in [left : Nat, all : Nat] /\ count.left =< count.all
    /\ IF pc = "idle" THEN InsertDone(c) ELSE InsertReads(c)

(* The cue that is meant is the one that is read.                          *)
LEMMA InsertMeant ==
  ASSUME NEW c \in Splices!Inserts
  PROVE  /\ c.cancel
              => Splices!InsertMeans(c) = [InsertCue("event", TRUE, FALSE, FALSE, NONE, NONE, NONE)
                                            EXCEPT !.complete = TRUE, !.direction = "unknown"]
         /\ ~c.cancel =>
              Splices!InsertMeans(c)
                  = [InsertCue("event", FALSE, c.out, c.immediate, TimeOf(c), BreakOf(c), "program")
                                  EXCEPT !.complete = TRUE,
                                      !.direction = IF c.out THEN "out" ELSE "in"]
<1>1. PICK b : b = Splices!Base
  OBVIOUS
<1>2. b = [command |-> NONE, event |-> NONE, cancel |-> FALSE, out |-> FALSE,
           immediate |-> FALSE, time |-> NONE, duration |-> NONE, program |-> NONE,
           upid |-> NONE, type |-> -1, direction |-> "unknown", complete |-> FALSE]
  BY <1>1 DEF Splices!Base
<1>3. PICK x : x = [b EXCEPT !.command = "insert", !.event = "event", !.complete = TRUE]
  OBVIOUS
<1>4. x = [command |-> "insert", event |-> "event", cancel |-> FALSE, out |-> FALSE,
           immediate |-> FALSE, time |-> NONE, duration |-> NONE, program |-> NONE,
           upid |-> NONE, type |-> -1, direction |-> "unknown", complete |-> TRUE]
  BY <1>2, <1>3
<1>5. CASE c.cancel
  <2>1. Splices!InsertMeans(c) = [x EXCEPT !.cancel = TRUE]
    BY <1>1, <1>3, <1>5 DEF Splices!InsertMeans
  <2>2. Splices!InsertMeans(c)
        = [command |-> "insert", event |-> "event", cancel |-> TRUE, out |-> FALSE,
           immediate |-> FALSE, time |-> NONE, duration |-> NONE, program |-> NONE,
           upid |-> NONE, type |-> -1, direction |-> "unknown", complete |-> TRUE]
    BY <1>4, <2>1
  <2>3. PICK y : y = InsertCue("event", TRUE, FALSE, FALSE, NONE, NONE, NONE)
    OBVIOUS
  <2>4. y = [command |-> "insert", event |-> "event", cancel |-> TRUE, out |-> FALSE,
             immediate |-> FALSE, time |-> NONE, duration |-> NONE, program |-> NONE,
             upid |-> NONE, type |-> -1, direction |-> "unknown", complete |-> FALSE]
    BY <2>3 DEF InsertCue
  <2>5. PICK z : z = [y EXCEPT !.complete = TRUE, !.direction = "unknown"]
    OBVIOUS
  <2>6. z = [command |-> "insert", event |-> "event", cancel |-> TRUE, out |-> FALSE,
             immediate |-> FALSE, time |-> NONE, duration |-> NONE, program |-> NONE,
             upid |-> NONE, type |-> -1, direction |-> "unknown", complete |-> TRUE]
    BY <2>4, <2>5
  <2> QED BY <1>5, <2>2, <2>3, <2>6, <2>5
<1>6. CASE ~c.cancel
  <2>1. Splices!InsertMeans(c) = [x EXCEPT
            !.out = c.out, !.immediate = c.immediate, !.program = "program",
            !.duration = BreakOf(c), !.time = TimeOf(c),
            !.direction = IF c.out THEN "out" ELSE "in"]
    BY <1>1, <1>3, <1>6 DEF Splices!InsertMeans, TimeOf, BreakOf
  <2>2. PICK d : d = IF c.out THEN "out" ELSE "in"
    OBVIOUS
  <2>3. PICK t, e : t = TimeOf(c) /\ e = BreakOf(c)
    OBVIOUS
  <2>4. Splices!InsertMeans(c)
        = [command |-> "insert", event |-> "event", cancel |-> FALSE, out |-> c.out,
           immediate |-> c.immediate, time |-> t, duration |-> e, program |-> "program",
           upid |-> NONE, type |-> -1, direction |-> d, complete |-> TRUE]
    BY <1>4, <2>1, <2>2, <2>3
  <2>5. PICK y : y = InsertCue("event", FALSE, c.out, c.immediate, t, e, "program")
    OBVIOUS
  <2>6. y = [command |-> "insert", event |-> "event", cancel |-> FALSE, out |-> c.out,
             immediate |-> c.immediate, time |-> t, duration |-> e, program |-> "program",
             upid |-> NONE, type |-> -1, direction |-> "unknown", complete |-> FALSE]
    BY <2>5 DEF InsertCue
  <2>7. PICK z : z = [y EXCEPT !.complete = TRUE, !.direction = d]
    OBVIOUS
  <2>8. z = [command |-> "insert", event |-> "event", cancel |-> FALSE, out |-> c.out,
             immediate |-> c.immediate, time |-> t, duration |-> e, program |-> "program",
             upid |-> NONE, type |-> -1, direction |-> d, complete |-> TRUE]
    BY <2>6, <2>7
  <2> QED BY <1>6, <2>2, <2>3, <2>4, <2>5, <2>8, <2>7
<1> QED BY <1>5, <1>6

(* The section of an insert and the limit of what is read.                 *)
LEMMA InsertContext ==
  ASSUME NEW c \in Splices!Inserts, Inserting(c)
  PROVE  /\ Splices!InsertEnd(c) \in Nat /\ 20 =< Splices!InsertEnd(c)
         /\ section.length = Splices!InsertEnd(c) + 6
         /\ Laid(section.fields, 2, Splices!InsertEnd(c) + 2)
         /\ Limit \in Nat /\ Limit =< section.length /\ Limit =< arrived
         /\ Limit < section.length => arrived < section.length
<1>1. section = Splices!InsertSection(c) /\ arrived \in Nat
  BY DEF Inserting
<1>2. /\ Splices!InsertEnd(c) \in Nat /\ 20 =< Splices!InsertEnd(c)
      /\ section.length = Splices!InsertEnd(c) + 6
      /\ Laid(section.fields, 2, Splices!InsertEnd(c) + 2)
  BY <1>1, InsertHolds
<1>3. section.length \in Nat
  BY <1>2
<1>4. PICK l \in Nat, a \in Nat : l = section.length /\ a = arrived
  BY <1>1, <1>3
<1>5. /\ Splices!Min({a, l}) \in {a, l} /\ Splices!Min({a, l}) =< a /\ Splices!Min({a, l}) =< l
      /\ Splices!Min({a, l}) = IF a =< l THEN a ELSE l
  <2>1. a \in Int /\ l \in Int
    OBVIOUS
  <2> QED BY <2>1, MinOfTwo, Zenon
<1>6. Limit = Splices!Min({a, l})
  BY <1>4 DEF Limit
<1>7. Limit \in Nat /\ Limit =< l /\ Limit =< a /\ (Limit < l => a < l)
  BY <1>5, <1>6
<1> QED BY <1>2, <1>4, <1>7

(* What each step needs is in the section.                                 *)
LEMMA NeedsSent ==
  ASSUME NEW c \in Splices!Inserts, Inserting(c), Splices!InInsert
  PROVE  Splices!Needs \in Nat /\ at + Splices!Needs =< section.length
<1>1. InsertReads(c) /\ section = Splices!InsertSection(c)
  BY DEF Inserting, Splices!InInsert
<1>2. /\ Splices!InsertEnd(c) \in Nat /\ 20 =< Splices!InsertEnd(c)
      /\ section.length = Splices!InsertEnd(c) + 6
      /\ Laid(section.fields, 2, Splices!InsertEnd(c) + 2)
      /\ at \in Nat /\ loopEnd \in Int
  BY <1>1, InsertContext DEF InsertReads
<1>3. CASE pc = "insert"
  <2>1. Splices!Needs = 5 /\ at = 15
    BY <1>1, <1>3 DEF Splices!Needs, InsertReads
  <2> QED BY <1>2, <2>1
<1>4. CASE pc # "insert"
  <2>1. ~c.cancel
    BY <1>1, <1>4 DEF InsertReads
  <2>2. PICK t \in Nat : /\ t = Splices!TimesEnd(c) /\ 21 =< t
                         /\ c.program /\ ~c.immediate => t = 21 + Splices!TimeSize(c.timed[1])
                         /\ ~c.program => t = Splices!ComponentsAt(c)[Len(c.timed) + 1] /\ 22 =< t
    BY <2>1, InsertPlaces
  <2>3. Splices!ProgramAt(c) \in Nat /\ Splices!InsertEnd(c) = Splices!ProgramAt(c) + 4
    BY <2>1, InsertPlaces
  <2>4. Splices!ProgramAt(c) = IF c.duration THEN Splices!TimesEnd(c) + 5 ELSE Splices!TimesEnd(c)
    BY <2>1, InsertPlaces
  <2>5. PICK p \in Nat : p = Splices!ProgramAt(c)
    BY <2>3
  <2>6. p = (IF c.duration THEN t + 5 ELSE t) /\ p + 10 = section.length
    BY <1>2, <2>2, <2>3, <2>4, <2>5
  <2>7. t =< p /\ t + 10 =< section.length /\ p + 10 = section.length
    BY <2>6
  <2>8. CASE pc = "flags"
    <3>1. Splices!Needs = 1 /\ at = 20
      BY <1>1, <2>8 DEF Splices!Needs, InsertReads
    <3> QED BY <3>1, <2>2, <2>7
  <2>9. CASE pc = "time"
    <3>1. Splices!Needs = Splices!TimeNeeds(0) /\ at = 21 /\ c.program /\ ~c.immediate
      BY <1>1, <2>9 DEF Splices!Needs, InsertReads
    <3>2. c.timed[1] \in BOOLEAN
      BY <2>1, <3>1, InsertTyped, ElementOfSeq
    <3>3. Splices!TimeAt(21, c.timed[1], 1) \in section.fields
      BY <1>1, <2>1, <3>1, InsertHolds
    <3>4. at + 0 = 21 /\ 0 \in Nat
      BY <3>1
    <3>5. Splices!TimeNeeds(0) \in Nat /\ Splices!TimeNeeds(0) =< 0 + Splices!TimeSize(c.timed[1])
      BY <1>2, <3>2, <3>3, <3>4, TimeRead
    <3>6. Splices!Needs \in Nat /\ Splices!Needs =< Splices!TimeSize(c.timed[1])
      BY <3>1, <3>5 DEF Splices!TimeSize
    <3>7. t = 21 + Splices!TimeSize(c.timed[1]) /\ Splices!TimeSize(c.timed[1]) \in {1, 5}
      BY <2>2, <3>1 DEF Splices!TimeSize
    <3> QED BY <3>1, <3>6, <3>7, <2>2, <2>7
  <2>10. CASE pc = "components"
    <3>1. Splices!Needs = 1 /\ at = 21
      BY <1>1, <2>10 DEF Splices!Needs, InsertReads
    <3> QED BY <3>1, <2>2, <2>7
  <2>11. CASE pc = "component"
    <3>1. PICK n \in Nat : n = Len(c.timed)
      BY <2>1, InsertTyped, LenProperties
    <3>2. PICK f : f = Splices!ComponentsAt(c)
      OBVIOUS
    <3>3. PICK i \in 1 .. n : at = f[i] /\ ~c.program /\ cue.immediate = c.immediate
      <4>1. count \in [left : Nat, all : Nat] /\ count.left =< count.all
        BY DEF Inserting
      <4>2. count.all = n /\ 1 =< count.left /\ at = f[count.all - count.left + 1] /\ ~c.program
            /\ cue.immediate = c.immediate
        BY <1>1, <2>11, <3>1, <3>2 DEF InsertReads, Told, InsertCue
      <4>3. n - count.left + 1 \in 1 .. n
        BY <4>1, <4>2
      <4> QED BY <4>2, <4>3
    <3>4. /\ f[i + 1] = f[i] + IF c.immediate THEN 1 ELSE 1 + Splices!TimeSize(c.timed[i])
          /\ f[i] \in Nat /\ f[i + 1] \in Nat /\ c.timed[i] \in BOOLEAN /\ i \in DOMAIN c.timed
      <4>1. /\ DOMAIN c.timed = 1 .. n /\ \A k \in 1 .. n : c.timed[k] \in BOOLEAN
            /\ f \in [1 .. n + 1 -> Nat]
        BY <2>1, <3>1, <3>2, ComponentsPlaced
      <4>2. \A k \in 1 .. n : f[k + 1] = f[k] +
            IF c.immediate THEN 1 ELSE 1 + Splices!TimeSize(c.timed[k])
        BY <2>1, <3>1, <3>2, ComponentsPlaced
      <4>3. i \in 1 .. n + 1 /\ i + 1 \in 1 .. n + 1
        BY <3>3
      <4> QED BY <4>1, <4>2, <4>3
    <3>5. f[i + 1] =< t
      <4>1. CASE i = n
        BY <4>1, <2>2, <3>1, <3>2, <3>3
      <4>2. CASE i # n
        <5>1. i + 1 \in 1 .. n /\ n + 1 \in 1 .. n + 1 /\ i + 1 < n + 1
          BY <4>2
        <5> QED BY <5>1, <2>1, <2>2, <3>1, <3>2, <3>3, ComponentsPlaced
      <4> QED BY <4>1, <4>2
    <3>6. c.immediate \in BOOLEAN
      BY <2>1, InsertTyped
    <3>7. Splices!Needs = IF Splices!Has(1) /\ ~c.immediate THEN Splices!TimeNeeds(1) ELSE 1
      BY <2>11, <3>3 DEF Splices!Needs
    <3>8. CASE c.immediate
      BY <2>2, <2>7, <3>3, <3>4, <3>5, <3>7, <3>8
    <3>9. CASE ~c.immediate
      <4>1. Splices!TimeAt(f[i] + 1, c.timed[i], i) \in section.fields
        BY <1>1, <2>1, <3>2, <3>3, <3>4, <3>9, InsertHolds
      <4>2. Splices!TimeNeeds(1) \in Nat /\ Splices!TimeNeeds(1) =< 1 + Splices!TimeSize(c.timed[i])
        <5>1. at + 1 = f[i] + 1 /\ 1 \in Nat
          BY <3>3
        <5> QED BY <1>2, <3>4, <4>1, <5>1, TimeRead
      <4>3. Splices!TimeSize(c.timed[i]) \in {1, 5}
        BY DEF Splices!TimeSize
      <4>4. Splices!Needs \in Nat /\ Splices!Needs =< 1 + Splices!TimeSize(c.timed[i])
        BY <3>7, <3>9, <4>2, <4>3
      <4>5. f[i] + Splices!Needs =< f[i + 1]
        BY <3>4, <3>9, <4>3, <4>4
      <4> QED BY <2>2, <2>7, <3>3, <3>4, <3>5, <4>4, <4>5
    <3> QED BY <3>6, <3>8, <3>9
  <2>12. CASE pc = "break"
    <3>1. Splices!Needs = 5 /\ at = t /\ p = t + 5
      BY <1>1, <2>2, <2>6, <2>12 DEF Splices!Needs, InsertReads
    <3> QED BY <3>1, <2>2, <2>7
  <2>13. CASE pc = "program"
    <3>1. Splices!Needs = 2 /\ at = p
      BY <1>1, <2>5, <2>13 DEF Splices!Needs, InsertReads
    <3> QED BY <3>1, <2>2, <2>7
  <2> QED BY <1>4, <2>8, <2>9, <2>10, <2>11, <2>12, <2>13 DEF Splices!InInsert
<1> QED BY <1>3, <1>4

(* A cue that is not complete is handed on only when bytes are missing.    *)
LEMMA TruncatedStep ==
  ASSUME NEW c \in Splices!Inserts, Inserting(c), Splices!Truncated
  PROVE  Inserting(c)'
<1>1. InsertReads(c) /\ Splices!InInsert /\ ~Splices!Has(Splices!Needs)
  BY DEF Inserting, Splices!InInsert, Splices!Truncated
<1>2. Splices!Needs \in Nat /\ at + Splices!Needs =< section.length /\ at \in Nat /\ loopEnd = Limit
  BY <1>1, NeedsSent DEF InsertReads
<1>3. Limit \in Nat /\ (Limit < section.length => arrived < section.length)
      /\ section.length \in Nat
  BY InsertContext
<1>4. arrived < section.length
  BY <1>1, <1>2, <1>3 DEF Splices!Has
<1>5. "complete" \in DOMAIN cue
  BY <1>1 DEF InsertReads, Told, InsertCue
<1>6. PICK x : /\ x = [cue EXCEPT !.complete = FALSE,
                                  !.direction = IF cue.cancel THEN "unknown"
                                                ELSE IF cue.out THEN "out" ELSE "in"]
               /\ cues' = Append(cues, x)
  BY DEF Splices!Truncated, Splices!HandOn
<1>7. x.complete = FALSE
  BY <1>5, <1>6
<1>8. cues' = <<x>> /\ pc' = "idle"
  BY <1>1, <1>6 DEF InsertReads, Splices!Truncated, Splices!HandOn
<1>9. UNCHANGED <<section, arrived, promised, count>>
  BY DEF Splices!Truncated, Splices!packet
<1>10. InsertDone(c)'
  BY <1>4, <1>7, <1>8, <1>9 DEF InsertDone
<1> QED BY <1>8, <1>9, <1>10 DEF Inserting

(* Filling in fields of the cue.                                           *)
WithEvent(y, v, w) == [y EXCEPT !.event = v, !.cancel = w]
WithFlags(y, v, w) == [y EXCEPT !.out = v, !.immediate = w]
WithTime(y, v) == [y EXCEPT !.time = v]
WithDuration(y, v) == [y EXCEPT !.duration = v]
WithProgram(y, v) == [y EXCEPT !.program = v]

(* The event and whether it is cancelled are filled in.                    *)
LEMMA EventFilled ==
  ASSUME NEW id, NEW cancel, NEW out, NEW immediate, NEW time, NEW duration, NEW program, NEW v,
         NEW w
  PROVE  WithEvent(InsertCue(id, cancel, out, immediate, time, duration, program), v, w)
           = InsertCue(v, w, out, immediate, time, duration, program)
<1>1. PICK y : y = InsertCue(id, cancel, out, immediate, time, duration, program)
  OBVIOUS
<1>2. y = [command |-> "insert", event |-> id, cancel |-> cancel, out |-> out,
           immediate |-> immediate, time |-> time, duration |-> duration, program |-> program,
           upid |-> NONE, type |-> -1, direction |-> "unknown", complete |-> FALSE]
  BY <1>1 DEF InsertCue
<1>3. PICK z : z = WithEvent(y, v, w)
  OBVIOUS
<1>4. z = InsertCue(v, w, out, immediate, time, duration, program)
  BY <1>2, <1>3 DEF InsertCue, WithEvent
<1> QED BY <1>1, <1>3, <1>4

(* The flags are filled in.                                                *)
LEMMA FlagsFilled ==
  ASSUME NEW id, NEW cancel, NEW out, NEW immediate, NEW time, NEW duration, NEW program, NEW v,
         NEW w
  PROVE  WithFlags(InsertCue(id, cancel, out, immediate, time, duration, program), v, w)
           = InsertCue(id, cancel, v, w, time, duration, program)
<1>1. PICK y : y = InsertCue(id, cancel, out, immediate, time, duration, program)
  OBVIOUS
<1>2. y = [command |-> "insert", event |-> id, cancel |-> cancel, out |-> out,
           immediate |-> immediate, time |-> time, duration |-> duration, program |-> program,
           upid |-> NONE, type |-> -1, direction |-> "unknown", complete |-> FALSE]
  BY <1>1 DEF InsertCue
<1>3. PICK z : z = WithFlags(y, v, w)
  OBVIOUS
<1>4. z = InsertCue(id, cancel, v, w, time, duration, program)
  BY <1>2, <1>3 DEF InsertCue, WithFlags
<1> QED BY <1>1, <1>3, <1>4

(* The time is filled in.                                                  *)
LEMMA TimeFilled ==
  ASSUME NEW id, NEW cancel, NEW out, NEW immediate, NEW time, NEW duration, NEW program, NEW v
  PROVE  WithTime(InsertCue(id, cancel, out, immediate, time, duration, program), v)
           = InsertCue(id, cancel, out, immediate, v, duration, program)
<1>1. PICK y : y = InsertCue(id, cancel, out, immediate, time, duration, program)
  OBVIOUS
<1>2. y = [command |-> "insert", event |-> id, cancel |-> cancel, out |-> out,
           immediate |-> immediate, time |-> time, duration |-> duration, program |-> program,
           upid |-> NONE, type |-> -1, direction |-> "unknown", complete |-> FALSE]
  BY <1>1 DEF InsertCue
<1>3. PICK z : z = WithTime(y, v)
  OBVIOUS
<1>4. z = InsertCue(id, cancel, out, immediate, v, duration, program)
  BY <1>2, <1>3 DEF InsertCue, WithTime
<1> QED BY <1>1, <1>3, <1>4

(* The duration is filled in.                                              *)
LEMMA DurationFilled ==
  ASSUME NEW id, NEW cancel, NEW out, NEW immediate, NEW time, NEW duration, NEW program, NEW v
  PROVE  WithDuration(InsertCue(id, cancel, out, immediate, time, duration, program), v)
           = InsertCue(id, cancel, out, immediate, time, v, program)
<1>1. PICK y : y = InsertCue(id, cancel, out, immediate, time, duration, program)
  OBVIOUS
<1>2. y = [command |-> "insert", event |-> id, cancel |-> cancel, out |-> out,
           immediate |-> immediate, time |-> time, duration |-> duration, program |-> program,
           upid |-> NONE, type |-> -1, direction |-> "unknown", complete |-> FALSE]
  BY <1>1 DEF InsertCue
<1>3. PICK z : z = WithDuration(y, v)
  OBVIOUS
<1>4. z = InsertCue(id, cancel, out, immediate, time, v, program)
  BY <1>2, <1>3 DEF InsertCue, WithDuration
<1> QED BY <1>1, <1>3, <1>4

(* The program is filled in.                                               *)
LEMMA ProgramFilled ==
  ASSUME NEW id, NEW cancel, NEW out, NEW immediate, NEW time, NEW duration, NEW program, NEW v
  PROVE  WithProgram(InsertCue(id, cancel, out, immediate, time, duration, program), v)
           = InsertCue(id, cancel, out, immediate, time, duration, v)
<1>1. PICK y : y = InsertCue(id, cancel, out, immediate, time, duration, program)
  OBVIOUS
<1>2. y = [command |-> "insert", event |-> id, cancel |-> cancel, out |-> out,
           immediate |-> immediate, time |-> time, duration |-> duration, program |-> program,
           upid |-> NONE, type |-> -1, direction |-> "unknown", complete |-> FALSE]
  BY <1>1 DEF InsertCue
<1>3. PICK z : z = WithProgram(y, v)
  OBVIOUS
<1>4. z = InsertCue(id, cancel, out, immediate, time, duration, v)
  BY <1>2, <1>3 DEF InsertCue, WithProgram
<1> QED BY <1>1, <1>3, <1>4

(* The cue that is told, with its time.                                    *)
LEMMA ToldTime ==
  ASSUME NEW c, NEW time, NEW v
  PROVE  Told(c, v, NONE) = WithTime(Told(c, time, NONE), v)
<1>1. PICK f : f = FALSE
  OBVIOUS
<1>2. WithTime(InsertCue("event", f, c.out, c.immediate, time, NONE, NONE), v)
        = InsertCue("event", f, c.out, c.immediate, v, NONE, NONE)
  BY TimeFilled
<1> QED BY <1>1, <1>2 DEF Told

(* The cue that is told, with its duration.                                *)
LEMMA ToldDuration ==
  ASSUME NEW c, NEW time, NEW v
  PROVE  Told(c, time, v) = WithDuration(Told(c, time, NONE), v)
<1>1. PICK f : f = FALSE
  OBVIOUS
<1>2. WithDuration(InsertCue("event", f, c.out, c.immediate, time, NONE, NONE), v)
        = InsertCue("event", f, c.out, c.immediate, time, v, NONE)
  BY DurationFilled
<1> QED BY <1>1, <1>2 DEF Told

(* The cue that is told, with its program.                                 *)
LEMMA ToldProgram ==
  ASSUME NEW c, NEW time, NEW duration
  PROVE  WithProgram(Told(c, time, duration), "program")
           = InsertCue("event", FALSE, c.out, c.immediate, time, duration, "program")
<1>1. PICK f : f = FALSE
  OBVIOUS
<1>2. WithProgram(InsertCue("event", f, c.out, c.immediate, time, duration, NONE), "program")
        = InsertCue("event", f, c.out, c.immediate, time, duration, "program")
  BY ProgramFilled
<1> QED BY <1>1, <1>2 DEF Told

(* A step that has its bytes stays before the end.                         *)
LEMMA Stepped ==
  ASSUME NEW c \in Splices!Inserts, Inserting(c), NEW here, NEW n, Splices!Step(here, n),
         here # "idle"
  PROVE  /\ pc = here /\ Splices!Has(Splices!Needs) /\ at' = at + n
         /\ UNCHANGED <<section, arrived, promised, loopEnd>> /\ Limit' = Limit
         /\ InsertReads(c) /\ section = Splices!InsertSection(c) /\ at \in Nat /\ 15 =< at
         /\ loopEnd = Limit /\ loopEnd \in Nat /\ cues = <<>>
         /\ n \in Nat /\ at + n =< loopEnd => at' \in Nat /\ 15 =< at' /\ at' =< loopEnd'
<1>1. pc = here /\ Splices!Has(Splices!Needs) /\ at' = at + n
      /\ UNCHANGED <<section, arrived, promised, loopEnd>>
  BY DEF Splices!Step, Splices!packet
<1>2. InsertReads(c) /\ section = Splices!InsertSection(c)
  BY <1>1 DEF Inserting
<1>3. at \in Nat /\ 15 =< at /\ loopEnd = Limit /\ cues = <<>>
  BY <1>2 DEF InsertReads, Splices!HEADER
<1>4. Limit \in Nat
  BY InsertContext
<1>5. Limit' = Limit
  BY <1>1 DEF Limit
<1>6. n \in Nat /\ at + n =< loopEnd => at' \in Nat /\ 15 =< at' /\ at' =< loopEnd'
  BY <1>1, <1>3, <1>4
<1> QED BY <1>1, <1>2, <1>3, <1>4, <1>5, <1>6

(* The event and whether it is cancelled.                                  *)
LEMMA EventIdStep ==
  ASSUME NEW c \in Splices!Inserts, Inserting(c), Splices!EventId
  PROVE  Inserting(c)'
<1>1. /\ pc = "insert" /\ Splices!Has(Splices!Needs) /\ at' = at + 5
      /\ UNCHANGED <<section, arrived, promised, loopEnd>> /\ Limit' = Limit
      /\ InsertReads(c) /\ section = Splices!InsertSection(c)
      /\ loopEnd = Limit /\ loopEnd \in Nat /\ cues = <<>>
  BY Stepped DEF Splices!EventId
<1>2. at = 15 /\ cue = InsertCue(NONE, FALSE, FALSE, FALSE, NONE, NONE, NONE)
  BY <1>1 DEF InsertReads
<1>3. 20 =< loopEnd
  BY <1>1, <1>2 DEF Splices!Needs, Splices!Has
<1>4. Laid(section.fields, 2, Splices!InsertEnd(c) + 2)
      /\ Splices!At(15, 4, "event") \in section.fields
      /\ Splices!At(19, 1, c.cancel) \in section.fields
  BY <1>1, InsertHolds
<1>5. Splices!Flags(4) = c.cancel
  <2>1. at + 4 = 19
    BY <1>2
  <2> QED BY <1>4, <2>1, FlagsRead
<1>6. Splices!Read(0, 4) = "event"
  <2>1. at + 0 = 15 /\ 15 + 4 =< Splices!Min({arrived, section.length})
    BY <1>1, <1>2, <1>3 DEF Limit
  <2> QED BY <1>4, <2>1, FieldRead
<1>7. cue' = InsertCue("event", c.cancel, FALSE, FALSE, NONE, NONE, NONE)
  <2>1. cue' = [cue EXCEPT !.event = "event", !.cancel = c.cancel]
    BY <1>5, <1>6 DEF Splices!EventId
  <2>2. PICK f : f = FALSE
    OBVIOUS
  <2>3. \A e, x : WithEvent(InsertCue(NONE, f, f, f, NONE, NONE, NONE), e, x)
                   = InsertCue(e, x, f, f, NONE, NONE, NONE)
    BY EventFilled
  <2> QED BY <1>2, <2>1, <2>2, <2>3 DEF WithEvent
<1>8. UNCHANGED count
  BY DEF Splices!EventId
<1>9. CASE c.cancel
  <2>1. Splices!HandOn(cue', TRUE)
    BY <1>5, <1>9 DEF Splices!EventId
  <2>2. c.cancel = TRUE
    BY <1>9, InsertTyped
  <2>3. PICK y : y = InsertCue("event", TRUE, FALSE, FALSE, NONE, NONE, NONE)
    OBVIOUS
  <2>4. cue' = y /\ y.cancel
    BY <1>7, <2>2, <2>3 DEF InsertCue
  <2>5. cues' = Append(cues, [y EXCEPT !.complete = TRUE, !.direction = "unknown"])
    BY <2>1, <2>4 DEF Splices!HandOn
  <2>6. [y EXCEPT !.complete = TRUE, !.direction = "unknown"] = Splices!InsertMeans(c)
    BY <1>9, <2>3, InsertMeant
  <2>7. cues' = <<Splices!InsertMeans(c)>>
    BY <1>1, <2>5, <2>6
  <2>8. Splices!InsertMeans(c).complete
    <3>1. "complete" \in DOMAIN y
      BY <2>3 DEF InsertCue
    <3>2. PICK z : z = [y EXCEPT !.complete = TRUE, !.direction = "unknown"]
      OBVIOUS
    <3>3. z.complete = TRUE
      BY <3>1, <3>2
    <3> QED BY <2>6, <3>2, <3>3
  <2>9. InsertDone(c)'
    BY <2>7, <2>8 DEF InsertDone
  <2>10. pc' = "idle"
    BY <2>1 DEF Splices!HandOn
  <2> QED BY <1>1, <1>8, <2>9, <2>10 DEF Inserting
<1>10. CASE ~c.cancel
  <2>1. pc' = "flags" /\ cues' = <<>>
    BY <1>1, <1>5, <1>10 DEF Splices!EventId, Splices!GoesOn
  <2>2. c.cancel = FALSE
    BY <1>10, InsertTyped
  <2>3. at' = 20
    BY <1>1, <1>2
  <2>4. cue' = InsertCue("event", FALSE, FALSE, FALSE, NONE, NONE, NONE)
    BY <1>7, <2>2
  <2>5. at' \in Nat /\ 15 =< at' /\ at' =< loopEnd' /\ loopEnd' = Limit'
    BY <1>1, <1>3, <2>3
  <2>6. InsertReads(c)'
    BY <1>10, <2>1, <2>3, <2>4, <2>5 DEF InsertReads, Splices!HEADER
  <2>7. pc' # "idle"
    BY <2>1
  <2> QED BY <1>1, <1>8, <2>6, <2>7 DEF Inserting
<1> QED BY <1>9, <1>10

(* Behind the times, where the parser goes on by the flags.                *)
LEMMA BehindTimes ==
  ASSUME NEW c \in Splices!Inserts, Inserting(c), ~c.cancel,
         pc' = Splices!AfterTimes, at' = Splices!TimesEnd(c), at' =< loopEnd',
             cue' = Told(c, TimeOf(c), NONE),
         UNCHANGED <<section, arrived, promised, loopEnd, cues>>, loopEnd = Limit, cues = <<>>,
         count' \in [left : Nat, all : Nat], count'.left =< count'.all
  PROVE  Inserting(c)'
<1>1. section = Splices!InsertSection(c)
  BY DEF Inserting
<1>2. /\ Laid(section.fields, 2, Splices!InsertEnd(c) + 2)
      /\ Splices!At(20, 1, [out |-> c.out, program |-> c.program, duration |-> c.duration,
                    immediate |-> c.immediate]) \in section.fields
  BY <1>1, InsertHolds
<1>3. Splices!FieldAt(20).value = [out |-> c.out, program |-> c.program, duration |-> c.duration,
                           immediate |-> c.immediate]
  BY <1>2, FieldIs
<1>4. Splices!AfterTimes = IF c.duration THEN "break" ELSE "program"
  BY <1>3 DEF Splices!AfterTimes, Splices!FLAGS, Splices!HEADER
<1>5. /\ Splices!TimesEnd(c) \in Nat /\ 21 =< Splices!TimesEnd(c)
      /\ Splices!ProgramAt(c) = IF c.duration THEN Splices!TimesEnd(c) + 5 ELSE Splices!TimesEnd(c)
  BY InsertPlaces
<1>6. Limit' = Limit
  BY DEF Limit
<1>7. InsertReads(c)'
  <2>1. CASE c.duration
    <3>1. pc' = "break"
      BY <1>4, <2>1
    <3> QED BY <1>5, <1>6, <2>1, <3>1 DEF InsertReads, Splices!HEADER
  <2>2. CASE ~c.duration
    <3>1. pc' = "program"
      BY <1>4, <2>2
    <3>2. BreakOf(c) = NONE /\ at' = Splices!ProgramAt(c)
      BY <1>5, <2>2 DEF BreakOf
    <3> QED BY <1>5, <1>6, <3>1, <3>2 DEF InsertReads, Splices!HEADER
  <2> QED BY <2>1, <2>2
<1>8. pc' # "idle"
  BY <1>4
<1> QED BY <1>7, <1>8 DEF Inserting

(* The flags.                                                              *)
LEMMA InsertFlagsStep ==
  ASSUME NEW c \in Splices!Inserts, Inserting(c), Splices!InsertFlags
  PROVE  Inserting(c)'
<1>1. /\ pc = "flags" /\ Splices!Has(Splices!Needs) /\ at' = at + 1
      /\ UNCHANGED <<section, arrived, promised, loopEnd>> /\ Limit' = Limit
      /\ InsertReads(c) /\ section = Splices!InsertSection(c)
      /\ loopEnd = Limit /\ loopEnd \in Nat /\ cues = <<>>
  BY Stepped DEF Splices!InsertFlags
<1>2. ~c.cancel /\ at = 20 /\ cue = InsertCue("event", FALSE, FALSE, FALSE, NONE, NONE, NONE)
  BY <1>1 DEF InsertReads
<1>3. 21 =< loopEnd /\ at' = 21
  BY <1>1, <1>2 DEF Splices!Needs, Splices!Has
<1>4. PICK f : f = [out |-> c.out, program |-> c.program, duration |-> c.duration,
                    immediate |-> c.immediate]
  OBVIOUS
<1>5. Splices!Flags(0) = f
  <2>1. at + 0 = 20 /\ Laid(section.fields, 2, Splices!InsertEnd(c) + 2)
        /\ Splices!At(20, 1, f) \in section.fields
    BY <1>1, <1>2, <1>4, InsertHolds
  <2> QED BY <2>1, FlagsRead
<1>6. cue' = Told(c, NONE, NONE)
  <2>1. f.out = c.out /\ f.immediate = c.immediate
    BY <1>4
  <2>2. cue' = [cue EXCEPT !.out = Splices!Flags(0).out, !.immediate = Splices!Flags(0).immediate]
    BY DEF Splices!InsertFlags
  <2>3. cue' = [cue EXCEPT !.out = c.out, !.immediate = c.immediate]
    BY <1>5, <2>1, <2>2
  <2>4. PICK g : g = FALSE
    OBVIOUS
  <2>5. \A x, y : WithFlags(InsertCue("event", g, g, g, NONE, NONE, NONE), x, y)
                   = InsertCue("event", g, x, y, NONE, NONE, NONE)
    BY FlagsFilled
  <2> QED BY <1>2, <2>3, <2>4, <2>5 DEF Told, WithFlags
<1>7. UNCHANGED <<count, cues>>
  BY DEF Splices!InsertFlags, Splices!GoesOn
<1>8. pc' = IF ~c.program THEN "components" ELSE IF ~c.immediate THEN "time" ELSE Splices!AfterTimes
  <2>1. f.program = c.program /\ f.immediate = c.immediate
    BY <1>4
  <2> QED BY <1>5, <2>1 DEF Splices!InsertFlags, Splices!GoesOn
<1>9. c.program \in BOOLEAN /\ c.immediate \in BOOLEAN
  BY <1>2, InsertTyped
<1>10. count \in [left : Nat, all : Nat] /\ count.left =< count.all
  BY DEF Inserting
<1>11. CASE c.program /\ c.immediate
  <2>1. at' = Splices!TimesEnd(c)
    BY <1>2, <1>3, <1>11, InsertPlaces
  <2>2. TimeOf(c) = NONE
    BY <1>11 DEF TimeOf
  <2>3. pc' = Splices!AfterTimes
    BY <1>8, <1>11
  <2> QED BY <1>1, <1>2, <1>3, <1>6, <1>7, <1>10, <2>1, <2>2, <2>3, BehindTimes
<1>12. CASE c.program /\ ~c.immediate
  <2>1. pc' = "time"
    BY <1>8, <1>12
  <2>2. InsertReads(c)'
    BY <1>1, <1>2, <1>3, <1>6, <1>7, <1>12, <2>1 DEF InsertReads, Splices!HEADER
  <2> QED BY <1>1, <1>7, <2>1, <2>2 DEF Inserting
<1>13. CASE ~c.program
  <2>1. pc' = "components"
    BY <1>8, <1>13
  <2>2. InsertReads(c)'
    BY <1>1, <1>2, <1>3, <1>6, <1>7, <1>13, <2>1 DEF InsertReads, Splices!HEADER
  <2> QED BY <1>1, <1>7, <2>1, <2>2 DEF Inserting
<1> QED BY <1>9, <1>11, <1>12, <1>13

(* The time of the program.                                                *)
LEMMA SpliceTimeStep ==
  ASSUME NEW c \in Splices!Inserts, Inserting(c), Splices!SpliceTime
  PROVE  Inserting(c)'
<1>1. /\ pc = "time" /\ Splices!Has(Splices!Needs) /\ at' = at + Splices!Needs
      /\ UNCHANGED <<section, arrived, promised, loopEnd>> /\ Limit' = Limit
      /\ InsertReads(c) /\ section = Splices!InsertSection(c)
      /\ loopEnd = Limit /\ loopEnd \in Nat /\ cues = <<>>
  BY Stepped DEF Splices!SpliceTime
<1>2. ~c.cancel /\ c.program /\ ~c.immediate /\ at = 21 /\ cue = Told(c, NONE, NONE)
  BY <1>1 DEF InsertReads
<1>3. PICK timed \in BOOLEAN : timed = c.timed[1] /\ c.timed # <<>>
  BY <1>2, InsertTyped, ElementOfSeq
<1>4. Splices!TimeAt(21, timed, 1) \in section.fields
      /\ Laid(section.fields, 2, Splices!InsertEnd(c) + 2)
  BY <1>1, <1>2, <1>3, InsertHolds
<1>5. at + 0 = 21 /\ at \in Nat /\ 0 \in Nat /\ loopEnd \in Int
  BY <1>1, <1>2
<1>6. /\ Splices!Flags(0).timed = timed
      /\ timed /\ 21 + 5 =< Splices!Min({arrived, section.length}) => Splices!Read(0, 5).time = 1
      /\ Splices!Has(Splices!TimeNeeds(0)) => Splices!TimeNeeds(0) = 0 + Splices!TimeSize(timed)
  <2>1. Splices!Flags(0).timed = timed
    BY <1>4, <1>5, TimeRead
  <2>2. ASSUME timed, 21 + 5 =< Splices!Min({arrived, section.length})
        PROVE Splices!Read(0, 5).time = 1
    BY <1>4, <1>5, <2>2, TimeIs
  <2>3. Splices!Has(Splices!TimeNeeds(0)) => Splices!TimeNeeds(0) = 0 + Splices!TimeSize(timed)
    BY <1>4, <1>5, TimeRead
  <2> QED BY <2>1, <2>2, <2>3
<1>7. Splices!Needs = Splices!TimeNeeds(0)
  BY <1>1 DEF Splices!Needs
<1>8. Splices!Needs = Splices!TimeSize(timed)
  BY <1>1, <1>6, <1>7 DEF Splices!TimeSize
<1>9. 21 + Splices!TimeSize(timed) =< loopEnd
  BY <1>1, <1>2, <1>8 DEF Splices!Has
<1>10. at' = Splices!TimesEnd(c) /\ at' =< loopEnd'
  <2>1. Splices!TimesEnd(c) = 21 + Splices!TimeSize(timed)
    BY <1>2, <1>3, InsertPlaces
  <2> QED BY <1>1, <1>2, <1>8, <1>9, <2>1
<1>11. cue' = Told(c, TimeOf(c), NONE)
  <2>1. CASE timed
    <3>1. 21 + 5 =< Splices!Min({arrived, section.length})
      BY <1>1, <1>9, <2>1 DEF Limit, Splices!TimeSize
    <3>2. cue' = [cue EXCEPT !.time = 1]
      BY <1>6, <2>1, <3>1 DEF Splices!SpliceTime
    <3>3. TimeOf(c) = 1
      BY <1>2, <1>3, <2>1 DEF TimeOf
    <3>4. Told(c, 1, NONE) = WithTime(Told(c, NONE, NONE), 1)
      BY ToldTime
    <3> QED BY <1>2, <3>2, <3>3, <3>4 DEF WithTime
  <2>2. CASE ~timed
    <3>1. cue' = cue
      BY <1>6, <2>2 DEF Splices!SpliceTime
    <3>2. TimeOf(c) = NONE
      BY <1>3, <2>2 DEF TimeOf
    <3> QED BY <1>2, <3>1, <3>2
  <2> QED BY <2>1, <2>2
<1>12. pc' = Splices!AfterTimes /\ UNCHANGED <<count, cues>>
  BY DEF Splices!SpliceTime, Splices!GoesOn
<1>13. count \in [left : Nat, all : Nat] /\ count.left =< count.all
  BY DEF Inserting
<1> QED BY <1>1, <1>2, <1>10, <1>11, <1>12, <1>13, BehindTimes

(* How many components there are.                                          *)
LEMMA ComponentsStep ==
  ASSUME NEW c \in Splices!Inserts, Inserting(c), Splices!Components
  PROVE  Inserting(c)'
<1>1. /\ pc = "components" /\ Splices!Has(Splices!Needs) /\ at' = at + 1
      /\ UNCHANGED <<section, arrived, promised, loopEnd>> /\ Limit' = Limit
      /\ InsertReads(c) /\ section = Splices!InsertSection(c)
      /\ loopEnd = Limit /\ loopEnd \in Nat /\ cues = <<>>
  BY Stepped DEF Splices!Components
<1>2. ~c.cancel /\ ~c.program /\ at = 21 /\ cue = Told(c, NONE, NONE)
  BY <1>1 DEF InsertReads
<1>3. 22 =< loopEnd /\ at' = 22
  BY <1>1, <1>2 DEF Splices!Needs, Splices!Has
<1>4. PICK n \in Nat : n = Len(c.timed)
  BY <1>2, InsertTyped, LenProperties
<1>5. Splices!Flags(0) = n
  <2>1. Laid(section.fields, 2, Splices!InsertEnd(c) + 2)
    BY <1>1, InsertHolds
  <2>2. Splices!At(21, 1, Len(c.timed)) \in section.fields
    BY <1>1, <1>2, InsertHolds
  <2>3. at + 0 = 21 /\ Splices!At(21, 1, n) \in section.fields
    BY <1>2, <1>4, <2>2
  <2> QED BY <2>1, <2>3, FlagsRead
<1>6. /\ count' = [left |-> n, all |-> n] /\ cue' = cue /\ cues' = cues
      /\ pc' = IF n > 0 THEN "component" ELSE Splices!AfterTimes
  BY <1>5 DEF Splices!Components, Splices!GoesOn
<1>7. PICK f : f = Splices!ComponentsAt(c)
  OBVIOUS
<1>8. f[1] = 22
  BY <1>2, <1>4, <1>7, ComponentsPlaced DEF Splices!FLAGS, Splices!HEADER
<1>9. count' \in [left : Nat, all : Nat] /\ count'.left = n /\ count'.all = n
  BY <1>4, <1>6
<1>10. CASE n = 0
  <2>1. c.timed = <<>>
    <3>1. c.timed \in Seq(BOOLEAN)
      BY <1>2, InsertTyped
    <3> QED BY <3>1, <1>4, <1>10, EmptySeq
  <2>2. TimeOf(c) = NONE
    BY <2>1 DEF TimeOf
  <2>3. at' = Splices!TimesEnd(c)
    <3>1. Splices!TimesEnd(c) = f[n + 1]
      BY <1>2, <1>4, <1>7, InsertPlaces
    <3> QED BY <3>1, <1>3, <1>8, <1>10
  <2>4. pc' = Splices!AfterTimes
    BY <1>6, <1>10
  <2>5. at' =< loopEnd'
    BY <1>1, <1>3
  <2> QED BY <1>1, <1>2, <1>6, <1>9, <2>2, <2>3, <2>4, <2>5, BehindTimes
<1>11. CASE n # 0
  <2>1. pc' = "component"
    BY <1>4, <1>6, <1>11
  <2>2. count'.all - count'.left + 1 = 1
    BY <1>4, <1>9
  <2>3. at' = Splices!ComponentsAt(c)[count'.all - count'.left + 1]
    BY <1>3, <1>7, <1>8, <2>2
  <2>4. at' \in Nat /\ 15 =< at' /\ at' =< loopEnd' /\ loopEnd' = Limit' /\ cues' = <<>>
    BY <1>1, <1>3, <1>6
  <2>5. 1 =< count'.left /\ count'.all = Len(c.timed) /\ cue' = Told(c, NONE, NONE)
    BY <1>2, <1>4, <1>6, <1>9, <1>11
  <2>6. InsertReads(c)'
    BY <1>2, <1>9, <2>1, <2>3, <2>4, <2>5 DEF InsertReads, Splices!HEADER
  <2> QED BY <1>1, <1>9, <2>1, <2>6 DEF Inserting
<1> QED BY <1>10, <1>11

(* One component: only the time of the first is told.                      *)
LEMMA ComponentStep ==
  ASSUME NEW c \in Splices!Inserts, Inserting(c), Splices!Component
  PROVE  Inserting(c)'
<1>1. /\ pc = "component" /\ Splices!Has(Splices!Needs) /\ at' = at + Splices!Needs
      /\ UNCHANGED <<section, arrived, promised, loopEnd>> /\ Limit' = Limit
      /\ InsertReads(c) /\ section = Splices!InsertSection(c)
      /\ at \in Nat /\ loopEnd = Limit /\ loopEnd \in Nat /\ cues = <<>>
  BY Stepped DEF Splices!Component
<1>2. PICK n \in Nat : n = Len(c.timed)
  BY <1>1, InsertTyped, LenProperties DEF InsertReads
<1>3. PICK f : f = Splices!ComponentsAt(c)
  OBVIOUS
<1>4. PICK left \in Nat : count = [left |-> left, all |-> n] /\ 1 =< left /\ left =< n
  <2>1. count \in [left : Nat, all : Nat] /\ count.left =< count.all
    BY DEF Inserting
  <2>2. count.all = n /\ 1 =< count.left
    BY <1>1, <1>2 DEF InsertReads
  <2> QED BY <2>1, <2>2
<1>5. PICK i \in 1 .. n : i = n - left + 1
  <2>1. n - left + 1 \in 1 .. n
    BY <1>4
  <2> QED BY <2>1
<1>6. /\ ~c.cancel /\ ~c.program /\ at = f[i]
      /\ cue = Told(c, IF left = n THEN NONE ELSE TimeOf(c), NONE)
  BY <1>1, <1>3, <1>4, <1>5 DEF InsertReads
<1>7. c.immediate \in BOOLEAN /\ cue.immediate = c.immediate
  BY <1>6, InsertTyped DEF Told, InsertCue
<1>8. PICK timed \in BOOLEAN : timed = c.timed[i] /\ i \in DOMAIN c.timed
  BY <1>2, <1>6, ComponentsPlaced
<1>9. /\ f \in [1 .. n + 1 -> Nat]
      /\ f[i + 1] = f[i] + IF c.immediate THEN 1 ELSE 1 + Splices!TimeSize(timed)
  <2>1. f \in [1 .. n + 1 -> Nat]
    BY <1>2, <1>3, <1>6, ComponentsPlaced
  <2>2. \A k \in 1 .. n : f[k + 1] = f[k] +
        IF c.immediate THEN 1 ELSE 1 + Splices!TimeSize(c.timed[k])
    BY <1>2, <1>3, <1>6, ComponentsPlaced
  <2> QED BY <2>1, <2>2, <1>8
<1>10. Splices!Needs = IF Splices!Has(1) /\ ~c.immediate THEN Splices!TimeNeeds(1) ELSE 1
  BY <1>1, <1>7 DEF Splices!Needs
<1>11. ASSUME ~c.immediate
       PROVE  /\ Splices!Needs = 1 + Splices!TimeSize(timed) /\ Splices!Flags(1).timed = timed
              /\ timed => Splices!Read(1, 5).time = i
  <2>1. Splices!Needs = Splices!TimeNeeds(1)
    BY <1>1, <1>10, <1>11
  <2>2. Splices!TimeAt(f[i] + 1, timed, i) \in section.fields
        /\ Laid(section.fields, 2, Splices!InsertEnd(c) + 2)
    BY <1>1, <1>3, <1>6, <1>8, <1>11, InsertHolds
  <2>3. at + 1 = f[i] + 1 /\ 1 \in Nat /\ at \in Nat /\ loopEnd \in Int
    BY <1>1, <1>6
  <2>4. Splices!Flags(1).timed = timed
    BY <2>2, <2>3, TimeRead
  <2>5. Splices!Has(Splices!TimeNeeds(1)) => Splices!TimeNeeds(1) = 1 + Splices!TimeSize(timed)
    BY <2>2, <2>3, TimeRead
  <2>6. Splices!Needs = 1 + Splices!TimeSize(timed)
    BY <1>1, <2>1, <2>5
  <2>7. ASSUME timed PROVE Splices!Read(1, 5).time = i
    <3>1. f[i] + 1 + 5 =< Splices!Min({arrived, section.length})
      BY <1>1, <2>3, <2>6, <2>7 DEF Splices!Has, Splices!TimeSize, Limit
    <3> QED BY <2>2, <2>3, <2>7, <3>1, TimeIs
  <2> QED BY <2>4, <2>6, <2>7
<1>12. at' = f[i + 1] /\ at' \in Nat /\ 15 =< at' /\ at' =< loopEnd'
  <2>1. Splices!Needs = (IF c.immediate THEN 1 ELSE 1 + Splices!TimeSize(timed))
        /\ Splices!Needs \in Nat
    BY <1>10, <1>11 DEF Splices!TimeSize
  <2>2. 15 =< at
    BY <1>1 DEF InsertReads, Splices!HEADER
  <2> QED BY <1>1, <1>6, <1>9, <2>1, <2>2 DEF Splices!Has
<1>13. cue' = Told(c, TimeOf(c), NONE)
  <2>1. cue' = IF ~c.immediate /\ Splices!Flags(1).timed
        /\ left = n THEN [cue EXCEPT !.time = Splices!Read(1, 5).time] ELSE cue
    BY <1>4, <1>7 DEF Splices!Component, Splices!IsReported
  <2>2. CASE c.immediate
    <3>1. TimeOf(c) = NONE
      BY <2>2 DEF TimeOf
    <3> QED BY <1>6, <2>1, <2>2, <3>1
  <2>3. CASE ~c.immediate /\ left # n
    BY <1>6, <2>1, <2>3
  <2>4. CASE ~c.immediate /\ left = n
    <3>1. i = 1 /\ c.timed # <<>>
      BY <1>2, <1>4, <1>5, <2>4
    <3>2. TimeOf(c) = IF timed THEN 1 ELSE NONE
      BY <1>8, <2>4, <3>1 DEF TimeOf
    <3>3. cue = Told(c, NONE, NONE)
      BY <1>6, <2>4
    <3>4. CASE timed
      <4>1. cue' = [cue EXCEPT !.time = 1]
        BY <1>11, <2>1, <2>4, <3>1, <3>4
      <4>2. Told(c, 1, NONE) = WithTime(Told(c, NONE, NONE), 1)
        BY ToldTime
      <4> QED BY <3>2, <3>3, <3>4, <4>1, <4>2 DEF WithTime
    <3>5. CASE ~timed
      BY <1>11, <2>1, <2>4, <3>2, <3>3, <3>5
    <3> QED BY <3>4, <3>5
  <2> QED BY <2>2, <2>3, <2>4, <1>7
<1>14. count' = [left |-> left - 1, all |-> n] /\ cues' = cues
       /\ pc' = IF left > 1 THEN "component" ELSE Splices!AfterTimes
  BY <1>4 DEF Splices!Component, Splices!GoesOn
<1>15. count' \in [left : Nat, all : Nat] /\ count'.left = left - 1 /\ count'.all = n
       /\ count'.left =< count'.all
  BY <1>4, <1>14
<1>16. CASE left = 1
  <2>1. at' = Splices!TimesEnd(c)
    <3>1. i = n
      BY <1>5, <1>16
    <3> QED BY <3>1, <1>2, <1>3, <1>6, <1>12, InsertPlaces
  <2>2. pc' = Splices!AfterTimes
    BY <1>14, <1>16
  <2> QED BY <1>1, <1>6, <1>12, <1>13, <1>14, <1>15, <2>1, <2>2, BehindTimes
<1>17. CASE left # 1
  <2>1. pc' = "component"
    BY <1>4, <1>14, <1>17
  <2>2. count'.all - count'.left + 1 = i + 1 /\ 1 =< count'.left /\ count'.left # count'.all
    BY <1>4, <1>5, <1>15, <1>17
  <2>3. at' = Splices!ComponentsAt(c)[count'.all - count'.left + 1]
    BY <1>3, <1>12, <2>2
  <2>4. loopEnd' = Limit' /\ cues' = <<>> /\ count'.all = Len(c.timed)
    BY <1>1, <1>2, <1>14, <1>15
  <2>5. InsertReads(c)'
    BY <1>6, <1>12, <1>13, <2>1, <2>2, <2>3, <2>4 DEF InsertReads, Splices!HEADER
  <2> QED BY <1>1, <1>15, <2>1, <2>5 DEF Inserting
<1> QED BY <1>16, <1>17

(* The duration of the break.                                              *)
LEMMA BreakStep ==
  ASSUME NEW c \in Splices!Inserts, Inserting(c), Splices!BreakDuration
  PROVE  Inserting(c)'
<1>1. /\ pc = "break" /\ Splices!Has(Splices!Needs) /\ at' = at + 5
      /\ UNCHANGED <<section, arrived, promised, loopEnd>> /\ Limit' = Limit
      /\ InsertReads(c) /\ section = Splices!InsertSection(c)
      /\ loopEnd = Limit /\ loopEnd \in Nat /\ cues = <<>>
  BY Stepped DEF Splices!BreakDuration
<1>2. ~c.cancel /\ c.duration /\ at = Splices!TimesEnd(c) /\ cue = Told(c, TimeOf(c), NONE)
  BY <1>1 DEF InsertReads
<1>3. Splices!TimesEnd(c) \in Nat /\ 21 =< Splices!TimesEnd(c)
      /\ Splices!ProgramAt(c) = Splices!TimesEnd(c) + 5
  BY <1>2, InsertPlaces
<1>4. Splices!TimesEnd(c) + 5 =< loopEnd
  BY <1>1, <1>2 DEF Splices!Needs, Splices!Has
<1>5. at' = Splices!ProgramAt(c) /\ at' \in Nat /\ 15 =< at' /\ at' =< loopEnd' /\ loopEnd' = Limit'
  BY <1>1, <1>2, <1>3, <1>4
<1>6. Splices!Read(0, 5) = "break"
  <2>1. Laid(section.fields, 2, Splices!InsertEnd(c) + 2)
        /\ Splices!At(Splices!TimesEnd(c), 5, "break") \in section.fields
    BY <1>1, <1>2, InsertHolds
  <2>2. at + 0 = Splices!TimesEnd(c)
        /\ Splices!TimesEnd(c) + 5 =< Splices!Min({arrived, section.length})
    BY <1>1, <1>2, <1>3, <1>4 DEF Limit
  <2> QED BY <2>1, <2>2, FieldRead
<1>7. cue' = Told(c, TimeOf(c), BreakOf(c))
  <2>1. cue' = [cue EXCEPT !.duration = "break"]
    BY <1>6 DEF Splices!BreakDuration
  <2>2. BreakOf(c) = "break"
    BY <1>2 DEF BreakOf
  <2>3. Told(c, TimeOf(c), "break") = WithDuration(Told(c, TimeOf(c), NONE), "break")
    BY ToldDuration
  <2> QED BY <1>2, <2>1, <2>2, <2>3 DEF WithDuration
<1>8. pc' = "program" /\ UNCHANGED <<count, cues>>
  BY DEF Splices!BreakDuration, Splices!GoesOn
<1>9. InsertReads(c)'
  BY <1>1, <1>2, <1>5, <1>7, <1>8 DEF InsertReads, Splices!HEADER
<1> QED BY <1>1, <1>8, <1>9 DEF Inserting

(* The program, with which the cue is complete.                            *)
LEMMA ProgramStep ==
  ASSUME NEW c \in Splices!Inserts, Inserting(c), Splices!ProgramId
  PROVE  Inserting(c)'
<1>1. /\ pc = "program" /\ Splices!Has(Splices!Needs) /\ at' = at + 2
      /\ UNCHANGED <<section, arrived, promised, loopEnd>>
      /\ InsertReads(c) /\ section = Splices!InsertSection(c)
      /\ loopEnd = Limit /\ loopEnd \in Nat /\ cues = <<>>
  BY Stepped DEF Splices!ProgramId
<1>2. ~c.cancel /\ at = Splices!ProgramAt(c) /\ cue = Told(c, TimeOf(c), BreakOf(c))
  BY <1>1 DEF InsertReads
<1>3. Splices!Read(0, 2) = "program"
  <2>1. Laid(section.fields, 2, Splices!InsertEnd(c) + 2)
        /\ Splices!At(Splices!ProgramAt(c), 2, "program") \in section.fields
    BY <1>1, <1>2, InsertHolds
  <2>2. Splices!ProgramAt(c) \in Nat
    BY <1>2, InsertPlaces
  <2>3. at + 0 = Splices!ProgramAt(c)
        /\ Splices!ProgramAt(c) + 2 =< Splices!Min({arrived, section.length})
    BY <1>1, <1>2, <2>2 DEF Limit, Splices!Needs, Splices!Has
  <2> QED BY <2>1, <2>3, FieldRead
<1>4. PICK t, b : t = TimeOf(c) /\ b = BreakOf(c)
  OBVIOUS
<1>5. PICK y : y = InsertCue("event", FALSE, c.out, c.immediate, t, b, "program")
  OBVIOUS
<1>6. cue' = y
  <2>1. cue' = [cue EXCEPT !.program = "program"]
    BY <1>3 DEF Splices!ProgramId
  <2>2. WithProgram(Told(c, t, b), "program") = y
    BY <1>5, ToldProgram
  <2> QED BY <1>2, <1>4, <2>1, <2>2 DEF WithProgram
<1>7. y.cancel = FALSE /\ y.out = c.out /\ "complete" \in DOMAIN y
  <2>1. y = [command |-> "insert", event |-> "event", cancel |-> FALSE, out |-> c.out,
             immediate |-> c.immediate, time |-> t, duration |-> b, program |-> "program",
             upid |-> NONE, type |-> -1, direction |-> "unknown", complete |-> FALSE]
    BY <1>5 DEF InsertCue
  <2>2. y.cancel = FALSE /\ y.out = c.out
    BY <2>1
  <2> QED BY <2>1, <2>2
<1>8. PICK z : z = [y EXCEPT !.complete = TRUE, !.direction = IF c.out THEN "out" ELSE "in"]
  OBVIOUS
<1>9. z = Splices!InsertMeans(c) /\ z.complete
  <2>1. z = Splices!InsertMeans(c)
    BY <1>2, <1>4, <1>5, <1>8, InsertMeant
  <2> QED BY <1>7, <1>8, <2>1
<1>10. cues' = <<Splices!InsertMeans(c)>> /\ pc' = "idle" /\ UNCHANGED count
  <2>1. Splices!HandOn(cue', TRUE) /\ UNCHANGED count
    BY DEF Splices!ProgramId
  <2>2. cues' = Append(cues,
        [y EXCEPT !.complete = TRUE, !.direction = IF c.out THEN "out" ELSE "in"])
    BY <1>6, <1>7, <2>1 DEF Splices!HandOn
  <2> QED BY <1>1, <1>8, <1>9, <2>1, <2>2 DEF Splices!HandOn
<1>11. InsertDone(c)'
  BY <1>9, <1>10 DEF InsertDone
<1> QED BY <1>1, <1>10, <1>11 DEF Inserting

(* Every step of a splice_insert.                                          *)
LEMMA InsertNext ==
  ASSUME NEW c \in Splices!Inserts, Inserting(c), Splices!SpliceInsert
  PROVE  Inserting(c)'
BY TruncatedStep, EventIdStep, InsertFlagsStep, SpliceTimeStep, ComponentsStep, ComponentStep,
   BreakStep, ProgramStep DEF Splices!SpliceInsert

-----------------------------------------------------------------------------
(* The parser in a time_signal.                                            *)

(* The cue of a time_signal before its descriptors, and behind its time.   *)
TimedCue(time, immediate) ==
    [command |-> "signal", event |-> NONE, cancel |-> FALSE, out |-> FALSE,
     immediate |-> immediate, time |-> time, duration |-> NONE, program |-> NONE,
     upid |-> NONE, type |-> -1, direction |-> "unknown", complete |-> FALSE]
SignalTimeOf(s) == IF s.timed THEN 1 ELSE NONE
SignalCue(s) == TimedCue(SignalTimeOf(s), ~s.timed)
Begun(y, e, f) == [y EXCEPT !.event = e, !.cancel = f, !.complete = TRUE]
Filled(y, break, upid, type, direction) ==
    [y EXCEPT !.duration = break, !.upid = upid, !.type = type, !.direction = direction,
              !.out = direction = "out"]

(* What these records are.                                                 *)
LEMMA BegunIs ==
  ASSUME NEW time, NEW immediate, NEW e, NEW f
  PROVE  Begun(TimedCue(time, immediate), e, f)
           = [command |-> "signal", event |-> e, cancel |-> f, out |-> FALSE,
              immediate |-> immediate, time |-> time, duration |-> NONE, program |-> NONE,
              upid |-> NONE, type |-> -1, direction |-> "unknown", complete |-> TRUE]
<1>1. PICK y : y = TimedCue(time, immediate)
  OBVIOUS
<1>2. y = [command |-> "signal", event |-> NONE, cancel |-> FALSE, out |-> FALSE,
           immediate |-> immediate, time |-> time, duration |-> NONE, program |-> NONE,
           upid |-> NONE, type |-> -1, direction |-> "unknown", complete |-> FALSE]
  BY <1>1 DEF TimedCue
<1>3. PICK z : z = Begun(y, e, f)
  OBVIOUS
<1>4. z = [command |-> "signal", event |-> e, cancel |-> f, out |-> FALSE,
           immediate |-> immediate, time |-> time, duration |-> NONE, program |-> NONE,
           upid |-> NONE, type |-> -1, direction |-> "unknown", complete |-> TRUE]
  BY <1>2, <1>3 DEF Begun
<1> QED BY <1>1, <1>3, <1>4

(* The cue of a cancelled segmentation, and of one that is told of.        *)
MeantBegun(time, immediate) ==
    [Splices!Base EXCEPT !.command = "signal", !.event = "event", !.complete = TRUE,
                 !.immediate = immediate, !.time = time]

(* What that record is.                                                    *)
LEMMA MeantBegunIs ==
  ASSUME NEW time, NEW immediate
  PROVE  MeantBegun(time, immediate)
           = [command |-> "signal", event |-> "event", cancel |-> FALSE, out |-> FALSE,
              immediate |-> immediate, time |-> time, duration |-> NONE, program |-> NONE,
              upid |-> NONE, type |-> -1, direction |-> "unknown", complete |-> TRUE]
<1>1. PICK b : b = Splices!Base
  OBVIOUS
<1>2. b = [command |-> NONE, event |-> NONE, cancel |-> FALSE, out |-> FALSE,
           immediate |-> FALSE, time |-> NONE, duration |-> NONE, program |-> NONE,
           upid |-> NONE, type |-> -1, direction |-> "unknown", complete |-> FALSE]
  BY <1>1 DEF Splices!Base
<1>3. PICK z : z = MeantBegun(time, immediate)
  OBVIOUS
<1>4. z = [b EXCEPT !.command = "signal", !.event = "event", !.complete = TRUE,
                    !.immediate = immediate, !.time = time]
  BY <1>1, <1>3 DEF MeantBegun
<1>5. z = [command |-> "signal", event |-> "event", cancel |-> FALSE, out |-> FALSE,
           immediate |-> immediate, time |-> time, duration |-> NONE, program |-> NONE,
           upid |-> NONE, type |-> -1, direction |-> "unknown", complete |-> TRUE]
  BY <1>2, <1>4
<1> QED BY <1>3, <1>5

(* The order in which the fields are filled in does not matter.            *)
LEMMA MeantFilled ==
  ASSUME NEW time, NEW immediate, NEW e, NEW w, NEW v, NEW o
  PROVE  [MeantBegun(time, immediate) EXCEPT
            !.upid = "upid type", !.type = w, !.direction = v, !.out = o, !.duration = e]
         = [MeantBegun(time, immediate) EXCEPT
              !.duration = e, !.upid = "upid type", !.type = w, !.direction = v, !.out = o]
<1>1. PICK x : x = MeantBegun(time, immediate)
  OBVIOUS
<1>2. x = [command |-> "signal", event |-> "event", cancel |-> FALSE, out |-> FALSE,
           immediate |-> immediate, time |-> time, duration |-> NONE, program |-> NONE,
           upid |-> NONE, type |-> -1, direction |-> "unknown", complete |-> TRUE]
  BY <1>1, MeantBegunIs
<1>3. PICK z :
      z = [x EXCEPT !.upid = "upid type", !.type = w, !.direction = v, !.out = o, !.duration = e]
  OBVIOUS
<1>4. PICK u :
      u = [x EXCEPT !.duration = e, !.upid = "upid type", !.type = w, !.direction = v, !.out = o]
  OBVIOUS
<1>5. z = [command |-> "signal", event |-> "event", cancel |-> FALSE, out |-> o,
           immediate |-> immediate, time |-> time, duration |-> e, program |-> NONE,
           upid |-> "upid type", type |-> w, direction |-> v, complete |-> TRUE]
  BY <1>2, <1>3
<1>6. u = [command |-> "signal", event |-> "event", cancel |-> FALSE, out |-> o,
           immediate |-> immediate, time |-> time, duration |-> e, program |-> NONE,
           upid |-> "upid type", type |-> w, direction |-> v, complete |-> TRUE]
  BY <1>2, <1>4
<1> QED BY <1>1, <1>3, <1>4, <1>5, <1>6

(* The cue of a segmentation that is meant, from the one that is read.     *)
LEMMA SegmentationMeant ==
  ASSUME NEW s, NEW d, NEW y, y = SignalCue(s), d.cancel \in BOOLEAN
  PROVE  /\ d.cancel # FALSE => Splices!SegmentationMeans(s, d) = Begun(y, "event", d.cancel)
         /\ d.cancel = FALSE =>
              Splices!SegmentationMeans(s, d) = Filled(Begun(y, "event", d.cancel),
                                               IF d.duration THEN "segment" ELSE NONE,
                                               "upid type", d.type, Splices!Direction(d.type))
<1>1. PICK t, m : t = SignalTimeOf(s) /\ m = ~s.timed
  OBVIOUS
<1>2. y = TimedCue(t, m)
  BY <1>1 DEF SignalCue
<1>3. PICK x : x = MeantBegun(t, m)
  OBVIOUS
<1>4. x = [Splices!Base EXCEPT !.command = "signal", !.event = "event", !.complete = TRUE,
                       !.immediate = ~s.timed, !.time = IF s.timed THEN 1 ELSE NONE]
  BY <1>3, <1>1 DEF SignalTimeOf, MeantBegun
<1>5. ASSUME d.cancel # FALSE PROVE Splices!SegmentationMeans(s, d) = Begun(y, "event", d.cancel)
  <2>1. d.cancel = TRUE
    BY <1>5
  <2>2. Splices!SegmentationMeans(s, d) = [x EXCEPT !.cancel = TRUE]
    BY <1>4, <2>1 DEF Splices!SegmentationMeans
  <2>3. PICK f : f = TRUE
    OBVIOUS
  <2>4. x = [command |-> "signal", event |-> "event", cancel |-> FALSE, out |-> FALSE,
             immediate |-> m, time |-> t, duration |-> NONE, program |-> NONE,
             upid |-> NONE, type |-> -1, direction |-> "unknown", complete |-> TRUE]
    BY <1>3, MeantBegunIs
  <2>5. PICK z : z = [x EXCEPT !.cancel = f]
    OBVIOUS
  <2>6. z = [command |-> "signal", event |-> "event", cancel |-> f, out |-> FALSE,
             immediate |-> m, time |-> t, duration |-> NONE, program |-> NONE,
             upid |-> NONE, type |-> -1, direction |-> "unknown", complete |-> TRUE]
    BY <2>4, <2>5
  <2>7. z = Begun(TimedCue(t, m), "event", f)
    BY <2>6, BegunIs
  <2>8. Splices!SegmentationMeans(s, d) = z
    BY <2>2, <2>3, <2>5
  <2>9. f = d.cancel
    BY <2>3, <2>1
  <2> QED BY <1>2, <2>7, <2>8, <2>9
<1>6. ASSUME d.cancel = FALSE
      PROVE  Splices!SegmentationMeans(s, d) = Filled(Begun(y, "event", d.cancel),
                                              IF d.duration THEN "segment" ELSE NONE,
                                              "upid type", d.type, Splices!Direction(d.type))
  <2>1. PICK f : f = d.cancel
    OBVIOUS
  <2>2. f = FALSE
    BY <1>6, <2>1
  <2>3. Begun(TimedCue(t, m), "event", f) = x
    BY <1>3, <2>2, BegunIs, MeantBegunIs
  <2>4. PICK v, e : v = Splices!Direction(d.type) /\ e = IF d.duration THEN "segment" ELSE NONE
    OBVIOUS
  <2>5. PICK o, w : o = (v = "out") /\ w = d.type
    OBVIOUS
  <2>6. Splices!SegmentationMeans(s, d)
        = [x EXCEPT !.upid = "upid type", !.type = d.type, !.direction = v,
                                            !.out = v = "out", !.duration = e]
    BY <1>4, <1>6, <2>4 DEF Splices!SegmentationMeans
  <2>7. Splices!SegmentationMeans(s, d)
        = [x EXCEPT !.upid = "upid type", !.type = w, !.direction = v,
                                            !.out = o, !.duration = e]
    BY <2>5, <2>6
  <2>8. Filled(x, e, "upid type", w, v)
          = [x EXCEPT !.duration = e, !.upid = "upid type", !.type = w, !.direction = v, !.out = o]
    BY <2>5 DEF Filled
  <2>9. Splices!SegmentationMeans(s, d) = Filled(x, e, "upid type", w, v)
    BY <1>3, <2>7, <2>8, MeantFilled
  <2> QED BY <1>2, <2>1, <2>3, <2>4, <2>5, <2>9
<1> QED BY <1>5, <1>6

(* A segmentation that has arrived is read as it is meant.                 *)
LEMMA SegmentationRead ==
  ASSUME NEW s, s.timed \in BOOLEAN, NEW d \in Splices!Kinds, d.system = "CUEI",
         NEW lo, NEW hi, Laid(section.fields, lo, hi),
         at \in Nat, Splices!DescriptorFields(at, d) \subseteq section.fields,
         Limit \in Nat, at + Splices!DescriptorSize(d) =< Limit, cue = SignalCue(s)
  PROVE  Splices!Segmentation(2) = Splices!SegmentationMeans(s, d)
<1> SUFFICES ASSUME NEW p \in Nat, at = p, Splices!DescriptorFields(p, d) \subseteq section.fields,
                    NEW limit \in Nat, limit = Splices!Min({arrived, section.length}),
                    p + Splices!DescriptorSize(d) =< limit
             PROVE  Splices!Segmentation(2) = Splices!SegmentationMeans(s, d)
  BY DEF Limit
<1>1. PICK body \in Nat : body = 2
  OBVIOUS
<1>2. Splices!SegmentationFields(p, d) \subseteq section.fields
  BY DEF Splices!DescriptorFields, Splices!When
<1>3. Splices!At(p + 6, 4, "event") \in section.fields
      /\ Splices!At(p + 10, 1, d.cancel) \in section.fields
  BY <1>2 DEF Splices!SegmentationFields
<1>4. d.cancel \in BOOLEAN
  BY KindsTyped
<1>5. Splices!Flags(body + 8) = d.cancel
  <2>1. at + (body + 8) = p + 10
    BY <1>1
  <2> QED BY <1>3, <2>1, FlagsRead
<1>6. Splices!Read(body + 4, 4) = "event"
  <2>1. Splices!DescriptorSize(d) \in Nat /\ 11 =< Splices!DescriptorSize(d)
    <3>1. CASE d.cancel
      BY <3>1, DescriptorPlaces
    <3>2. CASE ~d.cancel
      <4>1. Splices!DurationAt(d) \in Nat /\ 12 =< Splices!DurationAt(d)
        BY <3>2, SegmentationPlaces
      <4> QED BY <3>2, <4>1, SegmentationPlaces
    <3> QED BY <3>1, <3>2
  <2>2. at + (body + 4) = p + 6 /\ p + 6 + 4 =< Splices!Min({arrived, section.length})
    BY <1>1, <2>1
  <2> QED BY <1>3, <2>2, FieldRead
<1>7. PICK begun : begun = Begun(cue, "event", d.cancel)
  OBVIOUS
<1>8. CASE d.cancel
  <2>1. Splices!Segmentation(body)
        = [cue EXCEPT !.event = Splices!Read(body + 4, 4), !.cancel = Splices!Flags(body + 8),
            !.complete = TRUE]
    BY <1>5, <1>8 DEF Splices!Segmentation
  <2>2. d.cancel # FALSE
    BY <1>8
  <2>3. Splices!Segmentation(body) = Begun(cue, "event", d.cancel)
    BY <1>5, <1>6, <2>1 DEF Begun
  <2>4. Splices!SegmentationMeans(s, d) = Begun(cue, "event", d.cancel)
    BY <1>4, <2>2, SegmentationMeant
  <2> QED BY <1>1, <2>3, <2>4
<1>9. CASE ~d.cancel
  <2>1. /\ Splices!At(p + 11, 1, [program |-> d.components = 0, duration |-> d.duration])
             \in section.fields
        /\ d.components > 0 => Splices!At(p + 12, 1, d.components) \in section.fields
        /\ d.duration => Splices!At(p + Splices!DurationAt(d), 5, "segment") \in section.fields
        /\ Splices!At(p + Splices!UpidAt(d), 1, "upid type") \in section.fields
        /\ Splices!At(p + Splices!UpidAt(d) + 1, 1, d.upid) \in section.fields
        /\ Splices!At(p + Splices!UpidAt(d) + 2 + d.upid, 1, d.type) \in section.fields
    BY <1>2, <1>9 DEF Splices!SegmentationFields, Splices!When
  <2>2. PICK comps \in Nat, l \in Nat, w \in Nat, long \in BOOLEAN, da \in Nat, ua \in Nat :
          /\ comps = d.components /\ l = d.upid /\ w = d.type /\ long = d.duration
          /\ da = Splices!DurationAt(d) /\ da = IF comps > 0 THEN 13 + 6 * comps ELSE 12
          /\ ua = Splices!UpidAt(d) /\ ua = IF long THEN da + 5 ELSE da
          /\ Splices!DescriptorSize(d) = ua + 2 + l + 3
    BY <1>9, SegmentationPlaces
  <2>3. PICK flags : /\ flags = [program |-> comps = 0, duration |-> long]
                     /\ Splices!At(p + 11, 1, flags) \in section.fields
    BY <2>1, <2>2
  <2>4. Splices!Flags(body + 9) = flags
    <3>1. at + (body + 9) = p + 11
      BY <1>1
    <3> QED BY <2>3, <3>1, FlagsRead
  <2>5. PICK n \in Nat : n = da - 12
    BY <2>2
  <2>6. (IF flags.program THEN 0 ELSE 1 + 6 * Splices!Flags(body + 10)) = n
    <3>1. CASE comps = 0
      <4>1. flags.program
        BY <2>3, <3>1
      <4>2. n = 0
        BY <2>2, <2>5, <3>1
      <4> QED BY <4>1, <4>2
    <3>2. CASE comps # 0
      <4>1. at + (body + 10) = p + 12
        BY <1>1
      <4>2. Splices!At(p + 12, 1, comps) \in section.fields
        <5>1. d.components > 0
          BY <2>2, <3>2
        <5>2. Splices!At(p + 12, 1, d.components) \in section.fields
          BY <2>1, <5>1
        <5> QED BY <2>2, <5>2
      <4>3. Splices!Flags(body + 10) = comps
        BY <4>1, <4>2, FlagsRead
      <4>4. ~flags.program
        BY <2>3, <3>2
      <4> QED BY <2>2, <2>5, <3>2, <4>3, <4>4
    <3> QED BY <3>1, <3>2
  <2>7. ASSUME long PROVE Splices!Read(body + (10 + n), 5) = "segment"
    <3>1. at + (body + (10 + n)) = p + da /\ p + da + 5 =< Splices!Min({arrived, section.length})
      BY <1>1, <2>2, <2>5, <2>7
    <3> QED BY <2>1, <2>2, <2>7, <3>1, FieldRead
  <2>8. PICK behind \in Nat : behind = ua - 2 /\ behind = 10 + n + IF long THEN 5 ELSE 0
    BY <2>2, <2>5
  <2>9. Splices!Read(body + behind, 1) = "upid type"
    <3>1. at + (body + behind) = p + ua /\ p + ua + 1 =< Splices!Min({arrived, section.length})
      BY <1>1, <2>2, <2>8
    <3> QED BY <2>1, <2>2, <3>1, FieldRead
  <2>10. Splices!Flags(body + (behind + 1)) = l
    <3>1. at + (body + (behind + 1)) = p + ua + 1
      BY <1>1, <2>2, <2>8
    <3>2. Splices!At(p + ua + 1, 1, l) \in section.fields
      BY <2>1, <2>2
    <3> QED BY <3>1, <3>2, FlagsRead
  <2>11. Splices!Read(body + (behind + 2 + l), 1) = w
    <3>1. at + (body + (behind + 2 + l)) = p + ua + 2 + l
          /\ p + ua + 2 + l + 1 =< Splices!Min({arrived, section.length})
      BY <1>1, <2>2, <2>8
    <3>2. Splices!At(p + ua + 2 + l, 1, w) \in section.fields
      BY <2>1, <2>2
    <3> QED BY <3>1, <3>2, FieldRead
  <2>12. flags.duration = long
    BY <2>3
  <2>13. begun = [cue EXCEPT !.event = Splices!Read(body + 4, 4),
         !.cancel = Splices!Flags(body + 8), !.complete = TRUE]
    BY <1>5, <1>6, <1>7 DEF Begun
  <2>14. Splices!Segmentation(body)
         = Filled(begun, IF long THEN "segment" ELSE NONE, "upid type", w, Splices!Direction(w))
    <3>1. ~Splices!Flags(body + 8)
      BY <1>5, <1>9
    <3>2. PICK upid : upid = "upid type" /\ Splices!Read(body + behind, 1) = upid
      BY <2>9
    <3>3. PICK break : break = IF long THEN "segment" ELSE NONE
      OBVIOUS
    <3>4. break = IF flags.duration THEN Splices!Read(body + (10 + n), 5) ELSE NONE
      BY <2>7, <2>12, <3>3
    <3>5. behind = 10 + n + IF flags.duration THEN 5 ELSE 0
      BY <2>8, <2>12
    <3>6. PICK type : type = behind + 2 + l
      OBVIOUS
    <3>7. type = behind + 2 + Splices!Flags(body + (behind + 1))
      BY <2>10, <3>6
    <3>8. w = Splices!Read(body + type, 1)
      BY <2>11, <3>6
    <3>9. Splices!Segmentation(body) = Filled(begun, break, upid, w, Splices!Direction(w))
      BY <2>4, <2>6, <3>2, <2>13, <3>1, <3>4, <3>5, <3>7, <3>8, ZenonT(60)
        DEF Splices!Segmentation, Filled
    <3> QED BY <3>3, <3>9, <3>2
  <2>15. d.cancel = FALSE
    BY <1>4, <1>9
  <2>16. Splices!SegmentationMeans(s, d) = Filled(Begun(cue, "event", d.cancel),
                                          IF d.duration THEN "segment" ELSE NONE,
                                          "upid type", d.type, Splices!Direction(d.type))
    BY <1>4, <2>15, SegmentationMeant
  <2> QED BY <1>7, <1>1, <2>2, <2>14, <2>16
<1> QED BY <1>8, <1>9, <1>1


(* The parser with a time_signal: behind its time it has the cues of the   *)
(* descriptors before the cursor, all complete.                            *)
DescriptorCount(s) == Len(s.descriptors)
SignalDone(s) ==
    \E j \in 0 .. DescriptorCount(s) :
        cues = Splices!Meant(s)[j] /\ (j = DescriptorCount(s) \/ arrived < section.length)
SignalReads(s) ==
    /\ pc \in {"signal", "descriptors"}
    /\ at \in Nat /\ 15 =< at /\ at =< loopEnd
    /\ pc = "signal" => at = 15 /\ loopEnd = Limit /\ cues = <<>>
                        /\ cue = TimedCue(NONE, FALSE)
    /\ pc = "descriptors" =>
         /\ loopEnd = Splices!Min({Limit, Splices!DescriptorsAt(s)[DescriptorCount(s) + 1]})
         /\ cue = SignalCue(s)
         /\ \E j \in 0 .. DescriptorCount(s) : at = Splices!DescriptorsAt(s)[j + 1]
              /\ cues = Splices!Meant(s)[j]
Signalling(s, known) ==
    /\ section = Splices!SignalSection(s, known) /\ promised = Splices!SignalMeans(s)
    /\ arrived \in Nat
    /\ count \in [left : Nat, all : Nat] /\ count.left =< count.all
    /\ IF pc = "idle" THEN SignalDone(s) ELSE SignalReads(s)

(* The section of a signal and the limit of what is read.                  *)
LEMMA SignalContext ==
  ASSUME Segmentations \subseteq Splices!Kinds, NEW s \in Splices!Signals, NEW known \in BOOLEAN,
         section = Splices!SignalSection(s, known), arrived \in Nat
  PROVE  \E n \in Nat, loops \in Nat, size \in Nat, limit \in Nat :
         /\ n = DescriptorCount(s) /\ loops = Splices!DescriptorsAt(s)[n + 1]
         /\ size = Splices!TimeSize(s.timed)
         /\ section.length = loops + 4 /\ 15 + size + 2 =< loops
         /\ limit = Limit /\ (limit < loops => arrived < section.length)
         /\ limit =< loops + 4
<1>1. PICK n \in Nat : n = DescriptorCount(s) /\ n = Len(s.descriptors)
  BY SignalTyped DEF DescriptorCount
<1>2. PICK loops \in Nat : loops = Splices!DescriptorsAt(s)[n + 1]
  <2>1. Splices!DescriptorsAt(s) \in [1 .. n + 1 -> Nat] /\ n + 1 \in 1 .. n + 1
    BY <1>1, DescriptorsPlaced
  <2> QED BY <2>1
<1>3. PICK size \in Nat : size = Splices!TimeSize(s.timed)
  BY DEF Splices!TimeSize
<1>4. section.length = loops + 4 /\ 15 + size + 2 =< loops
  BY <1>1, <1>2, <1>3, SignalHolds
<1>5. PICK a \in Nat, l \in Nat : a = arrived /\ l = section.length
  BY <1>4
<1>6. Splices!Min({a, l}) = IF a =< l THEN a ELSE l
  <2>1. a \in Int /\ l \in Int
    OBVIOUS
  <2> QED BY <2>1, MinOfTwo, Zenon
<1>7. PICK limit \in Nat : limit = Limit /\ limit = IF a =< l THEN a ELSE l
  BY <1>5, <1>6 DEF Limit
<1>8. (limit < loops => a < l) /\ limit =< l
  BY <1>4, <1>5, <1>7
<1> QED BY <1>1, <1>2, <1>3, <1>4, <1>5, <1>7, <1>8

(* The end of the loop: that of the packet or that of the descriptors.     *)
LEMMA LoopEndIs ==
  ASSUME NEW limit \in Nat, NEW loops \in Nat
  PROVE  /\ Splices!Min({limit, loops}) \in Nat
         /\ Splices!Min({limit, loops}) =< limit /\ Splices!Min({limit, loops}) =< loops
         /\ Splices!Min({limit, loops}) = IF limit =< loops THEN limit ELSE loops
<1>1. limit \in Int /\ loops \in Int
  OBVIOUS
<1>2. Splices!Min({limit, loops}) = IF limit =< loops THEN limit ELSE loops
  BY <1>1, MinOfTwo, Zenon
<1> QED BY <1>2

(* The parser returns: all the cues, or bytes are missing.                 *)
LEMMA SignalReturns ==
  ASSUME NEW s, NEW known, Signalling(s, known), Splices!Returns,
         NEW j \in 0 .. DescriptorCount(s), cues = Splices!Meant(s)[j],
         j = DescriptorCount(s) \/ arrived < section.length
  PROVE  Signalling(s, known)'
<1>1. pc' = "idle" /\ UNCHANGED <<section, arrived, promised, count, cues>>
  BY DEF Splices!Returns, Splices!packet
<1>2. SignalDone(s)'
  BY <1>1 DEF SignalDone
<1> QED BY <1>1, <1>2 DEF Signalling

(* The time of the signal.                                                 *)
LEMMA SignalTimeStep ==
  ASSUME Segmentations \subseteq Splices!Kinds, NEW s \in Splices!Signals, NEW known \in BOOLEAN,
         Signalling(s, known), Splices!SignalTime
  PROVE  Signalling(s, known)'
<1>1. /\ pc = "signal" /\ section = Splices!SignalSection(s, known) /\ arrived \in Nat
      /\ at = 15 /\ at =< loopEnd /\ loopEnd = Limit /\ cues = <<>> /\ cue = TimedCue(NONE, FALSE)
  BY DEF Signalling, SignalReads, Splices!SignalTime
<1>2. PICK n \in Nat, loops \in Nat, size \in Nat, limit \in Nat :
         /\ n = DescriptorCount(s) /\ loops = Splices!DescriptorsAt(s)[n + 1]
         /\ size = Splices!TimeSize(s.timed)
         /\ section.length = loops + 4 /\ 15 + size + 2 =< loops
         /\ limit = Limit /\ (limit < loops => arrived < section.length)
         /\ limit =< loops + 4
  BY <1>1, SignalContext
<1>3. /\ Laid(section.fields, 2, loops)
      /\ Splices!At(11, 3, IF known THEN size ELSE 4095) \in section.fields
      /\ Splices!TimeAt(15, s.timed, 1) \in section.fields
      /\ Splices!At(15 + size, 2, loops - (15 + size) - 2) \in section.fields
  <2>1. n = Len(s.descriptors) /\ loops = Splices!DescriptorsAt(s)[n + 1]
    BY <1>2 DEF DescriptorCount
  <2>2. section = Splices!SignalSection(s, known)
    BY <1>1
  <2>3. /\ Laid(section.fields, 2, loops)
        /\ Splices!At(11, 3, IF known THEN Splices!TimeSize(s.timed) ELSE 4095) \in section.fields
        /\ Splices!TimeAt(15, s.timed, 1) \in section.fields
        /\ Splices!At(15 + Splices!TimeSize(s.timed), 2,
             loops - (15 + Splices!TimeSize(s.timed)) - 2) \in section.fields
    BY <2>1, <2>2, SignalHolds
  <2>4. size = Splices!TimeSize(s.timed)
    BY <1>2
  <2> QED BY <2>3, <2>4
<1>4. PICK timed \in BOOLEAN : timed = s.timed /\ Splices!TimeAt(15, timed, 1) \in section.fields
                               /\ size = Splices!TimeSize(timed)
  BY <1>2, <1>3, SignalTyped
<1>5. PICK k \in Nat : k = 0 /\ at + k = 15
  BY <1>1
<1>6. at \in Nat /\ loopEnd \in Int
  BY <1>1, <1>2
<1>7. /\ Splices!Flags(k).timed = timed
      /\ Splices!TimeNeeds(k) \in Nat /\ Splices!TimeNeeds(k) =< k + Splices!TimeSize(timed)
      /\ Splices!Has(Splices!TimeNeeds(k)) => Splices!TimeNeeds(k) = k + Splices!TimeSize(timed)
  BY <1>3, <1>4, <1>5, <1>6, TimeRead
<1>8. PICK t \in Nat : t = Splices!TimeNeeds(0) /\ t =< size /\ (Splices!Has(t) => t = size)
      /\ Splices!Flags(0).timed = timed
  BY <1>2, <1>4, <1>5, <1>7
<1>9. PICK length \in Nat : length = Splices!FieldAt(11).value
      /\ length = IF known THEN size ELSE 4095
  BY <1>3, FieldIs
<1>10. PICK behind \in Nat : behind = IF length # 4095 /\ at + length <= loopEnd THEN length ELSE t
  OBVIOUS
<1>11. /\ pc = "signal"
       /\ IF ~Splices!Has(t) \/ at + behind + 2 > loopEnd THEN Splices!Returns
          ELSE /\ cue'
                    = [cue EXCEPT !.time =
                        IF Splices!Flags(0).timed THEN Splices!Read(0, 5).time ELSE NONE,
                                     !.immediate = ~Splices!Flags(0).timed]
               /\ at' = at + behind + 2
               /\ loopEnd'
                    = Splices!Min({loopEnd, at + behind + 2 + Splices!FieldAt(at + behind).value})
               /\ pc' = "descriptors"
               /\ UNCHANGED <<Splices!packet, count, cues>>
  BY <1>8, <1>9, <1>10 DEF Splices!SignalTime
<1>12. size # 4095
  BY <1>2 DEF Splices!TimeSize
<1>13. Splices!Has(t) => behind = size
  <2>1. ASSUME Splices!Has(t) PROVE behind = size
    <3>1. t = size
      BY <1>8, <2>1
    <3> QED BY <3>1, <1>9, <1>10, <1>12
  <2> QED BY <2>1
<1>14. cues = Splices!Meant(s)[0]
  BY <1>1, <1>2, MeantIs, SignalTyped DEF DescriptorCount
<1>15. CASE ~Splices!Has(t) \/ at + behind + 2 > loopEnd
  <2>1. limit < loops
    <3>1. CASE ~Splices!Has(t)
      BY <3>1, <1>1, <1>2, <1>8 DEF Splices!Has
    <3>2. CASE Splices!Has(t) /\ at + behind + 2 > loopEnd
      BY <3>2, <1>1, <1>2, <1>13
    <3> QED BY <3>1, <3>2, <1>15
  <2>2. Splices!Returns
    BY <1>11, <1>15
  <2>3. arrived < section.length
    BY <1>2, <2>1
  <2>4. 0 \in 0 .. DescriptorCount(s)
    BY <1>2
  <2> QED BY <1>14, <2>2, <2>3, <2>4, SignalReturns
<1>16. CASE Splices!Has(t) /\ ~(at + behind + 2 > loopEnd)
  <2>1. behind = size /\ 15 + size + 2 =< limit
    BY <1>1, <1>2, <1>13, <1>16
  <2>2. /\ cue' = [cue EXCEPT !.time = IF timed THEN Splices!Read(0, 5).time ELSE NONE,
             !.immediate = ~timed]
        /\ at' = 15 + size + 2
        /\ loopEnd' = Splices!Min({limit, 15 + size + 2 + Splices!FieldAt(15 + size).value})
        /\ pc' = "descriptors" /\ UNCHANGED <<section, arrived, promised, count, cues>>
    BY <1>1, <1>2, <1>8, <1>11, <1>16, <2>1 DEF Splices!packet
  <2>3. Splices!FieldAt(15 + size).value = loops - (15 + size) - 2
    BY <1>3, FieldIs
  <2>4. 15 + size + 2 + Splices!FieldAt(15 + size).value = loops
    BY <2>3
  <2>5. Limit' = limit /\ section' = section
    BY <1>2, <2>2 DEF Limit
  <2>6. loopEnd' = Splices!Min({Limit', Splices!DescriptorsAt(s)[DescriptorCount(s) + 1]})
    BY <1>2, <2>2, <2>4, <2>5
  <2>7. at' = Splices!DescriptorsAt(s)[1] /\ at' \in Nat /\ 15 =< at'
    <3>1. Splices!DescriptorsAt(s)[1] = 15 + Splices!TimeSize(s.timed) + 2
      BY <1>2, DescriptorsPlaced DEF DescriptorCount
    <3> QED BY <1>2, <2>2, <3>1
  <2>8. at' =< loopEnd'
    <3>1. loopEnd' = Splices!Min({limit, loops})
      BY <2>2, <2>4
    <3> QED BY <1>2, <2>1, <2>2, <3>1, LoopEndIs
  <2>9. cue' = SignalCue(s)
    <3>1. PICK x, y : x = SignalTimeOf(s) /\ y = ~timed
      OBVIOUS
    <3>2. (IF timed THEN Splices!Read(0, 5).time ELSE NONE) = x
      <4>1. CASE timed
        <5>1. 15 + 5 =< Splices!Min({arrived, section.length})
          BY <1>2, <1>4, <2>1, <4>1 DEF Splices!TimeSize, Limit
        <5>2. Laid(section.fields, 2, loops) /\ Splices!TimeAt(15, timed, 1) \in section.fields
          BY <1>3, <1>4
        <5>3. at + k = 15
          BY <1>5
        <5>4. Splices!Read(k, 5).time = 1
          BY <4>1, <5>1, <5>2, <5>3, TimeIs
        <5> QED BY <1>4, <1>5, <3>1, <4>1, <5>4 DEF SignalTimeOf
      <4>2. CASE ~timed
        BY <1>4, <3>1, <4>2 DEF SignalTimeOf
      <4> QED BY <4>1, <4>2
    <3>3. cue' = [cue EXCEPT !.time = x, !.immediate = y]
      BY <2>2, <3>1, <3>2
    <3>4. PICK z : z = TimedCue(NONE, FALSE)
      OBVIOUS
    <3>5. z = [command |-> "signal", event |-> NONE, cancel |-> FALSE, out |-> FALSE,
               immediate |-> FALSE, time |-> NONE, duration |-> NONE, program |-> NONE,
               upid |-> NONE, type |-> -1, direction |-> "unknown", complete |-> FALSE]
      BY <3>4 DEF TimedCue
    <3>6. PICK w : w = [z EXCEPT !.time = x, !.immediate = y]
      OBVIOUS
    <3>7. w = TimedCue(x, y)
      BY <3>5, <3>6 DEF TimedCue
    <3>8. TimedCue(x, y) = SignalCue(s)
      BY <1>4, <3>1 DEF SignalCue
    <3> QED BY <1>1, <3>3, <3>4, <3>6, <3>7, <3>8
  <2>10. \E j \in 0 .. DescriptorCount(s) : at' = Splices!DescriptorsAt(s)[j + 1]
         /\ cues' = Splices!Meant(s)[j]
    <3>1. 0 \in 0 .. DescriptorCount(s) /\ at' = Splices!DescriptorsAt(s)[0 + 1]
          /\ cues' = Splices!Meant(s)[0]
      BY <1>2, <1>14, <2>2, <2>7
    <3> QED BY <3>1
  <2>11. SignalReads(s)'
    BY <2>2, <2>6, <2>7, <2>8, <2>9, <2>10 DEF SignalReads
  <2> QED BY <2>2, <2>11 DEF Signalling
<1> QED BY <1>15, <1>16

(* A descriptor that has arrived adds the cue it means.                    *)
CuesBehind ==
    IF Splices!Flags(0) = Splices!SEGMENTATION
        /\ Splices!Read(2, 4) = "CUEI" THEN Append(cues, Splices!Segmentation(2)) ELSE cues
(* What is handed on behind a descriptor.                                  *)
LEMMA DescriptorMeans ==
  ASSUME NEW s, s.timed \in BOOLEAN, NEW d \in Splices!Kinds, NEW lo, NEW hi,
         Laid(section.fields, lo, hi),
         at \in Nat, Splices!DescriptorFields(at, d) \subseteq section.fields,
         Limit \in Nat, at + Splices!DescriptorSize(d) =< Limit, cue = SignalCue(s)
  PROVE  CuesBehind =
         IF d.system = "CUEI" THEN Append(cues, Splices!SegmentationMeans(s, d)) ELSE cues
<1>1. PICK p \in Nat, limit \in Nat : p = at /\ limit = Limit
  OBVIOUS
<1>2. Splices!DescriptorFields(p, d) \subseteq section.fields
      /\ p + Splices!DescriptorSize(d) =< limit
      /\ limit = Splices!Min({arrived, section.length})
  BY <1>1 DEF Limit
<1>3. PICK tag, name : /\ tag = IF d.system = "avail" THEN 0 ELSE 2
                       /\ name = IF d.system = "CUEI" THEN "CUEI" ELSE "other"
  OBVIOUS
<1>4. Splices!At(p, 1, tag) \in section.fields /\ Splices!At(p + 2, 4, name) \in section.fields
  BY <1>3, <1>2 DEF Splices!DescriptorFields, Splices!SEGMENTATION
<1>5. Splices!Flags(0) = tag
  <2>1. at + 0 = p
    BY <1>1
  <2> QED BY <1>4, <2>1, FlagsRead
<1>6. Splices!Read(2, 4) = name
  <2>1. Splices!DescriptorSize(d) \in Nat /\ 6 =< Splices!DescriptorSize(d)
    BY DescriptorPlaces
  <2>2. at + 2 = p + 2 /\ p + 2 + 4 =< Splices!Min({arrived, section.length})
    BY <1>1, <1>2, <2>1
  <2> QED BY <1>4, <2>2, FieldRead
<1>7. CASE d.system = "CUEI"
  <2>1. Splices!Segmentation(2) = Splices!SegmentationMeans(s, d)
    BY <1>7, SegmentationRead
  <2>2. Splices!Flags(0) = Splices!SEGMENTATION /\ Splices!Read(2, 4) = "CUEI"
    BY <1>3, <1>5, <1>6, <1>7 DEF Splices!SEGMENTATION
  <2> QED BY <1>7, <2>1, <2>2 DEF CuesBehind
<1>8. CASE d.system # "CUEI"
  <2>1. Splices!Read(2, 4) # "CUEI"
    BY <1>3, <1>6, <1>8
  <2> QED BY <1>8, <2>1 DEF CuesBehind
<1> QED BY <1>7, <1>8

(* One descriptor.                                                         *)
LEMMA DescriptorStep ==
  ASSUME Segmentations \subseteq Splices!Kinds, NEW s \in Splices!Signals, NEW known \in BOOLEAN,
         Signalling(s, known), Splices!Descriptor
  PROVE  Signalling(s, known)'
<1>1. /\ pc = "descriptors" /\ section = Splices!SignalSection(s, known) /\ arrived \in Nat
      /\ at \in Nat /\ 15 =< at /\ at =< loopEnd /\ cue = SignalCue(s)
      /\ loopEnd = Splices!Min({Limit, Splices!DescriptorsAt(s)[DescriptorCount(s) + 1]})
  BY DEF Signalling, SignalReads, Splices!Descriptor
<1>2. PICK n \in Nat, loops \in Nat, size \in Nat, limit \in Nat :
         /\ n = DescriptorCount(s) /\ loops = Splices!DescriptorsAt(s)[n + 1]
         /\ size = Splices!TimeSize(s.timed)
         /\ section.length = loops + 4 /\ 15 + size + 2 =< loops
         /\ limit = Limit /\ (limit < loops => arrived < section.length)
         /\ limit =< loops + 4
  BY <1>1, SignalContext
<1>3. PICK j \in 0 .. n : at = Splices!DescriptorsAt(s)[j + 1] /\ cues = Splices!Meant(s)[j]
  BY <1>1, <1>2 DEF Signalling, SignalReads
<1>4. PICK end \in Nat : /\ loopEnd = end /\ end =< limit /\ end =< loops
                         /\ end = IF limit =< loops THEN limit ELSE loops
  BY <1>1, <1>2, LoopEndIs
<1>5. PICK f : f = Splices!DescriptorsAt(s)
  OBVIOUS
<1>6. /\ f \in [1 .. n + 1 -> Nat] /\ loops = f[n + 1] /\ at = f[j + 1]
      /\ \A i \in 1 .. n : f[i + 1] = f[i] + Splices!DescriptorSize(s.descriptors[i])
  BY <1>2, <1>3, <1>5, DescriptorsPlaced DEF DescriptorCount
<1>7. \A i \in 1 .. n : \A k \in 1 .. n + 1 : i < k
      => f[i] + Splices!DescriptorSize(s.descriptors[i]) =< f[k]
  BY <1>2, <1>5, DescriptorsPlaced DEF DescriptorCount
<1>8. CASE j = n
  <2>1. ~Splices!Has(2)
    BY <1>1, <1>4, <1>6, <1>8 DEF Splices!Has
  <2>2. Splices!Returns
    BY <2>1 DEF Splices!Descriptor
  <2>3. j \in 0 .. DescriptorCount(s) /\ j = DescriptorCount(s)
    BY <1>2, <1>8
  <2> QED BY <1>3, <2>2, <2>3, SignalReturns
<1>9. CASE j # n
  <2>1. PICK i \in 1 .. n : i = j + 1
    <3>1. j + 1 \in 1 .. n
      BY <1>9
    <3> QED BY <3>1
  <2>2. PICK d \in Splices!Kinds : d = s.descriptors[i]
    BY <1>2, <2>1, SignalTyped DEF DescriptorCount
  <2>3. PICK long \in Nat : long = Splices!DescriptorSize(d) /\ 6 =< long
    BY DescriptorPlaces
  <2>4. at = f[i] /\ f[i + 1] = at + long /\ at + long =< loops
    <3>1. n + 1 \in 1 .. n + 1 /\ i < n + 1
      OBVIOUS
    <3>2. f[i] + Splices!DescriptorSize(s.descriptors[i]) =< f[n + 1]
      BY <1>7, <3>1
    <3> QED BY <3>2, <1>6, <2>1, <2>2, <2>3
  <2>5. Laid(section.fields, 2, loops) /\ Splices!DescriptorFields(at, d) \subseteq section.fields
    <3>1. Laid(section.fields, 2, loops)
          /\ Splices!DescriptorFields(Splices!DescriptorsAt(s)[i], s.descriptors[i])
               \subseteq section.fields
      <4>1. n = Len(s.descriptors) /\ loops = Splices!DescriptorsAt(s)[n + 1]
        BY <1>2 DEF DescriptorCount
      <4>2. section = Splices!SignalSection(s, known)
        BY <1>1
      <4> QED BY <4>1, <4>2, SignalHolds
    <3> QED BY <1>5, <2>2, <2>4, <3>1
  <2>6. Splices!Flags(1) = long - 2
    <3>1. Splices!At(at + 1, 1, long - 2) \in section.fields
      BY <2>3, <2>5 DEF Splices!DescriptorFields
    <3> QED BY <2>5, <3>1, FlagsRead
  <2>7. Splices!Inside(Splices!Flags(1)) <=> at + long =< end
    BY <1>4, <2>3, <2>6, <1>1 DEF Splices!Inside, Splices!Has
  <2>8. CASE ~Splices!Has(2) \/ ~Splices!Inside(Splices!Flags(1))
    <3>1. limit < loops
      <4>1. end < at + long
        BY <1>1, <1>4, <2>3, <2>7, <2>8 DEF Splices!Has
      <4> QED BY <4>1, <1>1, <1>4, <2>4
    <3>2. arrived < section.length
      BY <1>2, <3>1
    <3>3. Splices!Returns
      BY <2>8 DEF Splices!Descriptor
    <3>4. j \in 0 .. DescriptorCount(s)
      BY <1>2
    <3> QED BY <1>3, <3>2, <3>3, <3>4, SignalReturns
  <2>9. CASE Splices!Has(2) /\ Splices!Inside(Splices!Flags(1))
    <3>1. /\ at' = at + 2 + Splices!Flags(1)
          /\ cues' = CuesBehind
          /\ UNCHANGED <<section, arrived, promised, pc, loopEnd, count, cue>>
      BY <2>9 DEF Splices!Descriptor, Splices!packet, CuesBehind
    <3>2. at' = f[i + 1] /\ at' \in Nat /\ 15 =< at' /\ at' =< loopEnd'
      <4>1. at' = at + long
        BY <1>1, <2>3, <2>6, <3>1
      <4>2. at + long =< end
        BY <2>7, <2>9
      <4>3. loopEnd' = end
        BY <1>4, <3>1
      <4> QED BY <1>1, <2>4, <4>1, <4>2, <4>3
    <3>3. CuesBehind =
          IF d.system = "CUEI" THEN Append(cues, Splices!SegmentationMeans(s, d)) ELSE cues
      <4>1. Limit \in Nat /\ at + Splices!DescriptorSize(d) =< Limit
        <5>1. at + long =< end
          BY <2>7, <2>9
        <5>2. at + long =< limit
          BY <1>1, <1>4, <5>1
        <5> QED BY <1>2, <2>3, <5>2
      <4>2. s.timed \in BOOLEAN
        BY SignalTyped
      <4>3. cue = SignalCue(s) /\ at \in Nat
        BY <1>1
      <4>4. Laid(section.fields, 2, loops)
        BY <2>5
      <4>5. Splices!DescriptorFields(at, d) \subseteq section.fields
        BY <2>5
      <4> QED BY <4>1, <4>2, <4>3, <4>4, <4>5, DescriptorMeans
    <3>4. Splices!Meant(s)[i] =
          IF d.system = "CUEI" THEN Append(cues, Splices!SegmentationMeans(s, d)) ELSE cues
      <4>1. Splices!Meant(s)[i] = IF s.descriptors[i].system = "CUEI"
                          THEN Append(Splices!Meant(s)[i - 1],
                              Splices!SegmentationMeans(s, s.descriptors[i]))
                          ELSE Splices!Meant(s)[i - 1]
        BY <1>2, SignalTyped, MeantIs DEF DescriptorCount
      <4>2. i - 1 = j
        BY <2>1
      <4> QED BY <1>3, <2>2, <4>1, <4>2
    <3>5. cues' = Splices!Meant(s)[i]
      BY <3>1, <3>3, <3>4
    <3>6. \E k \in 0 .. DescriptorCount(s) : at' = Splices!DescriptorsAt(s)[k + 1]
          /\ cues' = Splices!Meant(s)[k]
      <4>1. i \in 0 .. DescriptorCount(s) /\ at' = Splices!DescriptorsAt(s)[i + 1]
        BY <1>2, <1>5, <3>2
      <4> QED BY <3>5, <4>1
    <3>7. Limit' = Limit
      BY <3>1 DEF Limit
    <3>8. loopEnd' = Splices!Min({Limit', Splices!DescriptorsAt(s)[DescriptorCount(s) + 1]})
          /\ cue' = SignalCue(s)
          /\ pc' = "descriptors"
      BY <1>1, <3>1, <3>7
    <3>9. SignalReads(s)'
      BY <3>2, <3>6, <3>8 DEF SignalReads
    <3> QED BY <3>1, <3>8, <3>9 DEF Signalling
  <2> QED BY <2>8, <2>9
<1> QED BY <1>8, <1>9

-----------------------------------------------------------------------------
(* The inductive invariant: the parser has nothing yet, or is at a place   *)
(* of a splice_insert or of a time_signal where the cue it fills in has    *)
(* what the splicer laid out before the cursor.                            *)
NothingSent ==
    /\ section.length = 0 /\ pc = "idle" /\ cues = <<>>
    /\ count \in [left : Nat, all : Nat] /\ count.left =< count.all
SpliceInv ==
    \/ NothingSent
    \/ \E c \in Splices!Inserts : Inserting(c)
    \/ \E s \in Splices!Signals : \E known \in BOOLEAN : Signalling(s, known)

(* Nothing is sent at first.                                               *)
LEMMA SpliceInit == Splices!Init => SpliceInv
<1> SUFFICES ASSUME Splices!Init PROVE NothingSent
  BY DEF SpliceInv
<1>1. section = [fields |-> {}, length |-> 0] /\ pc = "idle" /\ cues = <<>>
      /\ count = [left |-> 0, all |-> 0]
  BY DEF Splices!Init
<1> QED BY <1>1 DEF NothingSent

(* A section arrives once, before anything else.                           *)
LEMMA ArrivesFirst ==
  ASSUME Segmentations \subseteq Splices!Kinds, SpliceInv, pc = "idle", section.length = 0
  PROVE  NothingSent
<1>1. ASSUME NEW c \in Splices!Inserts, Inserting(c) PROVE FALSE
  <2>1. section.length = Splices!InsertEnd(c) + 6 /\ Splices!InsertEnd(c) \in Nat
    BY <1>1, InsertContext
  <2> QED BY <2>1
<1>2. ASSUME NEW s \in Splices!Signals, NEW known \in BOOLEAN, Signalling(s, known) PROVE FALSE
  <2>1. section = Splices!SignalSection(s, known) /\ arrived \in Nat
    BY <1>2 DEF Signalling
  <2>2. PICK loops \in Nat : section.length = loops + 4
    BY <2>1, SignalContext
  <2> QED BY <2>2
<1> QED BY <1>1, <1>2 DEF SpliceInv

(* What arrives: less than the header, or a section the parser begins.     *)
LEMMA Arrived ==
  ASSUME NEW type, NEW whole, NEW means, Splices!Arrives(type, whole, means), NothingSent,
         NEW loops \in Nat, whole.length = loops + 4, 15 =< loops, Padding \in Nat,
         Laid(whole.fields, 2, loops), Splices!At(2, 2, loops) \in whole.fields
  PROVE  /\ section' = whole /\ promised' = means /\ arrived' \in Nat
         /\ count' \in [left : Nat, all : Nat] /\ count'.left =< count'.all /\ cues' = <<>>
         /\ cue' = [Splices!Base EXCEPT !.command = type]
         /\ \/ arrived' < section'.length /\ pc' = "idle"
            \/ pc' = type /\ at' = 15 /\ at' =< loopEnd' /\ loopEnd' = Limit'
<1>1. /\ section' = whole /\ promised' = means /\ UNCHANGED <<count, cues>>
      /\ arrived' \in 1 .. (whole.length + Padding) /\ cue' = [Splices!Base EXCEPT !.command = type]
  BY DEF Splices!Arrives
<1>2. PICK a \in Nat : a = arrived'
  BY <1>1
<1>3. CASE a < 15
  <2>1. pc' = "idle" /\ arrived' < section'.length
    BY <1>1, <1>2, <1>3 DEF Splices!Arrives, NothingSent, Splices!HEADER
  <2> QED BY <1>1, <1>2, <2>1 DEF NothingSent
<1>4. CASE ~(a < 15)
  <2>1. pc' = type /\ at' = 15 /\ loopEnd' = Splices!End(Splices!FieldAt(2)'.value, a)
    BY <1>2, <1>4 DEF Splices!Arrives, Splices!HEADER
  <2>2. Splices!FieldAt(2)'.value = loops
    <3>1. (CHOOSE e \in whole.fields : e[1] = 2)[2] = [size |-> 2, value |-> loops]
      BY ChosenIs
    <3>2. Splices!FieldAt(2)' = [size |-> 2, value |-> loops]
      BY <1>1, <3>1 DEF Splices!FieldAt
    <3> QED BY <3>2
  <2>3. PICK l \in Nat : l = loops + 4 /\ l = section'.length
    BY <1>1
  <2>4. loopEnd' = Splices!Min({l, a})
    BY <2>1, <2>2, <2>3 DEF Splices!End
  <2>5. Limit' = Splices!Min({a, l})
    BY <1>2, <2>3 DEF Limit
  <2>6. {a, l} = {l, a}
    OBVIOUS
  <2>7. Splices!Min({a, l}) = IF a =< l THEN a ELSE l
    BY LoopEndIs
  <2>8. loopEnd' = Limit' /\ 15 =< loopEnd'
    BY <1>4, <2>3, <2>4, <2>5, <2>6, <2>7
  <2> QED BY <1>1, <1>2, <2>1, <2>8 DEF NothingSent
<1> QED BY <1>3, <1>4

(* A splice_insert arrives.                                                *)
LEMMA InsertArrivesStep ==
  ASSUME Segmentations \subseteq Splices!Kinds, Padding \in Nat, SpliceInv, Splices!InsertArrives
  PROVE  SpliceInv'
<1>1. PICK c \in Splices!Inserts :
      Splices!Arrives("insert", Splices!InsertSection(c), <<Splices!InsertMeans(c)>>)
  BY DEF Splices!InsertArrives
<1>2. NothingSent
  BY <1>1, ArrivesFirst DEF Splices!Arrives
<1>3. PICK whole, means : whole = Splices!InsertSection(c) /\ means = <<Splices!InsertMeans(c)>>
  OBVIOUS
<1>4. PICK end \in Nat, loops \in Nat :
         end = Splices!InsertEnd(c) /\ 20 =< end /\ loops = end + 2 /\ whole.length = loops + 4
  <2>1. Splices!InsertEnd(c) \in Nat /\ 20 =< Splices!InsertEnd(c)
        /\ whole.length = Splices!InsertEnd(c) + 6
    BY <1>3, InsertHolds
  <2> QED BY <2>1
<1>5. Laid(whole.fields, 2, loops) /\ Splices!At(2, 2, loops) \in whole.fields
  BY <1>3, <1>4, InsertHolds
<1>6. PICK type : type = "insert"
  OBVIOUS
<1>7. Splices!Arrives(type, whole, means) /\ 15 =< loops
  BY <1>1, <1>3, <1>4, <1>6
<1>8. /\ section' = whole /\ promised' = means /\ arrived' \in Nat
      /\ count' \in [left : Nat, all : Nat] /\ count'.left =< count'.all /\ cues' = <<>>
      /\ cue' = [Splices!Base EXCEPT !.command = type]
  BY <1>2, <1>4, <1>5, <1>7, Arrived
<1>9. \/ arrived' < section'.length /\ pc' = "idle"
      \/ pc' = type /\ at' = 15 /\ at' =< loopEnd' /\ loopEnd' = Limit'
  BY <1>2, <1>4, <1>5, <1>7, Arrived
<1>10. CASE arrived' < section'.length /\ pc' = "idle"
  <2>1. InsertDone(c)'
    BY <1>8, <1>10 DEF InsertDone
  <2>2. Inserting(c)'
    BY <1>3, <1>8, <1>10, <2>1 DEF Inserting
  <2> QED BY <2>2 DEF SpliceInv
<1>11. CASE pc' = type /\ at' = 15 /\ at' =< loopEnd' /\ loopEnd' = Limit'
  <2>1. cue' = InsertCue(NONE, FALSE, FALSE, FALSE, NONE, NONE, NONE)
    BY <1>6, <1>8 DEF Splices!Base, InsertCue
  <2>2. pc' = "insert" /\ at' \in Nat /\ 15 =< at'
    BY <1>6, <1>11
  <2>3. InsertReads(c)'
    BY <1>8, <1>11, <2>1, <2>2 DEF InsertReads, Splices!HEADER
  <2>4. Inserting(c)'
    BY <1>3, <1>6, <1>8, <1>11, <2>3 DEF Inserting
  <2> QED BY <2>4 DEF SpliceInv
<1> QED BY <1>9, <1>10, <1>11

(* A time_signal arrives.                                                  *)
LEMMA SignalArrivesStep ==
  ASSUME Segmentations \subseteq Splices!Kinds, Padding \in Nat, SpliceInv, Splices!SignalArrives
  PROVE  SpliceInv'
<1>1. PICK s \in Splices!Signals, known \in BOOLEAN :
         Splices!Arrives("signal", Splices!SignalSection(s, known), Splices!SignalMeans(s))
  BY DEF Splices!SignalArrives
<1>2. NothingSent
  BY <1>1, ArrivesFirst DEF Splices!Arrives
<1>3. PICK whole, means : whole = Splices!SignalSection(s, known) /\ means = Splices!SignalMeans(s)
  OBVIOUS
<1>4. PICK n \in Nat : n = Len(s.descriptors) /\ DOMAIN s.descriptors = 1 .. n
  BY SignalTyped
<1>5. PICK loops \in Nat : loops = Splices!DescriptorsAt(s)[n + 1]
  <2>1. Splices!DescriptorsAt(s) \in [1 .. n + 1 -> Nat] /\ n + 1 \in 1 .. n + 1
    BY <1>4, DescriptorsPlaced
  <2> QED BY <2>1
<1>6. /\ whole.length = loops + 4 /\ 15 + Splices!TimeSize(s.timed) + 2 =< loops
      /\ Laid(whole.fields, 2, loops) /\ Splices!At(2, 2, loops) \in whole.fields
  BY <1>3, <1>4, <1>5, SignalHolds
<1>7. PICK type : type = "signal"
  OBVIOUS
<1>8. Splices!Arrives(type, whole, means) /\ 15 =< loops
  <2>1. Splices!TimeSize(s.timed) \in Nat
    BY DEF Splices!TimeSize
  <2> QED BY <1>1, <1>3, <1>6, <1>7, <2>1
<1>9. /\ section' = whole /\ promised' = means /\ arrived' \in Nat
      /\ count' \in [left : Nat, all : Nat] /\ count'.left =< count'.all /\ cues' = <<>>
      /\ cue' = [Splices!Base EXCEPT !.command = type]
  BY <1>2, <1>6, <1>8, Arrived
<1>10. \/ arrived' < section'.length /\ pc' = "idle"
       \/ pc' = type /\ at' = 15 /\ at' =< loopEnd' /\ loopEnd' = Limit'
  BY <1>2, <1>6, <1>8, Arrived
<1>11. CASE arrived' < section'.length /\ pc' = "idle"
  <2>1. Splices!Meant(s)[0] = <<>> /\ 0 \in 0 .. DescriptorCount(s)
    BY <1>4, MeantIs DEF DescriptorCount
  <2>2. SignalDone(s)'
    BY <1>9, <1>11, <2>1 DEF SignalDone
  <2>3. Signalling(s, known)'
    BY <1>3, <1>9, <1>11, <2>2 DEF Signalling
  <2> QED BY <2>3 DEF SpliceInv
<1>12. CASE pc' = type /\ at' = 15 /\ at' =< loopEnd' /\ loopEnd' = Limit'
  <2>1. cue' = TimedCue(NONE, FALSE)
    BY <1>7, <1>9 DEF Splices!Base, TimedCue
  <2>2. pc' = "signal" /\ at' \in Nat /\ 15 =< at'
    BY <1>7, <1>12
  <2>3. SignalReads(s)'
    BY <1>9, <1>12, <2>1, <2>2 DEF SignalReads
  <2>4. Signalling(s, known)'
    BY <1>3, <1>7, <1>9, <1>12, <2>3 DEF Signalling
  <2> QED BY <2>4 DEF SpliceInv
<1> QED BY <1>10, <1>11, <1>12

(* A step of the parser belongs to the command that has arrived.           *)
LEMMA SpliceNext ==
  ASSUME Segmentations \subseteq Splices!Kinds, Padding \in Nat, SpliceInv,
         [Splices!Next]_spliceVars
  PROVE  SpliceInv'
<1>1. CASE Splices!InsertArrives
  BY <1>1, InsertArrivesStep
<1>2. CASE Splices!SignalArrives
  BY <1>2, SignalArrivesStep
<1>3. CASE Splices!SpliceInsert
  <2>1. Splices!InInsert
    BY <1>3 DEF Splices!SpliceInsert, Splices!Truncated, Splices!EventId, Splices!InsertFlags,
       Splices!SpliceTime, Splices!Components, Splices!Component,
                Splices!BreakDuration, Splices!ProgramId, Splices!Step, Splices!InInsert
  <2>2. PICK c \in Splices!Inserts : Inserting(c)
    <3>1. ~NothingSent
      BY <2>1 DEF NothingSent, Splices!InInsert
    <3>2. \A s \in Splices!Signals : \A known \in BOOLEAN : ~Signalling(s, known)
      BY <2>1 DEF Signalling, SignalReads, Splices!InInsert
    <3> QED BY <3>1, <3>2 DEF SpliceInv
  <2> QED BY <1>3, <2>2, InsertNext DEF SpliceInv
<1>4. CASE Splices!TimeSignal
  <2>1. pc \in {"signal", "descriptors"}
    BY <1>4 DEF Splices!TimeSignal, Splices!SignalTime, Splices!Descriptor
  <2>2. PICK s \in Splices!Signals, known \in BOOLEAN : Signalling(s, known)
    <3>1. ~NothingSent
      BY <2>1 DEF NothingSent
    <3>2. \A c \in Splices!Inserts : ~Inserting(c)
      BY <2>1 DEF Inserting, InsertReads
    <3> QED BY <3>1, <3>2 DEF SpliceInv
  <2>3. Signalling(s, known)'
    BY <1>4, <2>2, SignalTimeStep, DescriptorStep DEF Splices!TimeSignal
  <2> QED BY <2>3 DEF SpliceInv
<1>5. CASE UNCHANGED spliceVars
  <2>1. UNCHANGED <<section, arrived, promised, pc, at, loopEnd, count, cue, cues>>
    BY <1>5 DEF spliceVars
  <2>2. NothingSent => NothingSent'
    BY <2>1 DEF NothingSent
  <2>3. ASSUME NEW c \in Splices!Inserts, Inserting(c) PROVE Inserting(c)'
    BY <2>1, <2>3 DEF Inserting, InsertDone, InsertReads, Limit
  <2>4. ASSUME NEW s \in Splices!Signals, NEW known \in BOOLEAN, Signalling(s, known)
        PROVE  Signalling(s, known)'
    BY <2>1, <2>4 DEF Signalling, SignalDone, SignalReads, Limit
  <2> QED BY <2>2, <2>3, <2>4 DEF SpliceInv
<1>6. Splices!InsertArrives \/ Splices!SignalArrives \/ Splices!SpliceInsert \/ Splices!TimeSignal
      \/ UNCHANGED spliceVars
  BY DEF Splices!Next
<1> QED BY <1>1, <1>2, <1>3, <1>4, <1>5, <1>6

(* Every cue meant by a time_signal is complete.                           *)
LEMMA MeantComplete ==
  ASSUME NEW s, NEW N \in Nat, DOMAIN s.descriptors = 1 .. N, N = Len(s.descriptors),
         NEW m \in 0 .. N, NEW i \in 1 .. Len(Splices!Meant(s)[m])
  PROVE  Splices!Meant(s)[m][i].complete = TRUE
<1>1. Splices!Meant(s)[m] \in Seq(MeantCues(s))
  BY MeantIs
<1>2. Splices!Meant(s)[m][i] \in MeantCues(s)
  BY <1>1, ElementOfSeq
<1>3. PICK d : Splices!Meant(s)[m][i] = Splices!SegmentationMeans(s, d)
  BY <1>2 DEF MeantCues
<1>4. PICK t, o : t = SignalTimeOf(s) /\ o = ~s.timed
  OBVIOUS
<1>5. PICK x : x = MeantBegun(t, o)
  OBVIOUS
<1>6. x = [command |-> "signal", event |-> "event", cancel |-> FALSE, out |-> FALSE,
           immediate |-> o, time |-> t, duration |-> NONE, program |-> NONE,
           upid |-> NONE, type |-> -1, direction |-> "unknown", complete |-> TRUE]
  BY <1>5, MeantBegunIs
<1>7. x = [Splices!Base EXCEPT !.command = "signal", !.event = "event", !.complete = TRUE,
                       !.immediate = ~s.timed, !.time = IF s.timed THEN 1 ELSE NONE]
  BY <1>4, <1>5 DEF SignalTimeOf, MeantBegun
<1>8. CASE d.cancel
  <2>1. Splices!SegmentationMeans(s, d) = [x EXCEPT !.cancel = TRUE]
    BY <1>7, <1>8 DEF Splices!SegmentationMeans
  <2> QED BY <1>3, <1>6, <2>1
<1>9. CASE ~d.cancel
  <2>1. Splices!SegmentationMeans(s, d)
          = [x EXCEPT !.upid = "upid type", !.type = d.type,
              !.direction = Splices!Direction(d.type),
                      !.out = Splices!Direction(d.type) = "out",
                      !.duration = IF d.duration THEN "segment" ELSE NONE]
    BY <1>7, <1>9 DEF Splices!SegmentationMeans
  <2> QED BY <1>3, <1>6, <2>1
<1> QED BY <1>8, <1>9

(* The cues of a splice_insert and of a time_signal are as sent.           *)
LEMMA InsertAsSent ==
  ASSUME NEW c \in Splices!Inserts, Inserting(c)
  PROVE  Splices!CueAsSent
<1>1. promised = <<Splices!InsertMeans(c)>> /\ arrived \in Nat
  BY DEF Inserting
<1>2. section.length \in Nat
  BY InsertContext
<1>3. CASE cues = <<>>
  <2>1. ~(pc = "idle" /\ arrived >= section.length)
    BY <1>1, <1>2, <1>3 DEF Inserting, InsertDone
  <2> QED BY <1>3, <2>1 DEF Splices!CueAsSent
<1>4. CASE cues # <<>>
  <2>1. pc = "idle"
    BY <1>4 DEF Inserting, InsertReads
  <2>2. PICK x : cues = <<x>>
        /\ IF x.complete THEN x = Splices!InsertMeans(c) ELSE arrived < section.length
    BY <1>4, <2>1 DEF Inserting, InsertDone
  <2>3. DOMAIN cues = {1} /\ Len(cues) = 1 /\ cues[1] = x /\ DOMAIN promised = {1}
        /\ promised[1] = Splices!InsertMeans(c)
    BY <1>1, <2>2
  <2>4. CASE x.complete
    BY <1>1, <2>2, <2>3, <2>4 DEF Splices!CueAsSent
  <2>5. CASE ~x.complete
    <3>1. ~(arrived >= section.length)
      BY <1>1, <1>2, <2>2, <2>5
    <3> QED BY <2>3, <2>5, <3>1 DEF Splices!CueAsSent
  <2> QED BY <2>4, <2>5
<1> QED BY <1>3, <1>4

(* The cues of a time_signal are as sent.                                  *)
LEMMA SignalAsSent ==
  ASSUME Segmentations \subseteq Splices!Kinds, NEW s \in Splices!Signals, NEW known \in BOOLEAN,
         Signalling(s, known)
  PROVE  Splices!CueAsSent
<1>1. section = Splices!SignalSection(s, known) /\ promised = Splices!SignalMeans(s)
      /\ arrived \in Nat
  BY DEF Signalling
<1>2. section.length \in Nat
  BY <1>1, SignalContext
<1>3. PICK n \in Nat : n = Len(s.descriptors) /\ DOMAIN s.descriptors = 1 .. n
  BY SignalTyped
<1>4. promised = Splices!Meant(s)[n]
  BY <1>1, <1>3 DEF Splices!SignalMeans
<1>5. Splices!Meant(s)[0] = <<>> /\ 0 \in 0 .. n
  <2>1. Splices!Meant(s)[0] = <<>>
    BY <1>3, MeantIs
  <2>2. 0 \in 0 .. n
    BY <1>3
  <2> QED BY <2>1, <2>2
<1>6. PICK m \in 0 .. n : /\ cues = Splices!Meant(s)[m]
                          /\ pc = "idle" => m = n \/ arrived < section.length
  <2>1. CASE pc = "idle"
    BY <1>3, <2>1 DEF Signalling, SignalDone, DescriptorCount
  <2>2. CASE pc = "signal"
    BY <1>5, <2>2 DEF Signalling, SignalReads
  <2>3. CASE pc = "descriptors"
    BY <1>3, <2>3 DEF Signalling, SignalReads, DescriptorCount
  <2> QED BY <2>1, <2>2, <2>3 DEF Signalling, SignalReads
<1>7. Splices!Meant(s)[m] \in Seq(MeantCues(s)) /\ Splices!Meant(s)[n] \in Seq(MeantCues(s))
  BY <1>3, MeantIs
<1>8. DOMAIN cues = 1 .. Len(cues) /\ DOMAIN promised = 1 .. Len(promised)
      /\ Len(cues) \in Nat /\ Len(promised) \in Nat
  BY <1>4, <1>6, <1>7, LenProperties
<1>9. Len(cues) =< Len(promised) /\ \A i \in 1 .. Len(cues) : cues[i] = promised[i]
  BY <1>3, <1>4, <1>6, MeantGrows
<1>10. \A i \in DOMAIN cues : i \in DOMAIN promised /\ cues[i] = promised[i]
       /\ cues[i].complete = TRUE
  <2> TAKE i \in DOMAIN cues
  <2>1. i \in 1 .. Len(Splices!Meant(s)[m])
    BY <1>6, <1>8
  <2>2. Splices!Meant(s)[m][i].complete = TRUE
    BY <1>3, <2>1, MeantComplete
  <2>3. i \in DOMAIN promised /\ cues[i] = promised[i]
    BY <1>8, <1>9
  <2> QED BY <1>6, <2>2, <2>3
<1>11. pc = "idle" /\ arrived >= section.length => cues = promised
  BY <1>1, <1>2, <1>4, <1>6
<1> QED BY <1>10, <1>11 DEF Splices!CueAsSent

(* The cursor is in what has arrived.                                      *)
LEMMA SignalCursor ==
  ASSUME Segmentations \subseteq Splices!Kinds, NEW s \in Splices!Signals, NEW known \in BOOLEAN,
         Signalling(s, known),
         pc # "idle"
  PROVE  at \in 15 .. loopEnd /\ loopEnd =< Limit
<1>1. section = Splices!SignalSection(s, known) /\ arrived \in Nat /\ SignalReads(s)
  BY DEF Signalling
<1>2. PICK n \in Nat, loops \in Nat, limit \in Nat :
         n = DescriptorCount(s) /\ loops = Splices!DescriptorsAt(s)[n + 1] /\ limit = Limit
  BY <1>1, SignalContext
<1>3. loopEnd = limit \/ loopEnd = Splices!Min({limit, loops})
  BY <1>1, <1>2 DEF SignalReads
<1>4. loopEnd \in Nat /\ loopEnd =< limit
  BY <1>3, LoopEndIs
<1> QED BY <1>1, <1>2, <1>4 DEF SignalReads

(* The invariant gives both: the cues are as sent, the cursor where it may be. *)
LEMMA SpliceSafe ==
  ASSUME Segmentations \subseteq Splices!Kinds, SpliceInv
  PROVE  Splices!CueAsSent /\ Splices!TypeOK
<1>1. CASE NothingSent
  BY <1>1 DEF NothingSent, Splices!CueAsSent, Splices!TypeOK
<1>2. ASSUME NEW c \in Splices!Inserts, Inserting(c) PROVE Splices!CueAsSent /\ Splices!TypeOK
  <2>1. Limit \in Nat /\ count \in [left : Nat, all : Nat] /\ count.left =< count.all
    BY <1>2, InsertContext DEF Inserting
  <2>2. pc # "idle" => at \in 15 .. loopEnd /\ loopEnd =< Limit
    BY <1>2, <2>1 DEF Inserting, InsertReads, Splices!HEADER
  <2>3. Splices!TypeOK
    BY <2>1, <2>2 DEF Splices!TypeOK, Splices!HEADER, Limit
  <2> QED BY <1>2, <2>3, InsertAsSent
<1>3. ASSUME NEW s \in Splices!Signals, NEW known \in BOOLEAN, Signalling(s, known)
      PROVE Splices!CueAsSent /\ Splices!TypeOK
  <2>1. count \in [left : Nat, all : Nat] /\ count.left =< count.all
    BY <1>3 DEF Signalling
  <2>2. pc # "idle" => at \in 15 .. loopEnd /\ loopEnd =< Limit
    BY <1>3, SignalCursor
  <2>3. Splices!TypeOK
    BY <2>1, <2>2 DEF Splices!TypeOK, Splices!HEADER, Limit
  <2> QED BY <1>3, <2>3, SignalAsSent
<1> QED BY <1>1, <1>2, <1>3 DEF SpliceInv
=============================================================================

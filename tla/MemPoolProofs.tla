--------------------------- MODULE MemPoolProofs ----------------------------
(***************************************************************************)
(* Proofs about the buffer pool, for a pool of any size and either kind:   *)
(* its inductive invariant, that no buffer is ever lost, that a return of  *)
(* a buffer that is out always finds its record, and that MemPool          *)
(* implements the promises of module Pool.                                 *)
(***************************************************************************)
EXTENDS MemPool, FiniteSetTheorems, TLAPS

Busy == {j \in Slots : ~disponible[j]}
Free == {j \in Slots : disponible[j]}

-----------------------------------------------------------------------------
(* Facts about the constants and the search.                               *)

LEMMA SlotsFact ==
  /\ Count \in Nat /\ Count > 0
  /\ 0 \in Slots
  /\ NULL \notin Handles
  /\ \A x \in Slots : (x + 1) % Count \in Slots
BY CountAssumption, NullAssumption, SMT DEF Slots, Handles

LEMMA ProbeType ==
  ASSUME pos \in Slots, NEW n \in Slots
  PROVE  Probe(n) \in Slots
BY CountAssumption, SMT DEF Slots, Probe

(* A full round of the search looks at every buffer.                       *)
LEMMA ProbeCovers ==
  ASSUME pos \in Slots, NEW i \in Slots
  PROVE  \E n \in Slots : Probe(n) = i
<1>1. CASE i >= pos
  <2>1. i - pos \in Slots /\ pos + (i - pos) = i
    BY <1>1, CountAssumption DEF Slots
  <2>2. i % Count = i
    BY CountAssumption, SMT DEF Slots
  <2> QED BY <2>1, <2>2 DEF Probe
<1>2. CASE ~(i >= pos)
  <2>1. (i - pos) + Count \in Slots /\ pos + ((i - pos) + Count) = i + Count
    BY <1>2, CountAssumption DEF Slots
  <2>2. (i + Count) % Count = i
    BY CountAssumption, SMT DEF Slots
  <2> QED BY <2>1, <2>2 DEF Probe
<1> QED BY <1>1, <1>2

-----------------------------------------------------------------------------
(* The invariant                                                           *)

LEMMA InitInv == Init => Inv
BY SlotsFact
   DEF Init, Inv, TypeOK, BooksMatch, RecordsClean, Handles

(* One step of the pool keeps the records and the callers' pointers in     *)
(* agreement.                                                              *)
LEMMA NextInv == Inv /\ [Next]_vars => Inv'
<1> SUFFICES ASSUME Inv, [Next]_vars PROVE Inv'
  OBVIOUS
<1> USE SlotsFact
<1>0. sized' = sized /\ Handles' = Handles
  BY DEF Next, TakeBlock, TakeHeap, TakeNoHeap, TakeNone, ReturnKnown, vars, Handles
<1> USE <1>0
<1>1. CASE TakeBlock
  <2>1. PICK n \in Slots :
          /\ StopsAt(n)
          /\ disponible' = [disponible EXCEPT ![Probe(n)] = FALSE]
          /\ pos' = PosAfter(n)
          /\ out' = out \cup {memory[Probe(n)]}
          /\ result' = memory[Probe(n)]
    BY <1>1 DEF TakeBlock
  <2>2. Probe(n) \in Slots
    BY ProbeType DEF Inv, TypeOK
  <2>3. sized /\ memory' = memory /\ memory[Probe(n)] = Probe(n) /\ Handles = Slots
    BY <1>1, <2>2 DEF TakeBlock, Inv, RecordsClean, Handles
  <2>4. TypeOK'
    BY <2>1, <2>2, <2>3 DEF Inv, TypeOK, PosAfter
  <2>5. BooksMatch'
    BY <2>1, <2>2, <2>3 DEF Inv, TypeOK, BooksMatch, RecordsClean
  <2>6. RecordsClean'
    BY <2>3 DEF Inv, RecordsClean
  <2> QED BY <2>4, <2>5, <2>6 DEF Inv
<1>2. CASE TakeHeap
  <2>1. PICK n \in Slots, a \in Addr \ out :
          /\ StopsAt(n)
          /\ disponible' = [disponible EXCEPT ![Probe(n)] = FALSE]
          /\ memory' = [memory EXCEPT ![Probe(n)] = a]
          /\ pos' = PosAfter(n)
          /\ out' = out \cup {a}
          /\ result' = a
    BY <1>2 DEF TakeHeap
  <2>2. Probe(n) \in Slots /\ disponible[Probe(n)]
    BY <2>1, ProbeType DEF Inv, TypeOK, StopsAt
  <2>3. ~sized /\ Handles = Addr /\ a # NULL
    BY <1>2, <2>1 DEF TakeHeap, Handles
  <2>4. TypeOK'
    BY <2>1, <2>2, <2>3 DEF Inv, TypeOK, PosAfter
  <2>5. BooksMatch'
    BY <2>1, <2>2, <2>3 DEF Inv, TypeOK, BooksMatch
  <2>6. RecordsClean'
    BY <2>1, <2>2, <2>3 DEF Inv, TypeOK, RecordsClean
  <2> QED BY <2>4, <2>5, <2>6 DEF Inv
<1>3. CASE TakeNoHeap
  <2>1. PICK n \in Slots :
          /\ StopsAt(n)
          /\ disponible' = [disponible EXCEPT ![Probe(n)] = FlagAfterNoHeap]
          /\ pos' = PosAfter(n)
    BY <1>3 DEF TakeNoHeap
  <2>2. Probe(n) \in Slots /\ disponible[Probe(n)]
    BY <2>1, ProbeType DEF Inv, TypeOK, StopsAt
  <2>3. disponible' = disponible /\ memory' = memory /\ out' = out /\ result' = NULL
    BY <1>3, <2>1, <2>2 DEF TakeNoHeap, FlagAfterNoHeap, Inv, TypeOK
  <2>4. pos' \in Slots
    BY <2>1, <2>2 DEF PosAfter
  <2> QED BY <2>3, <2>4 DEF Inv, TypeOK, BooksMatch, RecordsClean
<1>4. CASE TakeNone
  BY <1>4 DEF TakeNone, Inv, TypeOK, BooksMatch, RecordsClean
<1>5. CASE ReturnKnown
  <2>1. PICK h \in out : \E i \in Owners(h) :
          /\ disponible' = [disponible EXCEPT ![i] = TRUE]
          /\ memory' = [memory EXCEPT ![i] = Forgotten(i)]
          /\ out' = out \ {h}
          /\ result' = ACCEPTED
          /\ UNCHANGED <<sized, pos>>
    BY <1>5 DEF ReturnKnown
  <2>2. PICK i \in Owners(h) :
          /\ disponible' = [disponible EXCEPT ![i] = TRUE]
          /\ memory' = [memory EXCEPT ![i] = Forgotten(i)]
          /\ out' = out \ {h}
          /\ result' = ACCEPTED
          /\ UNCHANGED <<sized, pos>>
    BY <2>1
  <2>3. i \in Slots /\ memory[i] = h /\ h # NULL
    BY <2>1, <2>2 DEF Owners, Inv, TypeOK
  <2>4. ~disponible[i]
    BY <2>2, <2>3 DEF Inv, RecordsClean, Owners
  <2>5. TypeOK'
    BY <2>2, <2>3 DEF Inv, TypeOK, Forgotten
  <2>6. BooksMatch'
    BY <2>2, <2>3, <2>4 DEF Inv, TypeOK, BooksMatch, Forgotten
  <2>7. RecordsClean'
    BY <2>2, <2>3, <2>4 DEF Inv, TypeOK, RecordsClean, Forgotten
  <2> QED BY <2>5, <2>6, <2>7 DEF Inv
<1>6. CASE UNCHANGED vars
  BY <1>6 DEF vars, Inv, TypeOK, BooksMatch, RecordsClean
<1> QED BY <1>1, <1>2, <1>3, <1>4, <1>5, <1>6 DEF Next

(* The pool's variables keep their types, its records and the pointers the *)
(* callers hold agree, and no record of a returned heap buffer lingers, in *)
(* every reachable state.                                                  *)
THEOREM Invariance == Spec => []Inv
BY InitInv, NextInv, PTL DEF Spec

-----------------------------------------------------------------------------
(* Counting the buffers                                                    *)

(* The records of the buffers that are out map one to one to the pointers  *)
(* the callers hold.                                                       *)
LEMMA OutCount ==
  ASSUME Inv
  PROVE  /\ IsFiniteSet(out)
         /\ IsFiniteSet(Busy)
         /\ Cardinality(out) = Cardinality(Busy)
<1> DEFINE f == [i \in Busy |-> memory[i]]
<1>1. IsFiniteSet(Slots)
  BY SlotsFact, FS_Interval DEF Slots
<1>2. IsFiniteSet(Busy)
  BY <1>1, FS_Subset DEF Busy
<1>3. f \in Bijection(Busy, out)
  <2>1. f \in [Busy -> out]
    BY DEF Inv, BooksMatch, Busy
  <2>2. \A a, b \in Busy : f[a] = f[b] => a = b
    BY DEF Inv, BooksMatch, Busy
  <2>3. \A h \in out : \E i \in Busy : f[i] = h
    BY DEF Inv, BooksMatch, Busy
  <2> QED
    BY <2>1, <2>2, <2>3 DEF Bijection, Injection, Surjection, IsInjective
<1>4. ExistsBijection(Busy, out)
  BY <1>3 DEF ExistsBijection
<1> QED BY <1>2, <1>4, FS_Bijection

LEMMA SlotCount ==
  ASSUME Inv
  PROVE  /\ IsFiniteSet(Slots) /\ Cardinality(Slots) = Count
         /\ IsFiniteSet(Free)
         /\ Cardinality(Free) + Cardinality(Busy) = Count
<1>1. IsFiniteSet(Slots) /\ Cardinality(Slots) = Count
  BY CountAssumption, FS_Interval DEF Slots
<1>2. Free = Slots \ Busy /\ Slots \cap Busy = Busy
  BY DEF Free, Busy
<1>3. IsFiniteSet(Busy) /\ IsFiniteSet(Free)
  BY <1>1, FS_Subset DEF Free, Busy
<1>4. Cardinality(Free) = Cardinality(Slots) - Cardinality(Busy)
  BY <1>1, <1>2, FS_Difference
<1> QED
  BY <1>1, <1>3, <1>4, FS_CardinalityType, CountAssumption

(* What memory_unused counts and what the callers hold always make up the  *)
(* whole pool.                                                             *)
THEOREM ConservedAlways == Spec => []Conserved
<1>1. Inv => Conserved
  <2> SUFFICES ASSUME Inv PROVE Conserved
    OBVIOUS
  <2>1. Unused = Cardinality(Free)
    BY DEF Unused, Free
  <2> QED BY <2>1, OutCount, SlotCount DEF Conserved
<1> QED BY <1>1, Invariance, PTL

(* memory_return always finds the record of a pointer that is out, so it   *)
(* never refuses one, and in a heap pool never aborts the process.         *)
THEOREM ReturnAlwaysFindsOwner == Spec => []ReturnFindsOwner
<1>1. Inv => ReturnFindsOwner
  <2> SUFFICES ASSUME Inv, NEW h \in out PROVE Owners(h) # {}
    BY DEF ReturnFindsOwner
  <2>1. PICK i \in Slots : ~disponible[i] /\ memory[i] = h
    BY DEF Inv, BooksMatch
  <2>2. CASE sized
    BY <2>1, <2>2 DEF Owners, Inv, RecordsClean
  <2>3. CASE ~sized
    <3>1. ASSUME NEW j \in 0 .. (i - 1) PROVE memory[j] # h
      <4>1. j \in Slots /\ j # i
        BY CountAssumption DEF Slots
      <4>2. CASE disponible[j]
        BY <2>1, <2>3, <4>1, <4>2, SlotsFact DEF Inv, RecordsClean, TypeOK
      <4>3. CASE ~disponible[j]
        BY <2>1, <4>1, <4>3 DEF Inv, BooksMatch
      <4> QED BY <4>2, <4>3
    <3> QED BY <2>1, <2>3, <3>1 DEF Owners
  <2> QED BY <2>2, <2>3
<1> QED BY <1>1, Invariance, PTL

-----------------------------------------------------------------------------
(* Refinement                                                              *)

(* A buffer that may be taken leaves room for one more pointer to be out;  *)
(* when the search meets none, every buffer is out.                        *)
LEMMA RoomLeft ==
  ASSUME Inv, NEW i \in Slots, disponible[i]
  PROVE  Cardinality(out) < Count
<1>1. Free # {}
  BY DEF Free
<1>2. Cardinality(Free) # 0 /\ Cardinality(Free) \in Nat
  BY <1>1, SlotCount, FS_EmptySet, FS_CardinalityType
<1> QED
  BY <1>2, OutCount, SlotCount, FS_CardinalityType

LEMMA NoRoom ==
  ASSUME Inv, NoneFound
  PROVE  Cardinality(out) = Count
<1>1. Free = {}
  BY ProbeCovers DEF Free, NoneFound, Inv, TypeOK
<1>2. Cardinality(Free) = 0
  BY <1>1, FS_EmptySet
<1> QED
  BY <1>2, OutCount, SlotCount, FS_CardinalityType

(* Module Pool counts with the same operator.                              *)
LEMMA SameCardinality ==
  ASSUME NEW S
  PROVE  Promise!Cardinality(S) = Cardinality(S)
BY DEF Cardinality, Promise!Cardinality

LEMMA StepRefines == Inv /\ [Next]_vars => [Promise!Next]_(Promise!vars)
<1> SUFFICES ASSUME Inv, [Next]_vars PROVE [Promise!Next]_(Promise!vars)
  OBVIOUS
<1> USE DEF Promise!Next, Promise!vars
<1>0. sized' = sized
  BY DEF Next, TakeBlock, TakeHeap, TakeNoHeap, TakeNone, ReturnKnown, vars
<1>same. Promise!Handles = Handles
  BY DEF Promise!Handles, Handles
<1> USE <1>0, <1>same
<1>1. CASE TakeBlock
  <2>1. PICK n \in Slots :
          /\ StopsAt(n)
          /\ out' = out \cup {memory[Probe(n)]}
          /\ result' = memory[Probe(n)]
    BY <1>1 DEF TakeBlock
  <2>2. Probe(n) \in Slots /\ disponible[Probe(n)]
    BY <2>1, ProbeType DEF StopsAt, Inv, TypeOK
  <2>3. memory[Probe(n)] \in Handles \ out
    <3>1. sized /\ memory[Probe(n)] = Probe(n)
      BY <1>1, <2>2 DEF TakeBlock, Inv, RecordsClean
    <3>2. ASSUME memory[Probe(n)] \in out PROVE FALSE
      <4>1. PICK j \in Slots : ~disponible[j] /\ memory[j] = memory[Probe(n)]
        BY <3>2 DEF Inv, BooksMatch
      <4> QED BY <2>2, <3>1, <4>1 DEF Inv, RecordsClean
    <3> QED BY <2>2, <3>1, <3>2 DEF Handles
  <2>4. Cardinality(out) < Count
    BY <2>2, RoomLeft
  <2> QED BY <2>1, <2>3, <2>4, SameCardinality DEF Promise!Give
<1>2. CASE TakeHeap
  <2>1. PICK n \in Slots, a \in Addr \ out :
          StopsAt(n) /\ out' = out \cup {a} /\ result' = a
    BY <1>2 DEF TakeHeap
  <2>2. Probe(n) \in Slots /\ disponible[Probe(n)]
    BY <2>1, ProbeType DEF StopsAt, Inv, TypeOK
  <2>3. a \in Handles \ out
    BY <1>2, <2>1 DEF TakeHeap, Handles
  <2> QED BY <2>1, <2>2, <2>3, RoomLeft, SameCardinality DEF Promise!Give
<1>3. CASE TakeNoHeap
  BY <1>3 DEF TakeNoHeap, Promise!Refuse
<1>4. CASE TakeNone
  <2>1. Cardinality(out) = Count
    BY <1>4, NoRoom DEF TakeNone
  <2> QED BY <1>4, <2>1, SameCardinality DEF TakeNone, Promise!Refuse
<1>5. CASE ReturnKnown
  BY <1>5 DEF ReturnKnown, Promise!Restore
<1>6. CASE UNCHANGED vars
  BY <1>6 DEF vars
<1> QED BY <1>1, <1>2, <1>3, <1>4, <1>5, <1>6 DEF Next

(* Every behaviour of the pool is one module Pool allows: a take fails     *)
(* only when all Count buffers are out (or malloc fails), never hands out  *)
(* a buffer somebody holds, and every return is accepted.                  *)
THEOREM ImplementsPool == Spec => PoolSpec
<1>1. Init => Promise!Init
  BY DEF Init, Promise!Init
<1>2. [Next]_vars /\ Inv => [Promise!Next]_(Promise!vars)
  BY StepRefines
<1> QED BY <1>1, <1>2, Invariance, PTL DEF Spec, PoolSpec, Promise!Spec
=============================================================================

------------------------------ MODULE MemPool -------------------------------
(***************************************************************************)
(* The buffer pool of source/mempool.c. The hub creates four of them, for  *)
(* messages, transport packets, audio frames and video frames, all sized:  *)
(* one block of memory cut into buffers. The file's other kind of pool,    *)
(* size 0, takes each buffer from the heap; nothing in srthub.c makes one. *)
(*                                                                         *)
(* Every operation runs from start to end under the pool's mutex           *)
(* (reflock), so an operation is one step; the only thing read before the  *)
(* lock is the index in front of a sized buffer, which memory_create       *)
(* writes once. A buffer is often returned by another thread than the one  *)
(* that took it, so what the callers hold is one set, "out".               *)
(***************************************************************************)
EXTENDS Integers, FiniteSets

CONSTANTS
    Count,      \* memory_create's count: the number of buffers
    Addr,       \* addresses malloc may return to a pool of size 0
    NULL,       \* the null pointer
    ACCEPTED    \* memory_return's 0

ASSUME CountAssumption == Count \in Nat \ {0}
ASSUME NullAssumption == NULL \notin Addr \cup (0 .. (Count - 1))

VARIABLES
    sized,      \* TRUE when memory_create's size is positive
    disponible, \* refs[i].disponible: buffer i may be taken
    memory,     \* refs[i].memory: the block or the heap address of buffer i
    pos,        \* where the next search starts
    out,        \* the pointers handed out and not returned yet
    result      \* what the last call returned

vars == <<sized, disponible, memory, pos, out, result>>

Slots == 0 .. (Count - 1)

(* A sized pool's pointers are its blocks, named by the index memory_create *)
(* stores in front of each; a pool of size 0 hands out heap addresses.      *)
Handles == IF sized THEN Slots ELSE Addr

(* memory_create: every buffer may be taken and, in a sized pool, sits at   *)
(* its block for good.                                                      *)
Init ==
    /\ sized \in BOOLEAN
    /\ disponible = [i \in Slots |-> TRUE]
    /\ memory = [i \in Slots |-> IF sized THEN i ELSE NULL]
    /\ pos = 0
    /\ out = {}
    /\ result = NULL

-----------------------------------------------------------------------------
(* memory_take                                                             *)

(* The buffer the n-th try of the search looks at.                          *)
Probe(n) == (pos + n) % Count

(* The search stops at its n-th try: the first one to meet a buffer that    *)
(* may be taken.                                                            *)
StopsAtAny(n) == n = 0
StopsAt(n) ==
    /\ disponible[Probe(n)]
    /\ \A m \in 0 .. (n - 1) : ~disponible[Probe(m)]

(* The search always moves past the buffer it settles on.                   *)
PosAfterNoWrap(n) == Probe(n) + 1
PosAfter(n) == (Probe(n) + 1) % Count

(* No try of a full round met a buffer.                                     *)
NoneFoundShort == \A n \in 0 .. (Count - 2) : ~disponible[Probe(n)]
NoneFound == \A n \in Slots : ~disponible[Probe(n)]

(* What giving up a buffer for want of heap memory leaves in its flag.      *)
FlagAfterNoHeapLeaked == FALSE
FlagAfterNoHeap == TRUE

(* A sized buffer is found and handed out.                                  *)
TakeBlock ==
    /\ sized
    /\ \E n \in Slots :
        /\ StopsAt(n)
        /\ disponible' = [disponible EXCEPT ![Probe(n)] = FALSE]
        /\ pos' = PosAfter(n)
        /\ out' = out \cup {memory[Probe(n)]}
        /\ result' = memory[Probe(n)]
    /\ UNCHANGED <<sized, memory>>

(* A buffer is found and malloc gives it an address nobody holds.           *)
TakeHeap ==
    /\ ~sized
    /\ \E n \in Slots, a \in Addr \ out :
        /\ StopsAt(n)
        /\ disponible' = [disponible EXCEPT ![Probe(n)] = FALSE]
        /\ memory' = [memory EXCEPT ![Probe(n)] = a]
        /\ pos' = PosAfter(n)
        /\ out' = out \cup {a}
        /\ result' = a
    /\ UNCHANGED sized

(* A buffer is found and malloc fails: the buffer is given up again, the    *)
(* search position has moved on.                                            *)
TakeNoHeap ==
    /\ ~sized
    /\ \E n \in Slots :
        /\ StopsAt(n)
        /\ disponible' = [disponible EXCEPT ![Probe(n)] = FlagAfterNoHeap]
        /\ pos' = PosAfter(n)
    /\ result' = NULL
    /\ UNCHANGED <<sized, memory, out>>

(* Count tries met no buffer: the position is back where it was.            *)
TakeNone ==
    /\ NoneFound
    /\ result' = NULL
    /\ UNCHANGED <<sized, disponible, memory, pos, out>>

-----------------------------------------------------------------------------
(* memory_return                                                           *)

(* The buffers memory_return may settle on for pointer h: in a sized pool   *)
(* the one named in front of h, provided it is h's and is not already back; *)
(* in a pool of size 0 the first one in the table that records h.           *)
OwnersFlagSwapped(h) == {i \in Slots : memory[i] = h /\ disponible[i]}
Owners(h) ==
    IF sized
    THEN {i \in Slots : i = h /\ memory[i] = h /\ ~disponible[i]}
    ELSE {i \in Slots : /\ memory[i] = h
                        /\ \A j \in 0 .. (i - 1) : memory[j] # h}

(* What the record of a buffer holds once it is back: a heap buffer has     *)
(* been freed and its record must not match a later allocation.             *)
ForgottenNever(i) == memory[i]
Forgotten(i) == IF sized THEN memory[i] ELSE NULL

(* A thread that holds h gives it back.                                     *)
ReturnKnown ==
    \E h \in out : \E i \in Owners(h) :
        /\ disponible' = [disponible EXCEPT ![i] = TRUE]
        /\ memory' = [memory EXCEPT ![i] = Forgotten(i)]
        /\ out' = out \ {h}
        /\ result' = ACCEPTED
        /\ UNCHANGED <<sized, pos>>

(* memory_unused adds up the flags under the lock.                          *)
Unused == Cardinality({i \in Slots : disponible[i]})

Next ==
    \/ TakeBlock
    \/ TakeHeap
    \/ TakeNoHeap
    \/ TakeNone
    \/ ReturnKnown

Spec == Init /\ [][Next]_vars

-----------------------------------------------------------------------------
(* Properties                                                              *)

(* Fields and results stay in their types; the search position, which each  *)
(* try moves, stays inside the table.                                       *)
TypeOK ==
    /\ sized \in BOOLEAN
    /\ disponible \in [Slots -> BOOLEAN]
    /\ memory \in [Slots -> Handles \cup {NULL}]
    /\ pos \in Slots
    /\ out \subseteq Handles
    /\ result \in Handles \cup {NULL, ACCEPTED}

(* The pointers the callers hold are exactly those recorded by the buffers  *)
(* that may not be taken, and no two such buffers record the same pointer:  *)
(* what memory_take hands out and what memory_return looks up agree.        *)
BooksMatch ==
    /\ out = {memory[i] : i \in {j \in Slots : ~disponible[j]}}
    /\ \A i, j \in Slots :
        ~disponible[i] /\ ~disponible[j] /\ memory[i] = memory[j] => i = j

(* A record that is not out never matches a live heap pointer; a sized      *)
(* record never moves.                                                      *)
RecordsClean ==
    \A i \in Slots :
        IF sized THEN memory[i] = i ELSE disponible[i] <=> memory[i] = NULL

(* No buffer is ever lost or counted twice: those memory_unused counts and  *)
(* those the callers hold make up the pool, over any sequence of takes,     *)
(* failed heap allocations, returns and address reuse.                      *)
Conserved == Unused + Cardinality(out) = Count

(* A thread returning a pointer it took always finds its buffer: the heap   *)
(* variant would abort the process otherwise, the sized one would refuse    *)
(* with -1, which no caller looks at.                                       *)
ReturnFindsOwner == \A h \in out : Owners(h) # {}

(* The inductive invariant the proofs rest on.                              *)
Inv == TypeOK /\ BooksMatch /\ RecordsClean

(* The pool keeps the promises of module Pool: the round-robin search       *)
(* misses no free buffer, and hands none out twice.                         *)
Promise ==
    INSTANCE Pool WITH heapFails <- ~sized, Blocks <- Slots, Addresses <- Addr
(* Every step of the pool is a step of module Pool.                         *)
PoolSpec == Promise!Spec
=============================================================================

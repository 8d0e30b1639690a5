-------------------------------- MODULE Pool --------------------------------
(***************************************************************************)
(* What a buffer pool promises to the threads that share it, whatever the  *)
(* order it searches its buffers in: a take hands out a buffer nobody      *)
(* holds and fails only when every buffer is out (or, where buffers come   *)
(* from the heap, when the heap is exhausted), and a return of a buffer    *)
(* that is out is accepted and makes room for exactly one more.            *)
(*                                                                         *)
(* MemPool, which models mempool.c, is shown to implement this module.     *)
(***************************************************************************)
EXTENDS Integers, FiniteSets

CONSTANTS
    Count,      \* how many buffers may be out at once
    Blocks,     \* the pointers a take may hand out in a pool of fixed blocks
    Addresses,  \* and in one that takes its buffers from the heap
    NULL,       \* the pointer a failed take returns
    ACCEPTED    \* what a return of a buffer that is out answers

VARIABLES
    heapFails,  \* TRUE when a take may fail for want of heap memory
    out,        \* the pointers handed out and not returned yet
    result      \* what the last call returned

vars == <<heapFails, out, result>>

Init == heapFails \in BOOLEAN /\ out = {} /\ result = NULL

Handles == IF heapFails THEN Addresses ELSE Blocks

(* A take that succeeds. *)
Give ==
    /\ Cardinality(out) < Count
    /\ \E h \in Handles \ out : out' = out \cup {h} /\ result' = h

(* A take that fails. *)
Refuse ==
    /\ heapFails \/ Cardinality(out) = Count
    /\ result' = NULL
    /\ UNCHANGED out

(* A return, by whichever thread holds the buffer now. *)
Restore ==
    \E h \in out : out' = out \ {h} /\ result' = ACCEPTED

Next == (Give \/ Refuse \/ Restore) /\ UNCHANGED heapFails

Spec == Init /\ [][Next]_vars
=============================================================================

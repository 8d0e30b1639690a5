------------------------------- MODULE Deque --------------------------------
(***************************************************************************)
(* What a message queue promises: a sequence of messages that is added to  *)
(* and taken from at either end, whose takes return the message that is    *)
(* actually at that end. The hub adds at the front and takes from the      *)
(* back, which makes the queue first in, first out.                        *)
(*                                                                         *)
(* DataQueue, which models dataqueue.c, is shown to implement this module. *)
(***************************************************************************)
EXTENDS Sequences, Integers

CONSTANTS
    Messages,   \* the messages that may be queued
    NULL        \* what a take that finds nothing returns

VARIABLES
    q,          \* the queued messages, front first
    took,       \* what the last take returned
    did,        \* the operation last done, which the change must be one of
    running     \* the flag a waiting take gives up on

vars == <<q, took, did, running>>

Init == q = <<>> /\ took = NULL /\ did = "none" /\ running = TRUE

PutFront(m) == did' = "putFront" /\ q' = <<m>> \o q /\ UNCHANGED <<took, running>>
PutBack(m) == did' = "putBack" /\ q' = Append(q, m) /\ UNCHANGED <<took, running>>

TakeFront ==
    /\ q # <<>>
    /\ did' = "takeFront"
    /\ took' = Head(q)
    /\ q' = Tail(q)
    /\ UNCHANGED running

TakeBack ==
    /\ q # <<>>
    /\ did' = "takeBack"
    /\ took' = q[Len(q)]
    /\ q' = SubSeq(q, 1, Len(q) - 1)
    /\ UNCHANGED running

(* A take comes back with nothing only from an empty queue or, if it was a *)
(* waiting take, because its thread has been told to stop.                 *)
TakeNothing ==
    /\ q = <<>> \/ ~running
    /\ took' = NULL
    /\ did' \in {"takeFront", "takeBack"}
    /\ UNCHANGED <<q, running>>

Switch == running' \in BOOLEAN /\ UNCHANGED <<q, took, did>>

Next ==
    \/ \E m \in Messages : PutFront(m) \/ PutBack(m)
    \/ TakeFront
    \/ TakeBack
    \/ TakeNothing
    \/ Switch

Spec == Init /\ [][Next]_vars
=============================================================================

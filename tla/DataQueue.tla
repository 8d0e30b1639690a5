----------------------------- MODULE DataQueue ------------------------------
(***************************************************************************)
(* The message queue of source/dataqueue.c: a doubly linked list under a   *)
(* mutex (reflock) with a condition variable, used by every pair of        *)
(* threads in the hub. Producers add at the front; one consumer thread per *)
(* queue takes from the back, most of them with dataqueue_take_back_wait,  *)
(* which sleeps on the condition for 100 ms at a time so that it notices   *)
(* its stop flag, which the main loop clears without any lock or signal.   *)
(*                                                                         *)
(* An operation holds the mutex from start to end, except that a waiting   *)
(* take lets go of it while it sleeps; so each operation is one step and   *)
(* the waiting take is a check, a sleep and another check.                 *)
(***************************************************************************)
EXTENDS Sequences, Integers, FiniteSets

CONSTANTS
    Nodes,      \* addresses malloc may give to list nodes
    Messages,   \* the messages the threads exchange
    MaxStops,   \* bound: how often the consumer is stopped
    NULL

ASSUME NullAssumption == NULL \notin Nodes \cup Messages
ASSUME StopsAssumption == MaxStops \in Nat

VARIABLES
    head, tail, count,  \* the fields of queue_struct
    next, prev, message,\* the fields of the nodes
    running,            \* the consumer's stop flag
    pc,                 \* where the consumer is
    took,               \* what the last take returned
    did,                \* history: the operation last done
    stops,              \* how often the consumer has been stopped
    order               \* history: the queued nodes, front first

list == <<head, tail, count, next, prev, message, order>>
thread == <<running, pc, stops>>
answer == <<took, did>>
vars == <<list, thread, answer>>

(* The nodes in use; the others have been freed or never allocated, and     *)
(* keep whatever their memory last held.                                    *)
Linked == {order[i] : i \in 1 .. Len(order)}

Queued == {message[n] : n \in Linked}

(* dataqueue_create                                                         *)
Init ==
    /\ head = NULL /\ tail = NULL /\ count = 0
    /\ next = [n \in Nodes |-> NULL]
    /\ prev = [n \in Nodes |-> NULL]
    /\ message = [n \in Nodes |-> NULL]
    /\ running = TRUE /\ pc = "call"
    /\ took = NULL /\ did = "none" /\ stops = 0
    /\ order = <<>>

-----------------------------------------------------------------------------
(* dataqueue_put_front and dataqueue_put_back. A failed malloc returns -1   *)
(* and leaves the queue alone, which is a step that changes nothing here.   *)

(* cond_signal wakes the consumer if it sleeps.                             *)
SignalNobody == UNCHANGED thread
Signal ==
    /\ pc' = IF pc = "asleep" THEN "check" ELSE pc
    /\ UNCHANGED <<running, stops>>

(* put_front's links around the new node n.                                 *)
FrontLinksForgetPrev(n) ==
    /\ prev' = prev
    /\ next' = [next EXCEPT ![n] = head]
FrontLinks(n) ==
    /\ prev' = [i \in Nodes |->
                  IF i = n THEN NULL ELSE IF i = head THEN n ELSE prev[i]]
    /\ next' = [next EXCEPT ![n] = head]

PutFront(n, m) ==
    /\ n \notin Linked
    /\ FrontLinks(n)
    /\ message' = [message EXCEPT ![n] = m]
    /\ head' = n
    /\ tail' = IF head = NULL THEN n ELSE tail
    /\ count' = count + 1
    /\ order' = <<n>> \o order
    /\ did' = "putFront"
    /\ Signal
    /\ UNCHANGED took

PutBack(n, m) ==
    /\ n \notin Linked
    /\ next' = [i \in Nodes |->
                  IF i = n THEN NULL ELSE IF i = tail THEN n ELSE next[i]]
    /\ prev' = [prev EXCEPT ![n] = tail]
    /\ message' = [message EXCEPT ![n] = m]
    /\ tail' = n
    /\ head' = IF tail = NULL THEN n ELSE head
    /\ count' = count + 1
    /\ order' = Append(order, n)
    /\ did' = "putBack"
    /\ Signal
    /\ UNCHANGED took

-----------------------------------------------------------------------------
(* Taking a node off an end                                                 *)

(* The head pointer after the last node has gone from the back.             *)
HeadAfterUnlinkStale(t) == head
HeadAfterUnlink(t) == IF t = NULL THEN NULL ELSE head

(* From the front, for dataqueue_take_front.                                *)
UnlinkFront ==
    LET h == next[head] IN
    /\ head' = h
    /\ prev' = [i \in Nodes |-> IF i = h THEN NULL ELSE prev[i]]
    /\ tail' = IF h = NULL THEN NULL ELSE tail
    /\ next' = [next EXCEPT ![head] = NULL]
    /\ count' = count - 1
    /\ took' = message[head]
    /\ order' = Tail(order)
    /\ UNCHANGED message

(* From the back, for dataqueue_take_back and dataqueue_take_back_wait.     *)
UnlinkBack ==
    LET t == prev[tail] IN
    /\ tail' = t
    /\ next' = [i \in Nodes |-> IF i = t THEN NULL ELSE next[i]]
    /\ head' = HeadAfterUnlink(t)
    /\ prev' = [prev EXCEPT ![tail] = NULL]
    /\ count' = count - 1
    /\ took' = message[tail]
    /\ order' = SubSeq(order, 1, Len(order) - 1)
    /\ UNCHANGED message

(* An empty queue, or a stop: NULL, and the queue as it was.                *)
NothingCounted ==
    /\ took' = NULL
    /\ count' = count - 1
    /\ UNCHANGED <<head, tail, next, prev, message, order>>
Nothing == took' = NULL /\ UNCHANGED list

(* dataqueue_take_back by a thread that does not wait; dataqueue_take_front *)
TakeBack == did' = "takeBack" /\ IF tail # NULL THEN UnlinkBack ELSE Nothing
TakeFront == did' = "takeFront" /\ IF head # NULL THEN UnlinkFront ELSE Nothing

-----------------------------------------------------------------------------
(* The consumer: dataqueue_take_back_wait in its thread's loop              *)

(* The wait's loop condition, read under the mutex: the queue is empty and  *)
(* the thread may still run.                                                *)
KeepsWaitingDeaf == tail = NULL
KeepsWaiting == tail = NULL /\ running

(* The thread's loop calls take_back_wait.                                  *)
Call ==
    /\ pc = "call"
    /\ pc' = "check"
    /\ UNCHANGED <<list, answer, running, stops>>

Sleep ==
    /\ pc = "check" /\ KeepsWaiting
    /\ pc' = "asleep"
    /\ UNCHANGED <<list, answer, running, stops>>

(* The timed wait ends after 100 ms whether or not a put has signalled.     *)
TimesOut == pc = "asleep"
Timeout ==
    /\ TimesOut
    /\ pc' = "check"
    /\ UNCHANGED <<list, answer, running, stops>>

(* The consumer takes the oldest message and goes on to its next call.      *)
Receive ==
    /\ pc = "check" /\ ~KeepsWaiting
    /\ running /\ tail # NULL
    /\ UnlinkBack /\ did' = "takeBack"
    /\ pc' = "call"
    /\ UNCHANGED <<running, stops>>

(* Told to stop: the message, if there is one, stays in the queue. The      *)
(* output and thumbnail threads then empty the queue, the audio threads     *)
(* leave it to their successors.                                            *)
GiveUp ==
    /\ pc = "check" /\ ~KeepsWaiting
    /\ ~running \/ tail = NULL
    /\ Nothing /\ did' = "takeBack"
    /\ pc' \in {"drain", "exited"}
    /\ UNCHANGED <<running, stops>>

(* The exiting thread returns what is left, with take_back.                 *)
Drain ==
    /\ pc = "drain"
    /\ TakeBack
    /\ pc' = IF tail = NULL THEN "exited" ELSE "drain"
    /\ UNCHANGED <<running, stops>>

-----------------------------------------------------------------------------
(* The main loop: clears the flag, joins the thread, starts the next one    *)

Stop ==
    /\ running /\ stops < MaxStops
    /\ running' = FALSE
    /\ stops' = stops + 1
    /\ UNCHANGED <<list, answer, pc>>

Restart ==
    /\ ~running /\ pc = "exited"
    /\ running' = TRUE
    /\ pc' = "call"
    /\ UNCHANGED <<list, answer, stops>>

Consumer == Call \/ Sleep \/ Timeout \/ Receive \/ GiveUp \/ Drain

(* Any thread may use the other operations of the interface.                *)
Next ==
    \/ \E n \in Nodes, m \in Messages \ Queued : PutFront(n, m) \/ PutBack(n, m)
    \/ TakeFront /\ UNCHANGED thread
    \/ TakeBack /\ UNCHANGED thread
    \/ Consumer
    \/ Stop
    \/ Restart

(* The consumer's steps happen because its thread is scheduled and its wait *)
(* times out, and the main loop restarts what it has stopped; nobody has to *)
(* put or to stop.                                                          *)
Spec ==
    /\ Init /\ [][Next]_vars
    /\ WF_vars(Consumer)
    /\ WF_vars(Restart)

-----------------------------------------------------------------------------
(* Properties                                                               *)

(* The fields stay in their types; the count, which every take lowers,      *)
(* never goes below zero.                                                   *)
TypeOK ==
    /\ head \in Nodes \cup {NULL} /\ tail \in Nodes \cup {NULL}
    /\ count \in Nat
    /\ next \in [Nodes -> Nodes \cup {NULL}]
    /\ prev \in [Nodes -> Nodes \cup {NULL}]
    /\ message \in [Nodes -> Messages \cup {NULL}]
    /\ running \in BOOLEAN
    /\ pc \in {"call", "check", "asleep", "drain", "exited"}
    /\ took \in Messages \cup {NULL}
    /\ did \in {"none", "putFront", "putBack", "takeFront", "takeBack"}
    /\ stops \in 0 .. MaxStops
    /\ order \in Seq(Nodes)

(* Followed from the front along next, or from the back along prev, the     *)
(* list visits the same nodes in opposite orders and ends: an insertion or  *)
(* removal at one end never leaves a dangling link at the other.            *)
LinksMatch ==
    /\ head = IF order = <<>> THEN NULL ELSE order[1]
    /\ tail = IF order = <<>> THEN NULL ELSE order[Len(order)]
    /\ \A i \in 1 .. Len(order) :
        /\ next[order[i]] = IF i = Len(order) THEN NULL ELSE order[i + 1]
        /\ prev[order[i]] = IF i = 1 THEN NULL ELSE order[i - 1]
    /\ \A i, j \in 1 .. Len(order) : order[i] = order[j] => i = j

(* What dataqueue_get_size reports is the number of queued messages.        *)
CountMatches == count = Len(order)

(* The list as a whole: types, links and count.                             *)
Inv == TypeOK /\ LinksMatch /\ CountMatches

(* The consumer sleeps only on an empty queue, or has a wake-up coming: the *)
(* signal of a put is not lost to a consumer that was about to sleep.       *)
SleepsOnlyWhenEmpty == pc = "asleep" => tail = NULL

(* The list of nodes, seen as a sequence of messages.                       *)
Promise == INSTANCE Deque WITH q <- [i \in 1 .. Len(order) |-> message[order[i]]]
(* Every operation on the list is the operation of module Deque: nothing is *)
(* lost, doubled or reordered, and a waiting take comes back empty-handed   *)
(* only from an empty queue or because of a stop.                           *)
DequeSpec == Promise!Spec

(* A consumer that is told to stop leaves its loop, even if no message ever *)
(* comes: neither the sleep nor the queue holds it.                         *)
StopNoticed == ~running ~> pc \in {"drain", "exited"}

(* When, from some time on, messages are added to a queue that is not empty *)
(* only at the front, as srthub.c does, every message put is taken out,     *)
(* whatever stops and restarts of its consumer fall in between.             *)
AddsAtFront == Len(order') > Len(order) => head' # head
AllTaken ==
    <>[][AddsAtFront]_vars => \A m \in Messages : m \in Queued ~> m \notin Queued
=============================================================================

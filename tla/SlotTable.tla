----------------------------- MODULE SlotTable ------------------------------
(***************************************************************************)
(* What the SRT pull server promises about its fixed table of client       *)
(* slots: a slot belongs to at most one client at a time, a client gets at *)
(* most one slot in its life, and what it is sent are packets received     *)
(* while it had the slot, each at most once and in order.                  *)
(*                                                                         *)
(* PullServer, which models the threads of srthub.c, implements it.        *)
(***************************************************************************)
EXTENDS Integers

CONSTANTS
    Slots,      \* the table's slots
    Clients,    \* the SRT callers that connect
    NULL

VARIABLES
    owner,      \* the client each slot belongs to, or NULL
    served,     \* the clients that have been given a slot
    npkt,       \* how many packets have come in
    last        \* the newest packet each client has been sent

vars == <<owner, served, npkt, last>>

Init ==
    /\ owner = [s \in Slots |-> NULL]
    /\ served = {}
    /\ npkt = 0
    /\ last = [c \in Clients |-> 0]

(* A packet that is still being handed around when the client comes may    *)
(* reach it; an older one may not.                                         *)
Claim(s, c) ==
    /\ owner[s] = NULL /\ c \notin served
    /\ owner' = [owner EXCEPT ![s] = c]
    /\ served' = served \cup {c}
    /\ \E n \in {npkt - 1, npkt} \cap Nat : last' = [last EXCEPT ![c] = n]
    /\ UNCHANGED npkt

Release(s) ==
    /\ owner[s] # NULL
    /\ owner' = [owner EXCEPT ![s] = NULL]
    /\ UNCHANGED <<served, npkt, last>>

Arrive == npkt' = npkt + 1 /\ UNCHANGED <<owner, served, last>>

Deliver(s) ==
    /\ owner[s] # NULL
    /\ \E n \in (last[owner[s]] + 1) .. npkt :
        last' = [last EXCEPT ![owner[s]] = n]
    /\ UNCHANGED <<owner, served, npkt>>

Next ==
    \/ \E s \in Slots, c \in Clients : Claim(s, c)
    \/ \E s \in Slots : Release(s) \/ Deliver(s)
    \/ Arrive

Spec == Init /\ [][Next]_vars
=============================================================================

------------------------------ MODULE EventLog ------------------------------
(***************************************************************************)
(* What the outbox promises: the events of an aggregate form a log that    *)
(* only grows at its end; only an event of the log is delivered, a bounded *)
(* number of times; and none is recorded as sent that was not delivered.   *)
(*                                                                         *)
(* What is recorded of an event may change again, as a sweep whose claim   *)
(* has grown stale may still write it.                                     *)
(***************************************************************************)
EXTENDS Naturals, Sequences

CONSTANTS Events, Aggregate, MaxDeliveries

VARIABLES
    log,          \* per aggregate
    deliveries,   \* per event
    outcome       \* open, sent, failed

vars == <<log, deliveries, outcome>>

Aggregates == {Aggregate[e] : e \in Events}
Logged(e) == \E n \in 1..Len(log[Aggregate[e]]) : log[Aggregate[e]][n] = e

Init ==
    /\ log = [a \in Aggregates |-> <<>>]
    /\ deliveries = [e \in Events |-> 0]
    /\ outcome = [e \in Events |-> "open"]

Extend(e) ==
    /\ ~Logged(e)
    /\ log' = [log EXCEPT ![Aggregate[e]] = Append(@, e)]
    /\ UNCHANGED <<deliveries, outcome>>

Deliver(e) ==
    /\ Logged(e) /\ deliveries[e] < MaxDeliveries
    /\ deliveries' = [deliveries EXCEPT ![e] = @ + 1]
    /\ UNCHANGED <<log, outcome>>

(* Of the events S, which are in the log, something is recorded.           *)
Record(S, end) ==
    /\ \A e \in S : Logged(e)
    /\ end = "sent" => \A e \in S : deliveries[e] > 0
    /\ outcome' = [e \in Events |-> IF e \in S THEN end ELSE outcome[e]]
    /\ UNCHANGED <<log, deliveries>>

Next ==
    \/ \E e \in Events : Extend(e) \/ Deliver(e)
    \/ \E S \in SUBSET Events, end \in {"open", "sent", "failed"} : Record(S, end)

Spec == Init /\ [][Next]_vars

=============================================================================

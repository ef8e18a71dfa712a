------------------------------ MODULE MCOutbox ------------------------------
(* A small instance of Outbox for TLC.                                     *)
EXTENDS Outbox

OneAggregate == [e \in Events |-> 1]
=============================================================================

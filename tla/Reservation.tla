---------------------------- MODULE Reservation -----------------------------
(***************************************************************************)
(* What metering promises about the money of each request: it is reserved  *)
(* at most once; freed only if the provider cannot have been called;       *)
(* otherwise charged once, or estimated at no less than the reserve and    *)
(* then corrected at most once.                                            *)
(***************************************************************************)
EXTENDS Naturals

CONSTANT Requests

VARIABLES
    account,      \* none, open, free, estimate, final
    committed,    \* what the request has reserved or costs
    called        \* its provider may have been called

vars == <<account, committed, called>>

Init ==
    /\ account = [r \in Requests |-> "none"]
    /\ committed = [r \in Requests |-> 0]
    /\ called = [r \in Requests |-> FALSE]

(* The account of r moves, to an amount that the step restricts further.   *)
Move(r, from, to) ==
    /\ account[r] = from
    /\ account' = [account EXCEPT ![r] = to]
    /\ committed'[r] \in Nat
    /\ committed' = [committed EXCEPT ![r] = committed'[r]]
    /\ UNCHANGED called

Reserve(r)  == Move(r, "none", "open")
Call(r)     == /\ account[r] \in {"open", "estimate"}
               /\ called' = [called EXCEPT ![r] = TRUE]
               /\ UNCHANGED <<account, committed>>
Free(r)     == ~called[r] /\ Move(r, "open", "free") /\ committed'[r] = 0
Settle(r)   == Move(r, "open", "final")
Estimate(r) == Move(r, "open", "estimate") /\ committed'[r] >= committed[r]
Correct(r)  == Move(r, "estimate", "final")

Next == \E r \in Requests :
    Reserve(r) \/ Call(r) \/ Free(r) \/ Settle(r) \/ Estimate(r) \/ Correct(r)

Spec == Init /\ [][Next]_vars

=============================================================================

---------------------------- MODULE MCObjectLock ----------------------------
(***************************************************************************)
(* Instance of ObjectLock: handlers are interchangeable.                   *)
(***************************************************************************)
EXTENDS ObjectLock, TLC

OneStream == [u \in Users |-> IF u = "u1" THEN 1 ELSE 0]
TwoTicks == [u \in Users |-> IF u = "u2" THEN {2} ELSE {1}]
Handlers == Permutations(Callers)
=============================================================================

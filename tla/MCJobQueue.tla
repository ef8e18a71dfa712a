----------------------------- MODULE MCJobQueue -----------------------------
(* Small instances of JobQueue for TLC.                                    *)
EXTENDS JobQueue, TLC

CONSTANTS j1, j2, j3

(* One chat job and two generation jobs, at most one of them retried.      *)
MCType == [j \in Jobs |-> IF j = j1 THEN "chat_message" ELSE "initiative_detail"]
TypeAi == [j \in Jobs |-> "initiative_detail"]
RetryJ2 == [j \in Jobs |-> IF j = j2 THEN 1 ELSE 0]
NoRetry == [j \in Jobs |-> 0]

ChatAi == <<"chat", "ai">>
AiOnly == <<"ai">>
One == [c \in {"chat", "publishing", "ai"} |-> 1]

Symmetry == Permutations(Runners) \cup Permutations(Loops)
=============================================================================

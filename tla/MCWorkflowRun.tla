--------------------------- MODULE MCWorkflowRun ----------------------------
(***************************************************************************)
(* Instances of WorkflowRun: the matrix barrier, the fan-out and the join  *)
(* of the seeded workflow without its organizations; all of it.            *)
(*                                                                         *)
(* In the seed the join over the organizations has no condition and allows *)
(* an empty array, so that it is evaluated, and fires, in runs without     *)
(* automatic organizations too.  MCTransitions leaves it out there, with   *)
(* what follows it: with it the instance is beyond TLC, and                *)
(* WorkflowEarlyJoin is about it.                                          *)
(***************************************************************************)
EXTENDS WorkflowRun

G == INSTANCE GenerationWorkflow

OneOrganization == [i \in Inputs |->
    [organizationTargets |-> {"o1"},
     initiatives |-> IF i.matrix THEN {"u1", "u2"} ELSE {"u1"}]]

Calm == [i \in Inputs |-> 0]
OneFailure == [i \in Inputs |-> IF i.matrix THEN 0 ELSE 1]

WithMatrix == {[auto |-> FALSE, matrix |-> TRUE]}
WithoutOrganizations == {[auto |-> FALSE, matrix |-> m] : m \in BOOLEAN}
WithoutMatrix == {[auto |-> FALSE, matrix |-> FALSE]}
WithOrganizations == {[auto |-> TRUE, matrix |-> FALSE]}

Organizations == {"create_organizations", "organization_enrich", "organization_join"}
MCJobTasks == G!Jobs \ Organizations
MCTransitions ==
    SelectSeq(G!Arrows, LAMBDA t : {t.from, t.to} \cap Organizations = {})

AllNoopTasks == G!Noops
AllJobTasks == G!Jobs
AllTransitions == G!Arrows
AllWriters == G!ArrayWriters
=============================================================================

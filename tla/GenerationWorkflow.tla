------------------------- MODULE GenerationWorkflow -------------------------
(***************************************************************************)
(* The seeded workflow of use-case generation: its tasks, and the          *)
(* transitions in the order they were created.                             *)
(*                                                                         *)
(* A condition reads only the inputs of the run: `when` is the set of      *)
(* inputs for which it holds.  A fan-out dispatches one instance per item  *)
(* of the array at the path `over`; a join waits for the main instances of *)
(* the tasks in `needs` or, if there are none, for the instances of the    *)
(* task `joined` that the array at `over` asks for.                        *)
(***************************************************************************)
EXTENDS Naturals, Sequences

(* autoCreateOrganizations, matrixPreparationRequiredCondition             *)
RunInputs == [auto : BOOLEAN, matrix : BOOLEAN]
Auto == {i \in RunInputs : i.auto}
Given == RunInputs \ Auto
Matrix == {i \in RunInputs : i.matrix}

Noops == {"context_prepare", "todo_sync"}
Jobs == {"create_organizations", "organization_enrich", "organization_join",
         "matrix_prepare", "usecase_list", "usecase_detail", "executive_summary"}

Arrow(from, to, type, when) ==
    [from |-> from, to |-> to, type |-> type, when |-> when,
     over |-> "none", joined |-> from, needs |-> {}, allowEmpty |-> FALSE]
Fanout(from, to, path) == [Arrow(from, to, "fanout", RunInputs) EXCEPT !.over = path]
JoinAll(from, to, path, empty) ==
    [Arrow(from, to, "join", RunInputs) EXCEPT !.over = path, !.allowEmpty = empty]
Barrier(from) ==
    [Arrow(from, "todo_sync", "join", Given \cap Matrix) EXCEPT
        !.needs = {"usecase_list", "matrix_prepare"}]

Arrows == <<
    Arrow("none", "context_prepare", "next", RunInputs),
    Arrow("context_prepare", "matrix_prepare", "next", Given \cap Matrix),
    Arrow("context_prepare", "usecase_list", "next", RunInputs),
    Arrow("usecase_list", "create_organizations", "next", Auto),
    Fanout("create_organizations", "organization_enrich", "organizationTargets"),
    JoinAll("organization_enrich", "organization_join", "organizationTargets", TRUE),
    Arrow("usecase_list", "todo_sync", "next", Given \ Matrix),
    Barrier("usecase_list"),
    Arrow("organization_join", "matrix_prepare", "next", Matrix),
    Arrow("organization_join", "todo_sync", "next", RunInputs \ Matrix),
    Arrow("matrix_prepare", "todo_sync", "next", Auto),
    Barrier("matrix_prepare"),
    Fanout("todo_sync", "usecase_detail", "initiatives"),
    JoinAll("usecase_detail", "executive_summary", "initiatives", FALSE),
    Arrow("executive_summary", "none", "end", RunInputs) >>

(* The executors whose patch writes the array at a path; both arrays start *)
(* empty (buildInitialGenerationWorkflowState).                            *)
ArrayWriters == [organizationTargets |-> {"create_organizations"},
            initiatives |-> {"usecase_list", "create_organizations"}]

=============================================================================

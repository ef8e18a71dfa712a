---------------------------- MODULE WorkflowRun -----------------------------
(***************************************************************************)
(* A workflow run: task results, the versioned run state, and the jobs of  *)
(* the queue that execute tasks and dispatch what comes next               *)
(* (packages/flow/src/dispatch.ts and job-runner.ts over QueueManager and  *)
(* PostgresRunStore).                                                      *)
(*                                                                         *)
(* Worker 0 is the caller that starts the run, worker j executes job j.    *)
(* One step is one statement on the database.  The state of a run is the   *)
(* set of the task instances whose patch it contains, and the payload of   *)
(* an instance is the state it was resolved from.                          *)
(*                                                                         *)
(* Left out: cancel-all, which skips a dispatch; execution_runs.status,    *)
(* written after the status of the run and never read by a dispatch; an    *)
(* executor that ends the run itself (none of the seeded workflow does);   *)
(* the classes of a claim (JobQueue has them), here the oldest row first.  *)
(***************************************************************************)
EXTENDS Naturals, FiniteSets, SequencesExt

CONSTANTS
    NoopTasks, JobTasks, Transitions,   \* the definition, as in GenerationWorkflow
    Writers,        \* the tasks whose patch writes the array at a path
    Inputs,         \* inputs of the run
    Items,          \* by inputs: what is in these arrays
    Slots,          \* jobs executed at once
    RetryMax,       \* maxRetries of a dispatched job (1 in the code)
    MergeAttempts,  \* version races a merge survives (5 in the code)
    MaxRedeliveries,
    MaxJobs,        \* bound: rows of the queue
    MaxFailures     \* bound, by inputs: executors or statements that fail, crashes

ASSUME RunAssumption ==
    /\ {Slots, RetryMax, MergeAttempts, MaxRedeliveries, MaxJobs} \subseteq Nat
    /\ MaxFailures \in [Inputs -> Nat]
    /\ \A i \in Inputs, path \in DOMAIN Writers :
         "main" \notin Items[i][path] /\ IsFiniteSet(Items[i][path])

Tasks == NoopTasks \cup JobTasks
Main(task) == <<task, "main">>
Fanned(n) == {<<Transitions[n].to, x>> : x \in UNION {Items[i][Transitions[n].over] : i \in Inputs}}
Ids == 1..Len(Transitions)
Instances == {Main(t) : t \in Tasks}
             \cup UNION {Fanned(n) : n \in {m \in Ids : Transitions[m].type = "fanout"}}
Workers == 0..MaxJobs

ASSUME DefinitionAssumption ==
    /\ NoopTasks \cap JobTasks = {}
    /\ Len(Transitions) \in Nat
    /\ \A n \in Ids : LET t == Transitions[n] IN
         /\ t.type \in {"next", "fanout", "join", "end"}
         /\ t.type # "end" => t.to \in Tasks
         /\ t.type = "fanout" => t.over \in DOMAIN Writers
         /\ t.type = "join" => t.needs \subseteq JobTasks
         /\ t.type = "join" /\ t.needs = {} =>
              /\ t.joined \in JobTasks
              /\ \E m \in Ids : /\ Transitions[m].type = "fanout"
                                /\ Transitions[m].to = t.joined
                                /\ Transitions[m].over = t.over

VARIABLES
    inputs,
    result,     \* workflow_task_results.status
    run,        \* workflow_run_state: status, state, version
    jobs,       \* job_queue, in the order of creation
    \* a worker: its step, the routine that merges, the transitions and the
    \* instances it has still to dispatch, the row it read, lost version races
    pc, routine, agenda, read, tries,
    failures,
    \* history
    calm,       \* nothing has gone wrong
    broken      \* instances that have failed

tables == <<result, run, jobs>>
workers == <<pc, routine, agenda, read, tries>>
world == <<inputs, failures, calm>>
vars == <<tables, workers, world, broken>>

Unread == [version |-> 0, state |-> {}]
Idle == [w \in Workers |-> IF w = 0 THEN "done" ELSE "idle"]

(* What a routine has to dispatch, in the order of the definition: task    *)
(* instances, and the transitions that need the database, joins and ends.  *)
(* History: the instances that a join has been found to wait for.          *)
ArrayAt(path, state) ==
    IF \E t \in Writers[path] : Main(t) \in state THEN Items[inputs][path] ELSE {}
Entry(n, task, state, ready) ==
    [arrow |-> n, task |-> task, state |-> state, ready |-> ready, awaited |-> {}]
Instance(task, state) == Entry(0, task, state, TRUE)
Expand(n, state) ==
    LET t == Transitions[n] IN
    CASE t.type = "next" -> <<Instance(Main(t.to), state)>>
      [] t.type = "fanout" ->
           SetToSeq({Instance(<<t.to, x>>, state) : x \in ArrayAt(t.over, state)})
      [] t.type \in {"join", "end"} -> <<Entry(n, Main(t.to), state, FALSE)>>

From(task) == {n \in Ids : Transitions[n].from = task /\ inputs \in Transitions[n].when}
Joins == {n \in Ids : Transitions[n].type = "join" /\ inputs \in Transitions[n].when}
Plan(ids, state) ==
    FlattenSeq([n \in Ids |-> IF n \in ids THEN Expand(n, state) ELSE <<>>])

Init ==
    /\ inputs \in Inputs
    /\ result = [i \in Instances |-> "none"]
    /\ run = [status |-> "in_progress", state |-> {}, version |-> 1]
    /\ jobs = <<>>
    /\ pc = [Idle EXCEPT ![0] = "dispatch"]
    /\ routine = [w \in Workers |-> "none"]
    /\ agenda = [w \in Workers |-> IF w = 0 THEN Plan(From("none"), {}) ELSE <<>>]
    /\ read = [w \in Workers |-> Unread]
    /\ tries = [w \in Workers |-> 0]
    /\ failures = 0
    /\ calm = TRUE /\ broken = {}

-----------------------------------------------------------------------------
(* Steps of a worker                                                       *)

Goto(w, step) == pc' = [pc EXCEPT ![w] = step]
SetResult(i, status) == result' = [result EXCEPT ![i] = status]
Mine(w) == jobs[w].task

(* `steps` take the place of the head of the agenda.                       *)
Replace(w, steps) == agenda' = [agenda EXCEPT ![w] = steps \o Tail(agenda[w])]
Merge(w, caller) ==
    /\ Goto(w, "read")
    /\ routine' = [routine EXCEPT ![w] = caller]
    /\ tries' = [tries EXCEPT ![w] = 0]

(* An error leaves the routine.  The caller of a start gets it; runJob     *)
(* retries the job or fails the task; an error of its catch block leaves   *)
(* the row of the job as it is.                                            *)
Catching(w) == pc[w] \in {"retry", "requeue", "fail"} \/ routine[w] = "fail"
Retried(w, retryable) == retryable /\ jobs[w].attempt < RetryMax
Throw(w, retryable) ==
    /\ Goto(w, CASE w = 0 -> "done"
                 [] w > 0 /\ Catching(w) -> "idle"
                 [] w > 0 /\ ~Catching(w) ->
                      IF Retried(w, retryable) THEN "retry" ELSE "fail")
    /\ agenda' = [agenda EXCEPT ![w] = <<>>]
    /\ routine' = [routine EXCEPT ![w] = "none"]
    /\ tries' = [tries EXCEPT ![w] = 0]
    /\ calm' = FALSE

-----------------------------------------------------------------------------
(* mergeWorkflowRunState: read the version, write where it is still the    *)
(* one read.  Only a patch makes a new version.                            *)

StatusOf(caller) ==
    CASE caller \in {"start", "complete", "task"} -> "in_progress"
      [] caller = "end" -> "completed"
      [] caller = "fail" -> "failed"
PatchOf(w) == IF routine[w] = "complete" THEN {Mine(w)} ELSE {}
AfterMerge(caller) ==
    CASE caller = "complete" -> "publish"
      [] caller = "start" -> "read"
      [] caller \in {"task", "end"} -> "dispatch"
      [] caller = "fail" -> "close"

MergeRead(w) ==
    /\ pc[w] = "read"
    /\ read' = [read EXCEPT ![w] = [version |-> run.version, state |-> run.state]]
    /\ Goto(w, "write")
    /\ UNCHANGED <<tables, routine, agenda, tries, world, broken>>

CurrentAlways(w) == TRUE
Current(w) == run.version = read[w].version

MergeWrite(w) ==
    /\ pc[w] = "write" /\ Current(w)
    /\ run' = [status  |-> StatusOf(routine[w]),
               state   |-> read[w].state \cup PatchOf(w),
               version |-> read[w].version + (IF routine[w] = "complete" THEN 1 ELSE 0)]
    /\ Goto(w, AfterMerge(routine[w]))
    /\ routine' = [routine EXCEPT ![w] = IF @ = "start" THEN "complete" ELSE @]
    /\ read' = [read EXCEPT ![w] = Unread]
    /\ tries' = [tries EXCEPT ![w] = 0]
    /\ UNCHANGED <<result, jobs, agenda, world, broken>>

MergeConflict(w) ==
    /\ pc[w] = "write" /\ ~Current(w)
    /\ IF tries[w] + 1 < MergeAttempts
       THEN /\ Goto(w, "read")
            /\ tries' = [tries EXCEPT ![w] = @ + 1]
            /\ UNCHANGED <<routine, agenda, calm>>
       ELSE Throw(w, FALSE)
    /\ read' = [read EXCEPT ![w] = Unread]
    /\ UNCHANGED <<tables, inputs, failures, broken>>

-----------------------------------------------------------------------------
(* dispatchWorkflowTransitions and dispatchReadyWorkflowJoins              *)

Snapshot(w) == Head(agenda[w]).state
Todo(w) == Head(agenda[w]).task
Waiting(w) == agenda[w] # <<>> /\ ~Head(agenda[w]).ready
Tr(w) == Transitions[Head(agenda[w]).arrow]
ExpectedMain(t, state) == {Main(t.joined) : x \in ArrayAt(t.over, state)}
Expected(t, state) == {<<t.joined, x>> : x \in ArrayAt(t.over, state)}

(* isWorkflowJoinTransitionReady: the caller's state tells what to expect. *)
Awaited(t, state) ==
    IF t.needs # {} THEN {Main(task) : task \in t.needs} ELSE Expected(t, state)
Done(i) == result[i] = "completed"
Ready(t, state) ==
    IF Awaited(t, state) = {} THEN t.allowEmpty ELSE \A i \in Awaited(t, state) : Done(i)

At(w, type) == pc[w] = "dispatch" /\ Waiting(w) /\ Tr(w).type = type

Join(w) ==
    /\ At(w, "join")
    /\ IF Ready(Tr(w), Snapshot(w))
       THEN /\ Goto(w, "joined")
            /\ Replace(w, <<[Head(agenda[w]) EXCEPT !.awaited = Awaited(Tr(w), Snapshot(w))]>>)
       ELSE Replace(w, <<>>) /\ UNCHANGED pc
    /\ UNCHANGED <<tables, routine, read, tries, world, broken>>

End(w) ==
    /\ At(w, "end")
    /\ Replace(w, <<>>)
    /\ Merge(w, "end")
    /\ UNCHANGED <<tables, read, world, broken>>

(* A ready join takes the state of the run, not that of its caller.        *)
JoinStateOfCaller(w) == Snapshot(w)
JoinState(w) == run.state

Joined(w) ==
    /\ pc[w] = "joined"
    /\ Replace(w, <<[Head(agenda[w]) EXCEPT !.ready = TRUE, !.state = JoinState(w)]>>)
    /\ Goto(w, "dispatch")
    /\ UNCHANGED <<tables, routine, read, tries, world, broken>>

-----------------------------------------------------------------------------
(* dispatchWorkflowTask                                                    *)

(* A row that has not failed is somebody's already.                        *)
Check(w) ==
    /\ pc[w] = "dispatch" /\ agenda[w] # <<>> /\ ~Waiting(w)
    /\ \/ /\ result[Todo(w)] \notin {"none", "failed"}
          /\ Replace(w, <<>>) /\ UNCHANGED pc
       \/ result[Todo(w)] = "none" /\ Goto(w, "reserve") /\ UNCHANGED agenda
       \/ result[Todo(w)] = "failed" /\ Goto(w, "put") /\ UNCHANGED agenda
    /\ UNCHANGED <<tables, routine, read, tries, world, broken>>

FreeAlways(i) == TRUE
Free(i) == result[i] = "none"

Reserve(w) ==
    /\ pc[w] = "reserve"
    /\ \/ /\ Free(Todo(w))
          /\ SetResult(Todo(w), "pending")
          /\ Goto(w, "put") /\ UNCHANGED agenda
       \/ /\ ~Free(Todo(w))
          /\ Replace(w, <<>>)
          /\ Goto(w, "dispatch") /\ UNCHANGED result
    /\ UNCHANGED <<run, jobs, routine, read, tries, world, broken>>

PutNoop(w) ==
    /\ pc[w] = "put" /\ Todo(w)[1] \in NoopTasks
    /\ SetResult(Todo(w), "completed")
    /\ Replace(w, Plan(From(Todo(w)[1]), Snapshot(w)))
    /\ Merge(w, "task")
    /\ UNCHANGED <<run, jobs, read, world, broken>>

PutJob(w) ==
    /\ pc[w] = "put" /\ Todo(w)[1] \in JobTasks
    /\ SetResult(Todo(w), "pending")
    /\ Goto(w, "enqueue")
    /\ UNCHANGED <<run, jobs, routine, agenda, read, tries, world, broken>>

Insert(w) ==
    /\ Len(jobs) < MaxJobs
    /\ jobs' = Append(jobs, [task |-> Todo(w), status |-> "pending",
                             attempt |-> 0, redelivered |-> 0])
Enqueue(w) ==
    /\ pc[w] = "enqueue" /\ Insert(w)
    /\ Replace(w, <<>>)
    /\ Merge(w, "task")
    /\ UNCHANGED <<result, run, read, world, broken>>

-----------------------------------------------------------------------------
(* runJob                                                                  *)

Rows == DOMAIN jobs
SetJob(j, status) == jobs' = [jobs EXCEPT ![j].status = status]

InFlight == Cardinality({k \in Rows : jobs[k].status = "processing"})
RoomForOneMore == InFlight <= Slots
Room == InFlight < Slots

Claim(j) ==
    /\ j \in Rows /\ jobs[j].status = "pending" /\ pc[j] = "idle"
    /\ \A k \in 1..j-1 : jobs[k].status # "pending"
    /\ Room
    /\ SetJob(j, "processing")
    /\ Goto(j, "start")
    /\ UNCHANGED <<result, run, routine, agenda, read, tries, world, broken>>

Start(w) ==
    /\ pc[w] = "start"
    /\ SetResult(Mine(w), "in_progress")
    /\ Merge(w, "start")
    /\ UNCHANGED <<run, jobs, agenda, read, world, broken>>

(* The result is published after the patch is merged.                      *)
Publish(w) ==
    /\ pc[w] = "publish"
    /\ SetResult(Mine(w), "completed")
    /\ Goto(w, "snapshot")
    /\ UNCHANGED <<run, jobs, routine, agenda, read, tries, world, broken>>

TakeSnapshot(w) ==
    /\ pc[w] = "snapshot"
    /\ agenda' = [agenda EXCEPT ![w] =
                     Plan(From(Mine(w)[1]), run.state) \o Plan(Joins, run.state)]
    /\ Goto(w, "dispatch")
    /\ UNCHANGED <<tables, routine, read, tries, world, broken>>

(* Nothing is left to dispatch: the job is completed.                      *)
Finish(w) ==
    /\ w > 0 /\ pc[w] = "dispatch" /\ agenda[w] = <<>>
    /\ SetJob(w, "completed")
    /\ Goto(w, "idle")
    /\ routine' = [routine EXCEPT ![w] = "none"]
    /\ UNCHANGED <<result, run, agenda, read, tries, world, broken>>

(* The executor fails, or a statement that writes (a failed read has the   *)
(* effect of failing the write after it): nothing is written.              *)
Writes(w) ==
    \/ pc[w] \in {"write", "reserve", "put", "start", "publish", "retry", "requeue", "fail",
                  "close"}
    \/ w > 0 /\ pc[w] = "dispatch" /\ agenda[w] = <<>>
Fault(w) ==
    /\ failures < MaxFailures[inputs] /\ failures' = failures + 1
    /\ \E retryable \in {FALSE, w > 0} : Throw(w, retryable)
    /\ read' = [read EXCEPT ![w] = Unread]
Fails(w) ==
    /\ Writes(w) \/ (pc[w] = "read" /\ routine[w] = "complete")
    /\ Fault(w)
    /\ UNCHANGED <<tables, inputs, broken>>

(* addJob throws before its transaction or, by its NOTIFY, after it; the   *)
(* task fails, unless the write that says so fails too.                    *)
EnqueueFails(w) ==
    /\ pc[w] = "enqueue"
    /\ Fault(w)
    /\ Insert(w) \/ UNCHANGED jobs
    /\ \/ SetResult(Todo(w), "failed") /\ broken' = broken \cup {Todo(w)}
       \/ UNCHANGED <<result, broken>>
    /\ UNCHANGED <<run, inputs>>

RetryRow(w) ==
    /\ pc[w] = "retry"
    /\ SetResult(Mine(w), "pending")
    /\ Goto(w, "requeue")
    /\ UNCHANGED <<run, jobs, routine, agenda, read, tries, world, broken>>

Requeue(w) ==
    /\ pc[w] = "requeue"
    /\ jobs' = [jobs EXCEPT ![w].status = "pending", ![w].attempt = @ + 1]
    /\ Goto(w, "idle")
    /\ UNCHANGED <<result, run, routine, agenda, read, tries, world, broken>>

FailTask(w) ==
    /\ pc[w] = "fail"
    /\ SetResult(Mine(w), "failed")
    /\ broken' = broken \cup {Mine(w)}
    /\ Merge(w, "fail")
    /\ UNCHANGED <<run, jobs, agenda, read, world>>

FailJob(w) ==
    /\ pc[w] = "close"
    /\ SetJob(w, "failed")
    /\ Goto(w, "idle")
    /\ routine' = [routine EXCEPT ![w] = "none"]
    /\ UNCHANGED <<result, run, agenda, read, tries, world, broken>>

-----------------------------------------------------------------------------
(* The process dies; the sweep of JobQueue takes the rows nobody executes. *)

Crash ==
    /\ failures < MaxFailures[inputs] /\ failures' = failures + 1
    /\ calm' = FALSE
    /\ pc' = Idle
    /\ agenda' = [w \in Workers |-> <<>>]
    /\ routine' = [w \in Workers |-> "none"]
    /\ tries' = [w \in Workers |-> 0]
    /\ read' = [w \in Workers |-> Unread]
    /\ UNCHANGED <<tables, inputs, broken>>

Reap(j) ==
    /\ j \in Rows /\ jobs[j].status = "processing" /\ pc[j] = "idle"
    /\ jobs' = IF jobs[j].redelivered < MaxRedeliveries
               THEN [jobs EXCEPT ![j].status = "pending", ![j].redelivered = @ + 1]
               ELSE [jobs EXCEPT ![j].status = "failed"]
    /\ UNCHANGED <<result, run, workers, world, broken>>

-----------------------------------------------------------------------------

Step(w) ==
    \/ MergeRead(w) \/ MergeWrite(w) \/ MergeConflict(w)
    \/ Join(w) \/ Joined(w) \/ End(w) \/ Check(w) \/ Reserve(w)
    \/ PutNoop(w) \/ PutJob(w) \/ Enqueue(w)
    \/ Start(w) \/ Publish(w) \/ TakeSnapshot(w) \/ Finish(w)
    \/ RetryRow(w) \/ Requeue(w) \/ FailTask(w) \/ FailJob(w)

Next ==
    \/ \E w \in Workers : Step(w) \/ Fails(w) \/ EnqueueFails(w)
    \/ \E j \in Workers : Claim(j) \/ Reap(j)
    \/ Crash

Spec == Init /\ [][Next]_vars

(* Some worker goes on, or the loop claims the next row: each of them ends *)
(* after finitely many steps, so that the others get their turn.           *)
Work == (\E w \in Workers : Step(w)) \/ (\E j \in Workers : Claim(j))
FairSpec == Spec /\ WF_vars(Work)

-----------------------------------------------------------------------------
(* Properties                                                              *)

TypeOK ==
    /\ result \in [Instances -> {"none", "pending", "in_progress", "completed", "failed"}]
    /\ run.status \in {"in_progress", "completed", "failed"}
    /\ run.state \subseteq Instances
    /\ run.version = 1 + Cardinality(run.state) \/ (run.version > 1 /\ ~calm)
    /\ \A j \in Rows :
         /\ jobs[j].task \in Instances
         /\ jobs[j].status \in {"pending", "processing", "completed", "failed"}
         /\ jobs[j].attempt \in 0..RetryMax /\ jobs[j].redelivered \in 0..MaxRedeliveries
    /\ InFlight <= Slots
    /\ broken \subseteq Instances

(* A completed result has its patch in the state of the run: nobody reads  *)
(* the completion before the patch, and no concurrent merge loses it.      *)
CompletedIsMerged ==
    \A i \in Instances : Done(i) /\ i[1] \in JobTasks => i \in run.state

(* What a join dispatches is resolved from a state with the patch of every *)
(* task its check waited for, and that state tells of no other task to     *)
(* wait for: unless the join allows an empty array and found none.         *)
JoinSeesAll ==
    \A w \in Workers : pc[w] \in {"put", "enqueue"} /\ Head(agenda[w]).arrow # 0 =>
        LET awaited == Head(agenda[w]).awaited IN
        /\ awaited \subseteq Snapshot(w)
        /\ Awaited(Tr(w), Snapshot(w)) \subseteq awaited \/ (awaited = {} /\ Tr(w).allowEmpty)

(* However many workers reach an instance, and whatever is redelivered, it *)
(* has one job, unless it has failed: then it may be dispatched again.     *)
OneJob ==
    \A j, k \in Rows : j # k /\ jobs[j].task = jobs[k].task => jobs[j].task \in broken

(* As long as nothing goes wrong, some worker finds each join ready: the   *)
(* run comes to its end.                                                   *)
RunEnds == <>(run.status = "completed" \/ ~calm)

(* The test of the generation runtime and the specification of joins: a    *)
(* join waits for all the instances of its fan-out.                        *)
JoinWaits ==
    \A n \in Ids :
        LET t == Transitions[n] IN
        t.type = "join" /\ t.needs = {} /\ result[Main(t.to)] # "none" =>
            \A i \in Expected(t, run.state) : Done(i)

=============================================================================

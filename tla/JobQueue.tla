------------------------------ MODULE JobQueue ------------------------------
(***************************************************************************)
(* The Postgres job queue of the API process: admission (addJob), the      *)
(* processing loop, the per-job runner, the cancel/pause/purge controls    *)
(* and the reaper that recovers the rows a dead worker leaves behind.      *)
(*                                                                         *)
(* Every actor is an async function of one Node process; what the model    *)
(* interleaves are the stretches between two awaits.  The rows live in     *)
(* Postgres and survive a crash, everything else is memory and does not.   *)
(***************************************************************************)
EXTENDS Naturals, Sequences, FiniteSets

CONSTANTS
    Jobs,            \* job ids (one addJob call each)
    Type,            \* the job type of each job
    RetryMax,        \* executor-level retries (0 unless it is a workflow job)
    Mine,            \* the jobs of the workspace that may call purge-mine
    ClassOrder,      \* the order in which the loop serves the queue classes
    Limit,           \* maxAi / maxPublishing, per class
    MaxRedeliveries, \* QUEUE_MAX_REDELIVERIES
    Loops,           \* processing loops that can exist at the same time
    Runners,         \* runJob activations that can exist at the same time
    Admins,          \* cancel-all / purge / purge-mine requests, one each
    MaxRequests,     \* bound: pause, resume, cancel, delete, workflow-start calls
    MaxFaults,       \* bound: failed database calls
    MaxCrashes,      \* bound: process crashes
    None             \* no job / no runner

JobTypes == {"chat_message", "docx_generate", "initiative_detail"}

Class(j) == CASE Type[j] = "chat_message"  -> "chat"
              [] Type[j] = "docx_generate" -> "publishing"
              [] OTHER                     -> "ai"

IsChat(j) == Type[j] = "chat_message"

ASSUME JobsAssumption ==
    /\ IsFiniteSet(Jobs)
    /\ Type \in [Jobs -> JobTypes]
    /\ RetryMax \in [Jobs -> Nat]
    /\ \A j \in Jobs : IsChat(j) => RetryMax[j] = 0
    /\ Mine \subseteq Jobs
ASSUME ClassAssumption ==
    /\ ClassOrder \in Seq({"chat", "publishing", "ai"})
    /\ Len(ClassOrder) > 0
    /\ Limit \in [{"chat", "publishing", "ai"} -> Nat]
ASSUME BoundAssumption ==
    /\ MaxRedeliveries \in Nat
    /\ MaxRequests \in Nat
    /\ MaxFaults \in Nat
    /\ MaxCrashes \in Nat
ASSUME NoneAssumption == None \notin Jobs /\ None \notin Runners

VARIABLES
    \* job_queue rows
    status,       \* "absent" before the INSERT, "gone" after a DELETE
    attempts,     \* the attempts column: reaper requeues
    retried,      \* data._retry.attempt: executor retries
    stale,        \* processing, and started_at older than the threshold
    \* the process
    up,           \* serving requests (the boot sweep has run)
    isProcessing, \* QueueManager.isProcessing
    paused,       \* QueueManager.paused
    cancelAll,    \* QueueManager.cancelAllInProgress
    controllers,  \* QueueManager.jobControllers: job -> runner, or None
    hooks,        \* the runtime hooks last given to the shared adapter
    adding,       \* addJob activations
    loop,         \* processing loops
    run,          \* runJob activations
    cancelling,   \* cancelJob activations
    admin,        \* cancel-all / purge / purge-mine activations
    reaper,       \* the periodic sweep
    requests, faults, crashes,
    \* history
    starts,       \* executions started, per job
    overlapped,   \* two loops have been alive at the same time
    blind         \* a class was filled on a count that could not be read

rows    == <<status, attempts, retried, stale>>
flags   == <<up, isProcessing, paused, cancelAll>>
history == <<starts, overlapped, blind>>
bounds  == <<requests, faults, crashes>>
vars == <<rows, flags, controllers, hooks, adding, loop, run, cancelling,
          admin, reaper, bounds, history>>

Statuses == {"absent", "pending", "processing", "completed", "failed", "gone"}
Terminal == {"completed", "failed"}
ExistsUpserted(j) == status[j] # "absent"
Exists(j) == status[j] \notin {"absent", "gone"}

LoopOff == [pc |-> "off", class |-> 1, slots |-> 0, todo |-> {}]
Idle    == [pc |-> "idle", job |-> None, loop |-> None, retry |-> 0,
            aborted |-> FALSE]
AdminIdle == [pc |-> "idle", ids |-> {}]
ReaperIdle == [pc |-> "idle", live |-> {}]

LoopPcs == {"off", "starting", "count", "claim", "launch", "more", "nap",
            "leave", "wait"}
RunPcs == {"idle", "read", "register", "skip", "exec", "complete", "notify",
           "requeue", "stop", "fail", "tail"}
AdminPcs == {"idle", "drain", "paused", "purgeDrain", "purge", "purgeAll", "purgeRows",
             "mineUpdate", "mineAbort", "mineDelete", "mineAll", "done"}

Active(l) == loop[l].pc \notin {"off", "starting"}
Executing(r) == run[r].pc = "exec"
ProcessingIn(c) == {j \in Jobs : status[j] = "processing" /\ Class(j) = c}

Init ==
    /\ status = [j \in Jobs |-> "absent"]
    /\ attempts = [j \in Jobs |-> 0]
    /\ retried = [j \in Jobs |-> 0]
    /\ stale = [j \in Jobs |-> FALSE]
    /\ up = TRUE
    /\ isProcessing = FALSE
    /\ paused = FALSE
    /\ cancelAll = FALSE
    /\ controllers = [j \in Jobs |-> None]
    /\ hooks = "none"
    /\ adding = [j \in Jobs |-> "idle"]
    /\ loop = [l \in Loops |-> LoopOff]
    /\ run = [r \in Runners |-> Idle]
    /\ cancelling = [j \in Jobs |-> "idle"]
    /\ admin = [a \in Admins |-> AdminIdle]
    /\ reaper = ReaperIdle
    /\ requests = 0
    /\ faults = 0
    /\ crashes = 0
    /\ starts = [j \in Jobs |-> 0]
    /\ overlapped = FALSE
    /\ blind = FALSE

-----------------------------------------------------------------------------
(* Row updates.  Apart from the claim, the sweeps and purge-mine, every    *)
(* UPDATE is keyed by id alone: it writes whatever the row's status is,    *)
(* and is a no-op when the row is gone.                                    *)

SetStatus(j, st) ==
    /\ status' = IF Exists(j) THEN [status EXCEPT ![j] = st] ELSE status
    /\ stale' = [stale EXCEPT ![j] = FALSE]

SetAll(S, st) ==
    /\ status' = [j \in Jobs |-> IF j \in S THEN st ELSE status[j]]
    /\ stale' = [j \in Jobs |-> j \notin S /\ stale[j]]

(* processJobs(): returns at once when a loop runs or the queue is paused; *)
(* otherwise a new loop, which awaits a module import before it raises     *)
(* isProcessing.                                                           *)
CanStart == ~isProcessing /\ ~paused
ProcessJobs ==
    IF CanStart
    THEN \E l \in Loops : /\ loop[l].pc = "off"
                          /\ loop' = [loop EXCEPT ![l].pc = "starting"]
    ELSE UNCHANGED loop

-----------------------------------------------------------------------------
(* addJob                                                                  *)

(* Refused while the queue is paused or cancelling.                        *)
Admit(j) ==
    /\ up /\ adding[j] = "idle"
    /\ ~cancelAll /\ ~paused
    /\ adding' = [adding EXCEPT ![j] = "admitted"]
    /\ UNCHANGED <<rows, flags, controllers, hooks, loop, run, cancelling,
                   admin, reaper, bounds, history>>

(* The transaction that inserts the row (and its outbox event) commits.    *)
Insert(j) ==
    /\ adding[j] = "admitted"
    /\ adding' = [adding EXCEPT ![j] = "inserted"]
    /\ status' = [status EXCEPT ![j] = "pending"]
    /\ UNCHANGED <<attempts, retried, stale, flags, controllers, hooks, loop,
                   run, cancelling, admin, reaper, bounds, history>>

(* notifyJobEvent has returned: start a loop unless one is running.        *)
Kick(j) ==
    /\ adding[j] = "inserted"
    /\ adding' = [adding EXCEPT ![j] = "done"]
    /\ ProcessJobs
    /\ UNCHANGED <<rows, flags, controllers, hooks, run, cancelling, admin,
                   reaper, bounds, history>>

(* notifyJobEvent throws: the row is committed but addJob rejects and no   *)
(* loop is started.                                                        *)
KickLost(j) ==
    /\ adding[j] = "inserted" /\ faults < MaxFaults
    /\ adding' = [adding EXCEPT ![j] = "done"]
    /\ faults' = faults + 1
    /\ UNCHANGED <<rows, flags, controllers, hooks, loop, run, cancelling,
                   admin, reaper, requests, crashes, history>>

-----------------------------------------------------------------------------
(* runProcessingLoop                                                       *)

InFlight(l) == {r \in Runners : run[r].loop = l}

(* The while condition and the cancel-all break, evaluated between awaits. *)
AtTop(l) == IF paused \/ cancelAll
            THEN LoopOff
            ELSE [LoopOff EXCEPT !.pc = "count"]

(* The class after class i; after the last one, wait for a runner, or ask  *)
(* whether anything is pending when none is in flight.                     *)
NextClassPastEnd(i, inFlight) ==
    IF i <= Len(ClassOrder)
    THEN [LoopOff EXCEPT !.pc = "count", !.class = i + 1]
    ELSE [LoopOff EXCEPT !.pc = IF inFlight = {} THEN "more" ELSE "wait"]
NextClass(i, inFlight) ==
    IF i < Len(ClassOrder)
    THEN [LoopOff EXCEPT !.pc = "count", !.class = i + 1]
    ELSE [LoopOff EXCEPT !.pc = IF inFlight = {} THEN "more" ELSE "wait"]

(* A loop raises isProcessing once, when it starts; the finally block      *)
(* clears it, whichever loop has raised it.                                *)
ResumeLoopNoFinally(l, next) ==
    /\ loop' = [loop EXCEPT ![l] = next]
    /\ UNCHANGED isProcessing
ResumeLoop(l, next) ==
    /\ loop' = [loop EXCEPT ![l] = next]
    /\ isProcessing' = (isProcessing /\ next.pc # "off")

Enter(l) ==
    /\ loop[l].pc = "starting"
    /\ loop' = [loop EXCEPT ![l] = AtTop(l)]
    /\ isProcessing' = (AtTop(l).pc # "off")
    /\ overlapped' = (overlapped \/ \E m \in Loops : Active(m))
    /\ UNCHANGED <<rows, up, paused, cancelAll, controllers, hooks, adding, run,
                   cancelling, admin, reaper, bounds, starts, blind>>

(* The slots left when n rows of the class are being processed.            *)
SlotsUncounted(limit, n) == limit
SlotsReserved(limit, n) == IF n + 1 >= limit THEN 0 ELSE limit - (n + 1)
Slots(limit, n) == IF n >= limit THEN 0 ELSE limit - n

Counted(l, n) ==
    LET i     == loop[l].class
        slots == Slots(Limit[ClassOrder[i]], n)
    IN loop' = [loop EXCEPT ![l] =
                  IF slots = 0
                  THEN NextClass(i, InFlight(l))
                  ELSE [LoopOff EXCEPT !.pc = "claim", !.class = i,
                                       !.slots = slots]]

CountProcessing(l) ==
    /\ loop[l].pc = "count"
    /\ Counted(l, Cardinality(ProcessingIn(ClassOrder[loop[l].class])))
    /\ UNCHANGED <<rows, flags, controllers, hooks, adding, run, cancelling,
                   admin, reaper, bounds, history>>

(* The count query fails: the catch answers 0.                             *)
CountFails(l) ==
    /\ loop[l].pc = "count" /\ faults < MaxFaults
    /\ Counted(l, 0)
    /\ faults' = faults + 1
    /\ blind' = TRUE
    /\ UNCHANGED <<rows, flags, controllers, hooks, adding, run, cancelling,
                   admin, reaper, requests, crashes, starts, overlapped>>

(* FOR UPDATE SKIP LOCKED: as many pending rows of the class as there are  *)
(* slots, whatever their order, become "processing" in one statement.      *)
Claim(l) ==
    LET i       == loop[l].class
        waiting == {j \in Jobs : status[j] = "pending"
                                 /\ Class(j) = ClassOrder[i]}
    IN /\ loop[l].pc = "claim"
       /\ \E S \in SUBSET waiting :
            /\ Cardinality(S) <= loop[l].slots
            /\ S # waiting => Cardinality(S) = loop[l].slots
            /\ SetAll(S, "processing")
            /\ loop' = [loop EXCEPT ![l] =
                          IF S = {} THEN NextClass(i, InFlight(l))
                          ELSE [LoopOff EXCEPT !.pc = "launch", !.class = i,
                                               !.todo = S]]
       /\ UNCHANGED <<attempts, retried, flags, controllers, hooks, adding, run,
                      cancelling, admin, reaper, bounds, history>>

(* notifyJobEvent has returned for the next claimed row: runJob is called. *)
(* jobData is the claimed row's, so its retry count is read here.          *)
Launch(l) ==
    /\ loop[l].pc = "launch"
    /\ \E j \in loop[l].todo, r \in Runners :
         LET rest == loop[l].todo \ {j} IN
         /\ run[r] = Idle
         /\ run' = [run EXCEPT ![r] = [Idle EXCEPT !.pc = "read", !.job = j,
                                       !.loop = l, !.retry = retried[j]]]
         /\ loop' = [loop EXCEPT ![l] =
                       IF rest = {} THEN NextClass(@.class, {r})
                       ELSE [@ EXCEPT !.todo = rest]]
    /\ UNCHANGED <<rows, flags, controllers, hooks, adding, cancelling, admin,
                   reaper, bounds, history>>

(* Nothing in flight: nothing pending ends the loop, otherwise it sleeps.  *)
(* The answer is acted upon only when the await returns.                   *)
AskPending(l) ==
    /\ loop[l].pc = "more"
    /\ loop' = [loop EXCEPT ![l].pc =
                  IF \E j \in Jobs : status[j] = "pending" THEN "nap" ELSE "leave"]
    /\ UNCHANGED <<rows, flags, controllers, hooks, adding, run, cancelling,
                   admin, reaper, bounds, history>>

Leave(l) ==
    /\ loop[l].pc = "leave"
    /\ ResumeLoop(l, LoopOff)
    /\ UNCHANGED <<rows, up, paused, cancelAll, controllers, hooks, adding, run,
                   cancelling, admin, reaper, bounds, history>>

(* A runner finished, or the interval elapsed.                             *)
Wake(l) ==
    /\ loop[l].pc \in {"wait", "nap"}
    /\ ResumeLoop(l, AtTop(l))
    /\ UNCHANGED <<rows, up, paused, cancelAll, controllers, hooks, adding, run,
                   cancelling, admin, reaper, bounds, history>>

(* The claim, a notify or the pending query throws: the finally block      *)
(* clears isProcessing; rows already claimed stay "processing".            *)
LoopDies(l) ==
    /\ loop[l].pc \in {"claim", "launch", "more"} /\ faults < MaxFaults
    /\ ResumeLoop(l, LoopOff)
    /\ faults' = faults + 1
    /\ UNCHANGED <<rows, up, paused, cancelAll, controllers, hooks, adding, run,
                   cancelling, admin, reaper, requests, crashes, history>>

-----------------------------------------------------------------------------
(* runJob                                                                  *)

(* claimReadStatus: only a row still "processing" goes on.                 *)
ReadStatusCompletes(r) ==
    /\ run[r].pc = "read"
    /\ run' = [run EXCEPT ![r].pc =
                 IF status[run[r].job] = "processing" THEN "register" ELSE "complete"]
    /\ UNCHANGED <<rows, flags, controllers, hooks, adding, loop, cancelling,
                   admin, reaper, bounds, history>>
ReadStatus(r) ==
    /\ run[r].pc = "read"
    /\ run' = [run EXCEPT ![r].pc =
                 IF status[run[r].job] = "processing" THEN "register" ELSE "skip"]
    /\ UNCHANGED <<rows, flags, controllers, hooks, adding, loop, cancelling,
                   admin, reaper, bounds, history>>

(* The await returns: the controller is registered (replacing any other of *)
(* that job) and the executor starts.                                      *)
Register(r) ==
    /\ run[r].pc = "register"
    /\ run' = [run EXCEPT ![r].pc = "exec"]
    /\ controllers' = [controllers EXCEPT ![run[r].job] = r]
    /\ starts' = [starts EXCEPT ![run[r].job] = @ + 1]
    /\ UNCHANGED <<rows, flags, hooks, adding, loop, cancelling, admin, reaper,
                   bounds, overlapped, blind>>

(* The executor (and completeWorkflowTask) returned normally, which an     *)
(* aborted one may still do.                                               *)
ExecReturns(r) ==
    /\ run[r].pc = "exec"
    /\ run' = [run EXCEPT ![r].pc = "complete"]
    /\ UNCHANGED <<rows, flags, controllers, hooks, adding, loop, cancelling,
                   admin, reaper, bounds, history>>

Errors == {"transient", "aborted", "fatal"}

(* The catch block: a workflow job with retries left, not aborted locally, *)
(* whose error is transient ("aborted" messages are) is requeued; a chat   *)
(* job whose error is an abort is completed; anything else fails.          *)
CatchToUnbounded(r, err) ==
    LET j == run[r].job IN
    CASE ~run[r].aborted /\ err # "fatal"     -> "requeue"
      [] IsChat(j) /\ err = "aborted"         -> "stop"
      [] OTHER                                -> "fail"
CatchTo(r, err) ==
    LET j == run[r].job IN
    CASE run[r].retry < RetryMax[j] /\ ~run[r].aborted /\ err # "fatal" -> "requeue"
      [] IsChat(j) /\ err = "aborted"                                  -> "stop"
      [] OTHER                                                         -> "fail"

ExecThrows(r, err) ==
    /\ run[r].pc = "exec"
    /\ run' = [run EXCEPT ![r].pc = CatchTo(r, err)]
    /\ UNCHANGED <<rows, flags, controllers, hooks, adding, loop, cancelling,
                   admin, reaper, bounds, history>>

(* markJobCompleted.  Its notify is still inside the try block.            *)
Complete(r) ==
    /\ run[r].pc = "complete"
    /\ run' = [run EXCEPT ![r].pc = "notify"]
    /\ SetStatus(run[r].job, "completed")
    /\ UNCHANGED <<attempts, retried, flags, controllers, hooks, adding, loop,
                   cancelling, admin, reaper, bounds, history>>

(* requeueJobForRetry, decided some awaits ago in the catch block.         *)
Requeue(r) ==
    /\ run[r].pc = "requeue"
    /\ run' = [run EXCEPT ![r].pc = "tail"]
    /\ SetStatus(run[r].job, "pending")
    /\ retried' = [retried EXCEPT ![run[r].job] = run[r].retry + 1]
    /\ UNCHANGED <<attempts, flags, controllers, hooks, adding, loop,
                   cancelling, admin, reaper, bounds, history>>

(* onAbortedCancellation: a stopped chat job is completed.                 *)
Stop(r) ==
    /\ run[r].pc = "stop"
    /\ run' = [run EXCEPT ![r].pc = "tail"]
    /\ SetStatus(run[r].job, "completed")
    /\ UNCHANGED <<attempts, retried, flags, controllers, hooks, adding, loop,
                   cancelling, admin, reaper, bounds, history>>

(* failWorkflowTask, markJobFailed.                                        *)
Fail(r) ==
    /\ run[r].pc = "fail"
    /\ run' = [run EXCEPT ![r].pc = "tail"]
    /\ SetStatus(run[r].job, "failed")
    /\ UNCHANGED <<attempts, retried, flags, controllers, hooks, adding, loop,
                   cancelling, admin, reaper, bounds, history>>

(* The finally block: unregisterController(jobId) deletes the job's entry  *)
(* of the map, whichever runner put it there.                              *)
UnregisterForgotten(r) ==
    /\ run' = [run EXCEPT ![r] = Idle]
    /\ UNCHANGED controllers
Unregister(r) ==
    /\ run' = [run EXCEPT ![r] = Idle]
    /\ controllers' = [controllers EXCEPT ![run[r].job] = None]

Finish(r) ==
    /\ run[r].pc \in {"skip", "notify", "tail"}
    /\ Unregister(r)
    /\ UNCHANGED <<rows, flags, hooks, adding, loop, cancelling, admin, reaper,
                   bounds, history>>

(* A database call inside the try block throws.                            *)
TryFails(r, err) ==
    /\ run[r].pc \in {"read", "complete", "notify"} /\ faults < MaxFaults
    /\ err # "aborted"
    /\ run' = [run EXCEPT ![r].pc = CatchTo(r, err)]
    /\ faults' = faults + 1
    /\ UNCHANGED <<rows, flags, controllers, hooks, adding, loop, cancelling,
                   admin, reaper, requests, crashes, history>>

(* A database call of the catch block throws: runJob rejects after its     *)
(* finally block, and the rejection ends the loop that is racing on it.    *)
CatchFails(r) ==
    LET l == run[r].loop IN
    /\ run[r].pc \in {"requeue", "stop", "fail", "tail"} /\ faults < MaxFaults
    /\ Unregister(r)
    /\ IF loop[l].pc = "wait" THEN ResumeLoop(l, LoopOff)
                              ELSE UNCHANGED <<loop, isProcessing>>
    /\ faults' = faults + 1
    /\ UNCHANGED <<rows, up, paused, cancelAll, hooks, adding, cancelling, admin,
                   reaper, requests, crashes, history>>

-----------------------------------------------------------------------------
(* Controls                                                                *)

(* One more request of the bounded number that the model makes.            *)
Request ==
    /\ up /\ requests < MaxRequests
    /\ requests' = requests + 1

(* The runners whose registered controller an abort of the jobs S reaches. *)
Abort(S) == run' = [r \in Runners |->
                      IF \E j \in S : controllers[j] = r
                      THEN [run[r] EXCEPT !.aborted = TRUE] ELSE run[r]]

Pause ==
    /\ Request
    /\ paused' = TRUE
    /\ UNCHANGED <<rows, up, isProcessing, cancelAll, controllers, hooks, adding,
                   loop, run, cancelling, admin, reaper, faults, crashes, history>>

ResumeQueue ==
    /\ paused' = FALSE
    /\ IF isProcessing THEN UNCHANGED loop
       ELSE \E l \in Loops : /\ loop[l].pc = "off"
                             /\ loop' = [loop EXCEPT ![l].pc = "starting"]

Resume ==
    /\ Request
    /\ ResumeQueue
    /\ UNCHANGED <<rows, up, isProcessing, cancelAll, controllers, hooks, adding,
                   run, cancelling, admin, reaper, faults, crashes, history>>

(* DELETE /queue/jobs/:id, whatever the job is doing.                      *)
DeleteRow(j) ==
    /\ Request /\ Exists(j)
    /\ SetStatus(j, "gone")
    /\ UNCHANGED <<attempts, retried, flags, controllers, hooks, adding, loop,
                   run, cancelling, admin, reaper, faults, crashes, history>>

(* cancelJob installs its hooks on the shared adapter, then overwrites the *)
(* row of a job in any status.                                             *)
CancelWrite(j) ==
    /\ Request /\ cancelling[j] = "idle" /\ Exists(j)
    /\ cancelling' = [cancelling EXCEPT ![j] = "written"]
    /\ hooks' = "job"
    /\ SetStatus(j, IF IsChat(j) THEN "completed" ELSE "failed")
    /\ UNCHANGED <<attempts, retried, flags, controllers, adding, loop, run,
                   admin, reaper, faults, crashes, history>>

(* After the notify it looks the controller up through the hooks installed *)
(* by then: those of a cancel-all or of a workflow start have no lookup.   *)
CancelAbort(j) ==
    /\ cancelling[j] = "written"
    /\ cancelling' = [cancelling EXCEPT ![j] = "done"]
    /\ Abort(IF hooks = "job" THEN {j} ELSE {})
    /\ UNCHANGED <<rows, flags, controllers, hooks, adding, loop, admin, reaper,
                   bounds, history>>

(* The notify throws: no abort.                                            *)
CancelFails(j) ==
    /\ cancelling[j] = "written" /\ faults < MaxFaults
    /\ cancelling' = [cancelling EXCEPT ![j] = "done"]
    /\ faults' = faults + 1
    /\ UNCHANGED <<rows, flags, controllers, hooks, adding, loop, run, admin,
                   reaper, requests, crashes, history>>

(* A workflow start replaces the hooks of the same shared adapter.         *)
DispatchEntryHooks ==
    /\ Request
    /\ hooks' = "entry"
    /\ UNCHANGED <<rows, flags, controllers, adding, loop, run, cancelling,
                   admin, reaper, faults, crashes, history>>

(* cancelAllProcessing: the hooks, the flag and the aborts, at one go.     *)
CancelAll(a, next) ==
    /\ admin' = [admin EXCEPT ![a].pc = next]
    /\ cancelAll' = TRUE
    /\ hooks' = "all"
    /\ Abort(Jobs)
    /\ UNCHANGED <<rows, up, isProcessing, paused, controllers, adding, loop,
                   cancelling, reaper, bounds, history>>

(* POST /queue/cancel-all                                                  *)
CancelAllStart(a) == up /\ admin[a].pc = "idle" /\ CancelAll(a, "drain")

(* POST /queue/purge pauses first, and imports a module before it cancels. *)
PurgeStart(a) ==
    /\ up /\ admin[a].pc = "idle"
    /\ admin' = [admin EXCEPT ![a].pc = "paused"]
    /\ paused' = TRUE
    /\ UNCHANGED <<rows, up, isProcessing, cancelAll, controllers, hooks, adding,
                   loop, run, cancelling, reaper, bounds, history>>

PurgeCancels(a) == admin[a].pc = "paused" /\ CancelAll(a, "purgeDrain")

(* The drain ends, empty or after ten seconds; the flag is cleared through *)
(* the hooks installed by then.                                            *)
CancelAllEnd(a) ==
    /\ admin[a].pc \in {"drain", "purgeDrain"}
    /\ admin' = [admin EXCEPT ![a].pc = IF @ = "drain" THEN "done" ELSE "purge"]
    /\ cancelAll' = (cancelAll /\ hooks # "all")
    /\ UNCHANGED <<rows, up, isProcessing, paused, controllers, hooks, adding,
                   loop, run, cancelling, reaper, bounds, history>>

(* What a purge of a filter deletes: everything, one status, or the rows   *)
(* that have been processing for long.                                     *)
Purged(filter) ==
    CASE filter = "all"        -> {j \in Jobs : Exists(j)}
      [] filter = "processing" -> {j \in Jobs : stale[j]}
      [] OTHER                 -> {j \in Jobs : status[j] = filter}
Filters == {"all", "processing", "pending", "completed", "failed"}

Targets == {Jobs, Mine}     \* purge-global, and the rows of a workspace
Waiting == {j \in Jobs : status[j] \in {"pending", "processing"}}

(* The rows to purge are read, then deleted one by one, whatever they are  *)
(* by then.                                                                *)
PurgeRead(a, filter, target) ==
    /\ admin[a].pc = "purge" /\ filter # "all"
    /\ admin' = [admin EXCEPT ![a] = [pc |-> "purgeRows", ids |-> target \cap Purged(filter)]]
    /\ UNCHANGED <<rows, flags, controllers, hooks, adding, loop, run, cancelling,
                   reaper, bounds, history>>

PurgeRow(a, j) ==
    /\ admin[a].pc = "purgeRows" /\ j \in admin[a].ids
    /\ admin' = [admin EXCEPT ![a].ids = @ \ {j}]
    /\ SetStatus(j, "gone")
    /\ UNCHANGED <<attempts, retried, flags, controllers, hooks, adding, loop, run,
                   cancelling, reaper, bounds, history>>

(* "all": the rows that wait or run are failed, then every row is deleted. *)
PurgeFail(a, target) ==
    /\ admin[a].pc = "purge"
    /\ admin' = [admin EXCEPT ![a] = [pc |-> "purgeAll", ids |-> target]]
    /\ SetAll(target \cap Waiting, "failed")
    /\ UNCHANGED <<attempts, retried, flags, controllers, hooks, adding, loop, run,
                   cancelling, reaper, bounds, history>>

PurgeAll(a) ==
    /\ admin[a].pc = "purgeAll"
    /\ admin' = [admin EXCEPT ![a] = [pc |-> "purgeRows", ids |-> {}]]
    /\ SetAll(admin[a].ids \cap Purged("all"), "gone")
    /\ UNCHANGED <<attempts, retried, flags, controllers, hooks, adding, loop, run,
                   cancelling, reaper, bounds, history>>

(* A statement throws: the finally block is all that is left.              *)
PurgeFails(a) ==
    /\ admin[a].pc \in {"purge", "purgeAll", "purgeRows"}
    /\ admin' = [admin EXCEPT ![a] = [pc |-> "purgeRows", ids |-> {}]]
    /\ UNCHANGED <<rows, flags, controllers, hooks, adding, loop, run, cancelling,
                   reaper, bounds, history>>

PurgeEnd(a) ==
    /\ admin[a].pc = "purgeRows" /\ admin[a].ids = {}
    /\ admin' = [admin EXCEPT ![a].pc = "done"]
    /\ ResumeQueue
    /\ UNCHANGED <<rows, up, isProcessing, cancelAll, controllers, hooks, adding,
                   run, cancelling, reaper, bounds, history>>

(* POST /queue/purge-mine: the processing rows of the workspace are read,  *)
(* then failed, then the controllers of the rows read are aborted.         *)
MineSelect(a) ==
    /\ up /\ admin[a].pc = "idle"
    /\ hooks' = "job"
    /\ LET ids == {j \in Mine : status[j] = "processing"}
       IN admin' = [admin EXCEPT ![a] =
                      [pc |-> IF ids = {} THEN "mineDelete" ELSE "mineUpdate",
                       ids |-> ids]]
    /\ UNCHANGED <<rows, flags, controllers, adding, loop, run, cancelling,
                   reaper, bounds, history>>

MineUpdate(a) ==
    /\ admin[a].pc = "mineUpdate"
    /\ admin' = [admin EXCEPT ![a].pc = "mineAbort"]
    /\ SetAll({j \in Mine : status[j] = "processing"}, "failed")
    /\ UNCHANGED <<attempts, retried, flags, controllers, hooks, adding, loop,
                   run, cancelling, reaper, bounds, history>>

MineAbort(a) ==
    /\ admin[a].pc = "mineAbort"
    /\ admin' = [admin EXCEPT ![a] = [pc |-> "mineDelete", ids |-> {}]]
    /\ Abort(IF hooks = "job" THEN admin[a].ids ELSE {})
    /\ UNCHANGED <<rows, flags, controllers, hooks, adding, loop, cancelling,
                   reaper, bounds, history>>

MineFail(a) ==
    /\ admin[a].pc = "mineDelete"
    /\ admin' = [admin EXCEPT ![a].pc = "mineAll"]
    /\ SetAll(Mine \cap Waiting, "failed")
    /\ UNCHANGED <<attempts, retried, flags, controllers, hooks, adding, loop,
                   run, cancelling, reaper, bounds, history>>

MineDelete(a, filter) ==
    /\ admin[a].pc = IF filter = "all" THEN "mineAll" ELSE "mineDelete"
    /\ admin' = [admin EXCEPT ![a] = [pc |-> "done", ids |-> {}]]
    /\ SetAll(Mine \cap IF filter = "processing"
                        THEN {j \in Jobs : status[j] = "processing"}
                        ELSE Purged(filter), "gone")
    /\ UNCHANGED <<attempts, retried, flags, controllers, hooks, adding, loop,
                   run, cancelling, reaper, bounds, history>>

-----------------------------------------------------------------------------
(* Reaper, clock, crash                                                    *)

(* A row grows stale half an hour after its claim.  Only an executor, or   *)
(* nobody, keeps it that long: every other step of a runner, the launch of *)
(* a claimed row and a sweep take a few database round trips.              *)
Age(j) ==
    /\ status[j] = "processing" /\ ~stale[j]
    /\ \A l \in Loops : j \notin loop[l].todo
    /\ \A r \in Runners : run[r].job = j => Executing(r)
    /\ reaper.pc = "idle"
    /\ stale' = [stale EXCEPT ![j] = TRUE]
    /\ UNCHANGED <<status, attempts, retried, flags, controllers, hooks, adding,
                   loop, run, cancelling, admin, reaper, bounds, history>>

StrandedOrLive(live) == {j \in Jobs : stale[j]}
Stranded(live) == {j \in Jobs : stale[j] /\ j \notin live}
Exhausted == {j \in Jobs : attempts[j] >= MaxRedeliveries}
ChatsForgotten == {}
Chats == {j \in Jobs : IsChat(j)}

(* The live ids are read once, before the three statements of the sweep.   *)
SweepStart ==
    /\ up /\ reaper.pc = "idle"
    /\ reaper' = [pc |-> "ceiling", live |-> {j \in Jobs : controllers[j] # None}]
    /\ UNCHANGED <<rows, flags, controllers, hooks, adding, loop, run,
                   cancelling, admin, bounds, history>>

SweepCeiling ==
    /\ reaper.pc = "ceiling"
    /\ reaper' = [reaper EXCEPT !.pc = "chat"]
    /\ SetAll(Stranded(reaper.live) \cap Exhausted, "failed")
    /\ UNCHANGED <<attempts, retried, flags, controllers, hooks, adding, loop,
                   run, cancelling, admin, bounds, history>>

SweepChat ==
    /\ reaper.pc = "chat"
    /\ reaper' = [reaper EXCEPT !.pc = "requeue"]
    /\ SetAll((Stranded(reaper.live) \cap Chats) \ Exhausted, "failed")
    /\ UNCHANGED <<attempts, retried, flags, controllers, hooks, adding, loop,
                   run, cancelling, admin, bounds, history>>

RequeueRows(S) ==
    /\ SetAll(S, "pending")
    /\ attempts' = [j \in Jobs |-> IF j \in S THEN attempts[j] + 1 ELSE attempts[j]]

SweepRequeue ==
    /\ reaper.pc = "requeue"
    /\ reaper' = ReaperIdle
    /\ RequeueRows(Stranded(reaper.live) \ (Chats \cup Exhausted))
    /\ UNCHANGED <<retried, flags, controllers, hooks, adding, loop, run,
                   cancelling, admin, bounds, history>>

(* The process dies: the rows are what is left.                            *)
Crash ==
    /\ up /\ crashes < MaxCrashes
    /\ crashes' = crashes + 1
    /\ up' = FALSE
    /\ isProcessing' = FALSE /\ paused' = FALSE /\ cancelAll' = FALSE
    /\ controllers' = [j \in Jobs |-> None]
    /\ hooks' = "none"
    /\ adding' = [j \in Jobs |-> IF adding[j] = "idle" THEN "idle" ELSE "done"]
    /\ loop' = [l \in Loops |-> LoopOff]
    /\ run' = [r \in Runners |-> Idle]
    /\ cancelling' = [j \in Jobs |-> IF cancelling[j] = "idle" THEN "idle" ELSE "done"]
    /\ admin' = [a \in Admins |-> IF admin[a].pc = "idle" THEN AdminIdle
                                  ELSE [AdminIdle EXCEPT !.pc = "done"]]
    /\ reaper' = ReaperIdle
    /\ UNCHANGED <<rows, requests, faults, history>>

(* Boot: the three sweeps with no live id, before requests are served.  No *)
(* loop is started.                                                        *)
Boot ==
    /\ ~up
    /\ up' = TRUE
    /\ LET S == Stranded({}) \ (Chats \cup Exhausted)
           F == Stranded({}) \ S
       IN /\ status' = [j \in Jobs |-> IF j \in F THEN "failed"
                                       ELSE IF j \in S THEN "pending" ELSE status[j]]
          /\ attempts' = [j \in Jobs |-> IF j \in S THEN attempts[j] + 1
                                         ELSE attempts[j]]
          /\ stale' = [j \in Jobs |-> FALSE]
    /\ UNCHANGED <<retried, isProcessing, paused, cancelAll, controllers, hooks,
                   adding, loop, run, cancelling, admin, reaper, bounds, history>>

-----------------------------------------------------------------------------
AddStep(j) == Admit(j) \/ Insert(j) \/ Kick(j) \/ KickLost(j)

LoopStep(l) ==
    \/ Enter(l) \/ CountProcessing(l) \/ CountFails(l) \/ Claim(l)
    \/ Launch(l) \/ AskPending(l) \/ Leave(l) \/ Wake(l) \/ LoopDies(l)

RunStep(r) ==
    \/ ReadStatus(r) \/ Register(r) \/ ExecReturns(r)
    \/ \E err \in Errors : ExecThrows(r, err) \/ TryFails(r, err)
    \/ Complete(r) \/ Requeue(r) \/ Stop(r) \/ Fail(r) \/ Finish(r)
    \/ CatchFails(r)

CancelStep(j) == CancelWrite(j) \/ CancelAbort(j) \/ CancelFails(j)

PurgeStep(a) ==
    \/ PurgeCancels(a)
    \/ \E target \in Targets :
         PurgeFail(a, target) \/ \E filter \in Filters : PurgeRead(a, filter, target)
    \/ PurgeAll(a) \/ PurgeEnd(a)
    \/ \E j \in Jobs : PurgeRow(a, j)

MineStep(a) ==
    \/ MineUpdate(a) \/ MineAbort(a) \/ MineFail(a)
    \/ \E filter \in Filters : MineDelete(a, filter)

AdminStep(a) ==
    \/ CancelAllStart(a) \/ CancelAllEnd(a)
    \/ PurgeStart(a) \/ PurgeStep(a) \/ PurgeFails(a)
    \/ MineSelect(a) \/ MineStep(a)

SweepStep == SweepStart \/ SweepCeiling \/ SweepChat \/ SweepRequeue

Next ==
    \/ \E j \in Jobs : AddStep(j) \/ CancelStep(j) \/ DeleteRow(j) \/ Age(j)
    \/ \E l \in Loops : LoopStep(l)
    \/ \E r \in Runners : RunStep(r)
    \/ \E a \in Admins : AdminStep(a)
    \/ Pause \/ Resume \/ DispatchEntryHooks
    \/ SweepStep \/ Crash \/ Boot

Spec == Init /\ [][Next]_vars

(* What the event loop, the interval timers and Postgres owe: an await     *)
(* returns, an executor ends, the periodic sweep runs, a started process   *)
(* boots, time passes.  Requests and crashes owe nothing.                  *)
LoopProgress(l) ==
    \/ Enter(l) \/ CountProcessing(l) \/ Claim(l) \/ Launch(l)
    \/ AskPending(l) \/ Leave(l) \/ Wake(l)

RunProgress(r) ==
    \/ ReadStatus(r) \/ Register(r) \/ ExecReturns(r)
    \/ \E err \in Errors : ExecThrows(r, err)
    \/ Complete(r) \/ Requeue(r) \/ Stop(r) \/ Fail(r) \/ Finish(r)

AdminProgress(a) == CancelAllEnd(a) \/ PurgeStep(a) \/ MineStep(a)

Fairness ==
    /\ \A j \in Jobs : /\ WF_vars(Insert(j) \/ Kick(j))
                       /\ WF_vars(CancelAbort(j))
                       /\ SF_vars(Age(j))
    /\ \A l \in Loops : WF_vars(LoopProgress(l))
    /\ \A r \in Runners : WF_vars(RunProgress(r))
    /\ \A a \in Admins : WF_vars(AdminProgress(a))
    /\ WF_vars(SweepStep)
    /\ WF_vars(Boot)

FairSpec == Spec /\ Fairness

-----------------------------------------------------------------------------
(* Properties                                                              *)

(* Every variable holds a value of its type.                               *)
LoopStates == [pc : LoopPcs, class : 1..Len(ClassOrder), slots : Nat,
               todo : SUBSET Jobs]
RunStates == [pc : RunPcs, job : Jobs \cup {None}, loop : Loops \cup {None},
              retry : Nat, aborted : BOOLEAN]

RowTypes ==
    /\ status \in [Jobs -> Statuses]
    /\ attempts \in [Jobs -> Nat]
    /\ retried \in [Jobs -> Nat]
    /\ stale \in [Jobs -> BOOLEAN]
LoopTypes == loop \in [Loops -> LoopStates]
RunTypes ==
    /\ run \in [Runners -> RunStates]
    /\ \A r \in Runners : IF run[r].pc = "idle" THEN run[r].job = None
                           ELSE run[r].job \in Jobs /\ run[r].loop \in Loops
    /\ controllers \in [Jobs -> Runners \cup {None}]
RequestTypes ==
    /\ adding \in [Jobs -> {"idle", "admitted", "inserted", "done"}]
    /\ cancelling \in [Jobs -> {"idle", "written", "done"}]
    /\ admin \in [Admins -> [pc : AdminPcs, ids : SUBSET Jobs]]
    /\ reaper \in [pc : {"idle", "ceiling", "chat", "requeue"}, live : SUBSET Jobs]
    /\ hooks \in {"none", "job", "all", "entry"}
ScalarTypes ==
    /\ up \in BOOLEAN /\ isProcessing \in BOOLEAN
    /\ paused \in BOOLEAN /\ cancelAll \in BOOLEAN
    /\ requests \in Nat /\ faults \in Nat /\ crashes \in Nat
    /\ starts \in [Jobs -> Nat]
    /\ overlapped \in BOOLEAN /\ blind \in BOOLEAN

TypeOK == RowTypes /\ LoopTypes /\ RunTypes /\ RequestTypes /\ ScalarTypes

(* One job is never being executed twice at the same time: not after a     *)
(* crash, a sweep with an old list of live jobs, a cancel or a purge.      *)
(* The first executor-level retry of a job ends that: its first runner may *)
(* remove the controller of the second, and the sweep then reaps the job.  *)
ExclusiveExecution ==
    \A j \in Jobs : retried[j] = 0 =>
        \A r, s \in Runners :
            Executing(r) /\ Executing(s) /\ run[r].job = j /\ run[s].job = j
                => r = s

(* A crash loop cannot execute a job for ever: a chat answer is generated  *)
(* at most once, and a job with at most the one executor-level retry that  *)
(* workflow dispatch asks for is executed once, plus its retries, plus its *)
(* redeliveries, also when two runners of it overlap.                      *)
Budget(j) == IF IsChat(j) THEN 1 ELSE 1 + RetryMax[j] + MaxRedeliveries
ExecutionBudget == \A j \in Jobs : RetryMax[j] <= 1 => starts[j] <= Budget(j)

(* The class limits bound the rows being processed at any moment.          *)
ConcurrencyLimit ==
    \A i \in 1..Len(ClassOrder) :
        Cardinality(ProcessingIn(ClassOrder[i])) <= Limit[ClassOrder[i]]

(* They do, through pauses, restarts of the loop, crashes and requeues,    *)
(* unless two loops overlapped or the count query failed.                  *)
LimitKept == overlapped \/ blind \/ ConcurrencyLimit

(* isProcessing says whether a loop is alive, on every path out of the     *)
(* loop; it lies only once two loops have overlapped.                      *)
ProcessingFlag == overlapped \/ (isProcessing <=> \E l \in Loops : Active(l))

(* A job without retries that was completed, failed or cancelled is never  *)
(* queued or claimed again, and a deleted row never comes back, whatever   *)
(* the sweeps and the late runners write.                                  *)
NoResurrection ==
    [][\A j \in Jobs :
          /\ RetryMax[j] = 0 /\ status[j] \in Terminal
                => status'[j] \in Terminal \cup {"gone"}
          /\ status[j] = "gone" => status'[j] = "gone"]_vars

(* A job without retries lives as JobLife says: its row is its outcome,    *)
(* whatever the loops, runners, sweeps, cancels and purges write to it.    *)
OneShot == {j \in Jobs : RetryMax[j] = 0}
Outcome(j) ==
    CASE status[j] = "absent" -> "none"
      [] status[j] \in {"pending", "processing"} -> "open"
      [] status[j] = "gone" -> "deleted"
      [] OTHER -> status[j]

Life == INSTANCE JobLife WITH
           Jobs <- OneShot,
           MaxExecutions <- [j \in OneShot |-> Budget(j)],
           Stoppable <- {j \in OneShot : IsChat(j)},
           outcome <- [j \in OneShot |-> Outcome(j)],
           executing <- [j \in OneShot |-> \E r \in Runners : Executing(r) /\ run[r].job = j],
           executions <- [j \in OneShot |-> starts[j]]
Lifecycle == Life!Spec

(* A row never stays "processing" for ever: whatever dies between the      *)
(* claim and the end of the job, the runner or the reaper moves it on.     *)
StrandedRecovered ==
    \A j \in Jobs : status[j] = "processing" ~> status[j] # "processing"

(* While a loop is alive, no pending row waits for ever behind the others. *)
NoStarvation ==
    \A j \in Jobs :
        status[j] = "pending" /\ (\E l \in Loops : Active(l))
        ~> status[j] # "pending" \/ \A l \in Loops : ~Active(l)

(* workflows-queue.ts:297: no admin action leaves the queue closed.        *)
AdmissionRestored ==
    (\A a \in Admins : admin[a].pc \in {"idle", "done"}) => ~cancelAll

-----------------------------------------------------------------------------
(* The inductive invariant behind ExclusiveExecution and NoResurrection.   *)

Once(j) == retried[j] = 0
Owns(r, j) == run[r].job = j
Claimed(l, j) == j \in loop[l].todo

(* Only a runner with retries left is on its way to a requeue.             *)
RequeuerMayRetry ==
    \A r \in Runners : run[r].pc = "requeue" => run[r].retry < RetryMax[run[r].job]

RetriesKept == \A j \in Jobs : retried[j] <= RetryMax[j]

NotYetInserted ==
    \A j \in Jobs : adding[j] \in {"idle", "admitted"} => status[j] = "absent"

StaleIsProcessing == \A j \in Jobs : stale[j] => status[j] = "processing"

ControllerOwned ==
    \A j \in Jobs, r \in Runners : controllers[j] = r => Owns(r, j)

(* A dead process has no loop, no runner, no sweep and no open request.    *)
DownIsEmpty ==
    ~up => /\ \A l \in Loops : loop[l].pc = "off" /\ loop[l].todo = {}
           /\ \A r \in Runners : run[r].job = None
           /\ \A j \in Jobs : adding[j] \in {"idle", "done"}
           /\ \A a \in Admins : admin[a].pc \in {"idle", "done"}
           /\ reaper.pc = "idle"

(* A claimed row has one owner: the loop about to launch it, or a runner.  *)
OneOwner ==
    \A j \in Jobs : Once(j) =>
        /\ \A r, s \in Runners : Owns(r, j) /\ Owns(s, j) => r = s
        /\ \A l, m \in Loops : Claimed(l, j) /\ Claimed(m, j) => l = m
        /\ \A l \in Loops, r \in Runners : ~(Claimed(l, j) /\ Owns(r, j))

UnclaimedIsFree ==
    \A j \in Jobs : Once(j) /\ status[j] \in {"absent", "pending"} =>
        /\ \A l \in Loops : ~Claimed(l, j)
        /\ \A r \in Runners : ~Owns(r, j)

SkipIsEnded ==
    \A r \in Runners : run[r].pc = "skip" /\ Once(run[r].job)
        => status[run[r].job] \in Terminal \cup {"gone"}

ExecutorRegistered ==
    \A r \in Runners : Executing(r) /\ Once(run[r].job)
        => controllers[run[r].job] = r

(* A stale row is an orphan, or its runner is registered and in the list   *)
(* of live ids of the sweep under way.                                     *)
StaleIsLive ==
    \A j \in Jobs : Once(j) /\ stale[j] =>
        /\ \A l \in Loops : ~Claimed(l, j)
        /\ \A r \in Runners : Owns(r, j) =>
              /\ run[r].pc \notin {"read", "register", "skip"}
              /\ controllers[j] = r
              /\ reaper.pc # "idle" => j \in reaper.live

Ownership ==
    /\ StaleIsProcessing /\ ControllerOwned /\ OneOwner /\ UnclaimedIsFree
    /\ SkipIsEnded /\ ExecutorRegistered /\ StaleIsLive

(* Who may touch a job: until its first executor-level retry it belongs to *)
(* at most one loop or runner, the one registered for it while it          *)
(* executes.  Inductive, and proved so in JobQueueOwnership.               *)
OwnershipInv ==
    /\ TypeOK /\ RequeuerMayRetry /\ RetriesKept /\ NotYetInserted /\ DownIsEmpty
    /\ Ownership
=============================================================================

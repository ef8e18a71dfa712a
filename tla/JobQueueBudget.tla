--------------------------- MODULE JobQueueBudget ---------------------------
(***************************************************************************)
(* How often a job is executed, and how it ends: the proofs of             *)
(* ExecutionBudget and Lifecycle.                                          *)
(*                                                                         *)
(* Every execution uses up a claim, and every claim a moment at which the  *)
(* row was made pending: by the insert, by a sweep (attempts) or by the    *)
(* one executor-level retry (retried).  A job with at most one such retry  *)
(* has at most one claim open at any time, and none while it is pending,   *)
(* so no claim is used up twice, although its executions may overlap.      *)
(*                                                                         *)
(* With the budget at hand, the second part proves Lifecycle: the queue    *)
(* implements JobLife.                                                     *)
(***************************************************************************)
EXTENDS JobQueueOwnership

(* A claim is open until the runner that holds it has registered.          *)
HoldsClaim(r, j) == Owns(r, j) /\ run[r].pc \in {"read", "register"}

NoHolder(j) ==
    /\ \A l \in Loops : ~Claimed(l, j)
    /\ \A r \in Runners : ~HoldsClaim(r, j)

Due(j) == status[j] = "pending" \/ ~NoHolder(j)

OneClaim(j) ==
    /\ status[j] \in {"absent", "pending"} \/ stale[j] => NoHolder(j)
    /\ \A l, m \in Loops : Claimed(l, j) /\ Claimed(m, j) => l = m
    /\ \A r, s \in Runners : HoldsClaim(r, j) /\ HoldsClaim(s, j) => r = s
    /\ \A l \in Loops, r \in Runners : ~(Claimed(l, j) /\ HoldsClaim(r, j))

Paid(j) ==
    /\ starts[j] <= 1 + attempts[j] + retried[j]
    /\ Due(j) => starts[j] <= attempts[j] + retried[j]
    /\ status[j] = "absent" => starts[j] = 0

(* A runner launched before the first retry has nothing left to requeue.   *)
Spent ==
    \A r \in Runners, j \in Jobs :
        Owns(r, j) /\ retried[j] # 0 /\ run[r].retry = 0 => run[r].pc = "tail"

RedeliveriesKept ==
    \A j \in Jobs : attempts[j] <= IF IsChat(j) THEN 0 ELSE MaxRedeliveries

BudgetInv ==
    /\ Spent
    /\ RedeliveriesKept
    /\ \A j \in Jobs : RetryMax[j] <= 1 => OneClaim(j) /\ Paid(j)

(* What most steps do to a job: open no claim, make no row pending.        *)
Shrinks(j) ==
    /\ \A l \in Loops : Claimed(l, j)' => Claimed(l, j)
    /\ \A r \in Runners : HoldsClaim(r, j)' => HoldsClaim(r, j)
    /\ status'[j] \in {"absent", "pending"} => status'[j] = status[j]
    /\ stale'[j] => stale[j] \/ NoHolder(j)
    /\ UNCHANGED <<starts[j], attempts[j], retried[j]>>

(* Such a step keeps the account of the job.                               *)
LEMMA ShrinkKeeps ==
    ASSUME NEW j \in Jobs, OneClaim(j), Paid(j), Shrinks(j)
    PROVE  OneClaim(j)' /\ Paid(j)'
<1>1. NoHolder(j) => NoHolder(j)'
  BY DEF Shrinks, NoHolder
<1>2. OneClaim(j)'
  BY <1>1 DEF Shrinks, OneClaim
<1>3. Due(j)' => Due(j)
  BY <1>1 DEF Shrinks, Due
<1> QED
  BY <1>2, <1>3 DEF Shrinks, Paid

(* The counters of the row move only at four steps.                        *)
LEMMA CountersMove ==
    ASSUME [Next]_vars
    PROVE  \/ \E r \in Runners : Register(r) \/ Requeue(r)
           \/ SweepRequeue \/ Boot
           \/ UNCHANGED <<starts, attempts, retried>>
<1> DEFINE Same == UNCHANGED <<starts, attempts, retried>>
<1>1. ASSUME NEW j \in Jobs, AddStep(j) PROVE Same
  BY <1>1 DEF AddStep, Admit, Insert, Kick, KickLost, rows, history
<1>2. ASSUME NEW j \in Jobs, CancelStep(j) \/ DeleteRow(j) \/ Age(j) PROVE Same
  BY <1>2 DEF CancelStep, CancelWrite, CancelAbort, CancelFails, DeleteRow, Age, rows, history
<1>3. ASSUME NEW l \in Loops, LoopStep(l) PROVE Same
  BY <1>3 DEF LoopStep, Enter, CountProcessing, CountFails, Claim, Launch, AskPending,
              Leave, Wake, LoopDies, rows, history
<1>4. ASSUME NEW r \in Runners, RunStep(r) PROVE Same \/ Register(r) \/ Requeue(r)
  BY <1>4 DEF RunStep, ReadStatus, ExecReturns, ExecThrows, TryFails, Complete,
              Stop, Fail, Finish, CatchFails, rows, history
<1>5. ASSUME NEW a \in Admins, AdminStep(a) PROVE Same
  BY <1>5 DEF AdminStep, PurgeStep, MineStep, CancelAll, CancelAllStart, CancelAllEnd,
              PurgeStart, PurgeCancels, PurgeRead, PurgeRow, PurgeFail, PurgeAll, PurgeFails,
              PurgeEnd, MineSelect, MineUpdate, MineAbort, MineFail, MineDelete,
              rows, history
<1>6. ASSUME Pause \/ Resume \/ DispatchEntryHooks \/ SweepStart \/ SweepCeiling
             \/ SweepChat \/ Crash \/ UNCHANGED vars
      PROVE  Same
  BY <1>6 DEF Pause, Resume, DispatchEntryHooks, SweepStart, SweepCeiling, SweepChat,
              Crash, vars, rows, history
<1> QED
  BY <1>1, <1>2, <1>3, <1>4, <1>5, <1>6 DEF Next, SweepStep

(* A runner in its last step stays there until it is idle.                 *)
TailStays == \A r \in Runners : run[r].pc = "tail" => run'[r].pc \in {"tail", "idle"}

LEMMA TailMove ==
    ASSUME RunTypes, NEW r \in Runners, run[r].pc # "tail", NEW x,
           run' = [run EXCEPT ![r] = x]
    PROVE  TailStays
  BY DEF RunTypes, TailStays

LEMMA TailPc ==
    ASSUME RunTypes, NEW r \in Runners, run[r].pc # "tail", NEW p,
           run' = [run EXCEPT ![r].pc = p]
    PROVE  TailStays
  BY DEF RunTypes, TailStays

LEMMA TailStep == ASSUME TypeOK, [Next]_vars PROVE TailStays
<1>0. RunTypes
  BY DEF TypeOK
<1>1. ASSUME run' = run PROVE TailStays
  BY <1>1 DEF TailStays
<1>2. ASSUME NEW S \in SUBSET Jobs, Abort(S) PROVE TailStays
  BY <1>0, <1>2 DEF Abort, TailStays, RunTypes, RunStates
<1>3. ASSUME NEW j \in Jobs, AddStep(j) PROVE TailStays
  BY <1>1, <1>3 DEF AddStep, Admit, Insert, Kick, KickLost
<1>4. ASSUME NEW j \in Jobs, CancelStep(j) \/ DeleteRow(j) \/ Age(j) PROVE TailStays
  <2>1. ASSUME CancelAbort(j) PROVE TailStays
    BY <1>2, <2>1 DEF CancelAbort
  <2> QED
    BY <1>1, <1>4, <2>1 DEF CancelStep, CancelWrite, CancelFails, DeleteRow, Age
<1>5. ASSUME NEW l \in Loops, LoopStep(l) PROVE TailStays
  <2>1. ASSUME Launch(l) PROVE TailStays
    <3>1. PICK r \in Runners : /\ run[r] = Idle
                              /\ \E x : run' = [run EXCEPT ![r] = x]
      BY <2>1 DEF Launch
    <3>2. run[r].pc # "tail"
      BY <3>1 DEF Idle
    <3> QED
      BY <1>0, <3>1, <3>2, TailMove
  <2> QED
    BY <1>1, <1>5, <2>1 DEF LoopStep, Enter, CountProcessing, CountFails, Claim,
                            AskPending, Leave, Wake, LoopDies
<1>6. ASSUME NEW r \in Runners, RunStep(r) PROVE TailStays
  <2>1. ASSUME Finish(r) \/ CatchFails(r) PROVE TailStays
    <3>1. run[r].pc # "idle" /\ Unregister(r)
      BY <2>1 DEF Finish, CatchFails
    <3>2. run' = [run EXCEPT ![r] = Idle]
      BY <1>0, <3>1, UnregisterType
    <3> QED
      BY <1>0, <3>2 DEF RunTypes, TailStays, Idle
  <2>2. ASSUME NEW err \in Errors, ExecThrows(r, err) \/ TryFails(r, err) PROVE TailStays
    BY <1>0, <2>2, TailPc DEF ExecThrows, TryFails
  <2>3. ASSUME ReadStatus(r) \/ Register(r) \/ ExecReturns(r) PROVE TailStays
    BY <1>0, <2>3, TailPc DEF ReadStatus, Register, ExecReturns
  <2>4. ASSUME Complete(r) \/ Requeue(r) \/ Stop(r) \/ Fail(r) PROVE TailStays
    BY <1>0, <2>4, TailPc DEF Complete, Requeue, Stop, Fail
  <2> QED
    BY <1>6, <2>1, <2>2, <2>3, <2>4 DEF RunStep
<1>7. ASSUME NEW a \in Admins, AdminStep(a) PROVE TailStays
  <2>1. ASSUME CancelAllStart(a) \/ PurgeCancels(a) PROVE TailStays
    BY <1>2, <2>1 DEF CancelAllStart, PurgeCancels, CancelAll
  <2>2. ASSUME MineAbort(a) PROVE TailStays
    <3>1. (IF hooks = "job" THEN admin[a].ids ELSE {}) \in SUBSET Jobs
      BY DEF TypeOK, RequestTypes
    <3> QED
      BY <1>2, <2>2, <3>1 DEF MineAbort
  <2> QED
    BY <1>1, <1>7, <2>1, <2>2 DEF AdminStep, PurgeStep, MineStep, CancelAllEnd,
                PurgeStart, PurgeRead, PurgeRow, PurgeFail, PurgeAll, PurgeFails, PurgeEnd,
                MineSelect, MineUpdate, MineFail, MineDelete
<1>8. ASSUME Crash PROVE TailStays
  BY <1>8 DEF Crash, TailStays, Idle
<1>9. ASSUME Pause \/ Resume \/ DispatchEntryHooks \/ SweepStep \/ Boot \/ UNCHANGED vars
      PROVE  TailStays
  BY <1>1, <1>9 DEF Pause, Resume, DispatchEntryHooks, SweepStep, SweepStart,
                    SweepCeiling, SweepChat, SweepRequeue, Boot, vars
<1> QED
  BY <1>3, <1>4, <1>5, <1>6, <1>7, <1>8, <1>9 DEF Next
-----------------------------------------------------------------------------
(* The account of each job, step by step.                                  *)

Accounts == \A j \in Jobs : RetryMax[j] <= 1 => OneClaim(j) /\ Paid(j)

(* A step that shrinks the claims of every job keeps the accounts.         *)
LEMMA AllShrink ==
    ASSUME Accounts, \A j \in Jobs : Shrinks(j) PROVE Accounts'
  BY ShrinkKeeps DEF Accounts

(* Insert makes the row due; it had never been executed.                   *)
LEMMA InsertKeepsAccounts ==
    ASSUME OwnershipInv, Accounts, NEW i \in Jobs, Insert(i) PROVE Accounts'
<1>0. RowTypes /\ RunTypes /\ ScalarTypes
  BY DEF OwnershipInv, TypeOK
<1>1. /\ status[i] = "absent" /\ status' = [status EXCEPT ![i] = "pending"]
      /\ UNCHANGED <<attempts, retried, stale, loop, run, starts>>
  BY DEF Insert, OwnershipInv, NotYetInserted, history
<1>2. \A j \in Jobs : status'[j] = IF j = i THEN "pending" ELSE status[j]
  BY <1>0, <1>1 DEF RowTypes
<1>3. \A j \in Jobs : NoHolder(j)' <=> NoHolder(j)
  BY <1>1 DEF NoHolder, Claimed, HoldsClaim, Owns
<1> SUFFICES ASSUME NEW j \in Jobs, RetryMax[j] <= 1, OneClaim(j), Paid(j)
             PROVE  OneClaim(j)' /\ Paid(j)'
  BY DEF Accounts
<1>4. CASE j = i
  <2>1. NoHolder(j) /\ starts[j] = 0
    BY <1>1, <1>4 DEF OneClaim, Paid
  <2>2. OneClaim(j)'
    BY <1>3, <2>1 DEF OneClaim, NoHolder
  <2>3. Paid(j)'
    BY <1>0, <1>1, <1>2, <1>4, <2>1 DEF Paid, RowTypes, ScalarTypes
  <2> QED
    BY <2>2, <2>3
<1>5. CASE j # i
  <2>1. Shrinks(j)
    BY <1>1, <1>2, <1>5 DEF Shrinks, Claimed, HoldsClaim, Owns
  <2> QED
    BY <2>1, ShrinkKeeps
<1> QED
  BY <1>4, <1>5

(* A row grows stale when no claim on it is open.                          *)
LEMMA AgeKeepsAccounts ==
    ASSUME OwnershipInv, Accounts, NEW i \in Jobs, Age(i) PROVE Accounts'
<1>0. RowTypes
  BY DEF OwnershipInv, TypeOK
<1>1. /\ UNCHANGED <<status, attempts, retried, loop, run, starts>>
      /\ \A j \in Jobs : stale'[j] => stale[j] \/ j = i
  BY <1>0 DEF Age, RowTypes, history
<1>2. NoHolder(i)
  BY DEF Age, NoHolder, Claimed, HoldsClaim, Owns, Executing
<1>3. \A j \in Jobs : Shrinks(j)
  BY <1>1, <1>2 DEF Shrinks, Claimed, HoldsClaim, Owns
<1> QED
  BY <1>3, AllShrink

(* A claim opens one claim of each row it takes, which had none.           *)
LEMMA ClaimKeepsAccounts ==
    ASSUME OwnershipInv, Accounts, NEW l \in Loops, Claim(l) PROVE Accounts'
<1>0. RowTypes /\ LoopTypes
  BY DEF OwnershipInv, TypeOK
<1>1. PICK S \in SUBSET Jobs :
        /\ \A j \in S : status[j] = "pending"
        /\ SetAll(S, "processing")
        /\ loop' = [loop EXCEPT ![l] =
                      IF S = {} THEN NextClass(loop[l].class, InFlight(l))
                      ELSE [LoopOff EXCEPT !.pc = "launch",
                                           !.class = loop[l].class, !.todo = S]]
  BY DEF Claim
<1>2. UNCHANGED <<attempts, retried, run, starts>>
  BY DEF Claim, history
<1>3. \A j \in Jobs : /\ status'[j] = IF j \in S THEN "processing" ELSE status[j]
                      /\ stale'[j] <=> j \notin S /\ stale[j]
  BY <1>1 DEF SetAll
<1>4. loop'[l].todo = S /\ \A m \in Loops : m # l => loop'[m] = loop[m]
  <2>1. [LoopOff EXCEPT !.pc = "launch", !.class = loop[l].class, !.todo = S].todo = S
    BY DEF LoopOff
  <2> QED
    BY <1>0, <1>1, <2>1, EmptyTodo DEF LoopTypes
<1> SUFFICES ASSUME NEW j \in Jobs, RetryMax[j] <= 1, OneClaim(j), Paid(j)
             PROVE  OneClaim(j)' /\ Paid(j)'
  BY DEF Accounts
<1>5. CASE j \in S
  <2>1. NoHolder(j) /\ Due(j)
    BY <1>1, <1>5 DEF OneClaim, Due
  <2>2. \A m \in Loops : Claimed(m, j)' => m = l
    BY <1>4, <2>1 DEF Claimed, NoHolder
  <2>3. \A r \in Runners : ~(HoldsClaim(r, j)')
    BY <1>2, <2>1 DEF NoHolder, HoldsClaim, Owns
  <2>4. OneClaim(j)'
    BY <1>3, <1>5, <2>2, <2>3 DEF OneClaim
  <2>5. Paid(j)'
    BY <1>2, <1>3, <1>5, <2>1 DEF Paid
  <2> QED
    BY <2>4, <2>5
<1>6. CASE j \notin S
  <2>1. Shrinks(j)
    BY <1>2, <1>3, <1>4, <1>6 DEF Shrinks, Claimed, HoldsClaim, Owns
  <2> QED
    BY <2>1, ShrinkKeeps
<1> QED
  BY <1>5, <1>6

(* A launch hands the open claim from the loop to the runner.              *)
LEMMA LaunchKeepsAccounts ==
    ASSUME OwnershipInv, Accounts, NEW l \in Loops, Launch(l) PROVE Accounts'
<1>0. LoopTypes /\ RunTypes
  BY DEF OwnershipInv, TypeOK
<1>1. PICK i \in loop[l].todo, r \in Runners :
        /\ run[r] = Idle
        /\ run' = [run EXCEPT ![r] = [Idle EXCEPT !.pc = "read", !.job = i,
                                      !.loop = l, !.retry = retried[i]]]
        /\ loop' = [loop EXCEPT ![l] =
                      IF loop[l].todo \ {i} = {} THEN NextClass(loop[l].class, {r})
                      ELSE [loop[l] EXCEPT !.todo = loop[l].todo \ {i}]]
  BY <1>0 DEF Launch, LoopTypes
<1>2. UNCHANGED <<status, stale, attempts, retried, starts>>
  BY DEF Launch, rows, history
<1>3. i \in Jobs /\ Claimed(l, i)
  BY <1>0, <1>1 DEF LoopTypes, LoopStates, Claimed
<1>4. \A s \in Runners, j \in Jobs :
         HoldsClaim(s, j)' => (s = r /\ j = i) \/ HoldsClaim(s, j)
  <2>1. /\ run'[r].job = i
        /\ \A s \in Runners : s # r => run'[s] = run[s]
    BY <1>0, <1>1 DEF RunTypes, Idle
  <2> QED
    BY <2>1 DEF HoldsClaim, Owns
<1>5. \A m \in Loops, j \in Jobs : Claimed(m, j)' => Claimed(m, j) /\ ~(m = l /\ j = i)
  <2>1. \A m \in Loops : m # l => loop'[m] = loop[m]
    BY <1>0, <1>1 DEF LoopTypes
  <2>2. loop'[l].todo = loop[l].todo \ {i}
    BY <1>0, <1>1, EmptyTodo DEF LoopTypes, LoopStates
  <2> QED
    BY <2>1, <2>2 DEF Claimed
<1> SUFFICES ASSUME NEW j \in Jobs, RetryMax[j] <= 1, OneClaim(j), Paid(j)
             PROVE  OneClaim(j)' /\ Paid(j)'
  BY DEF Accounts
<1>6. CASE j = i
  <2>1. ~NoHolder(j) /\ Due(j) /\ status[j] \notin {"absent", "pending"} /\ ~stale[j]
    BY <1>3, <1>6 DEF OneClaim, NoHolder, Due
  <2>2. /\ \A m \in Loops : ~(Claimed(m, j)')
        /\ \A s \in Runners : HoldsClaim(s, j)' => s = r
    BY <1>3, <1>4, <1>5, <1>6 DEF OneClaim
  <2>3. OneClaim(j)'
    BY <1>2, <2>1, <2>2 DEF OneClaim
  <2>4. Paid(j)'
    BY <1>2, <2>1 DEF Paid
  <2> QED
    BY <2>3, <2>4
<1>7. CASE j # i
  <2>1. Shrinks(j)
    BY <1>2, <1>4, <1>5, <1>7 DEF Shrinks
  <2> QED
    BY <2>1, ShrinkKeeps
<1> QED
  BY <1>6, <1>7

(* A runner that has read the status holds its claim, or skips it.         *)
LEMMA ReadStatusKeepsAccounts ==
    ASSUME OwnershipInv, Accounts, NEW r \in Runners, ReadStatus(r) PROVE Accounts'
<1>0. RunTypes
  BY DEF OwnershipInv, TypeOK
<1>1. run[r].pc = "read" /\ UNCHANGED <<status, stale, attempts, retried, loop, starts>>
  BY DEF ReadStatus, rows, history
<1>2. PICK p \in {"register", "skip"} : run' = [run EXCEPT ![r].pc = p]
  BY DEF ReadStatus
<1>3. p \in RunPcs /\ p # "idle"
  BY DEF RunPcs
<1>4. \A s \in Runners : /\ run'[s].job = run[s].job
                         /\ run'[s].pc = IF s = r THEN p ELSE run[s].pc
  BY <1>0, <1>1, <1>2, <1>3, RunUpdate
<1>5. \A j \in Jobs : Shrinks(j)
  BY <1>1, <1>4 DEF Shrinks, Claimed, HoldsClaim, Owns
<1> QED
  BY <1>5, AllShrink

(* A runner that registers uses its claim up: one more execution.          *)
LEMMA RegisterKeepsAccounts ==
    ASSUME OwnershipInv, Accounts, NEW r \in Runners, Register(r) PROVE Accounts'
<1>0. RowTypes /\ RunTypes /\ ScalarTypes
  BY DEF OwnershipInv, TypeOK
<1>1. PICK k \in Jobs : k = run[r].job
  BY <1>0 DEF Register, RunTypes
<1>2. /\ HoldsClaim(r, k)
      /\ UNCHANGED <<status, stale, attempts, retried, loop>>
      /\ \A j \in Jobs : starts'[j] = IF j = k THEN starts[j] + 1 ELSE starts[j]
  BY <1>0, <1>1 DEF Register, rows, HoldsClaim, Owns, ScalarTypes
<1>3. \A s \in Runners : /\ run'[s].job = run[s].job
                         /\ run'[s].pc = IF s = r THEN "exec" ELSE run[s].pc
  <2>1. "exec" \in RunPcs /\ run[r].pc # "idle" /\ run' = [run EXCEPT ![r].pc = "exec"]
    BY DEF RunPcs, Register
  <2> QED
    BY <1>0, <2>1, RunUpdate
<1>4. \A s \in Runners, j \in Jobs : HoldsClaim(s, j)' => HoldsClaim(s, j) /\ s # r
  BY <1>3 DEF HoldsClaim, Owns
<1>5. \A m \in Loops, j \in Jobs : Claimed(m, j)' => Claimed(m, j)
  BY <1>2 DEF Claimed
<1> SUFFICES ASSUME NEW j \in Jobs, RetryMax[j] <= 1, OneClaim(j), Paid(j)
             PROVE  OneClaim(j)' /\ Paid(j)'
  BY DEF Accounts
<1>6. CASE j = k
  <2>1. Due(j) /\ status[j] \notin {"absent", "pending"}
    BY <1>2, <1>6 DEF OneClaim, NoHolder, Due
  <2>2. NoHolder(j)'
    BY <1>2, <1>4, <1>5, <1>6 DEF OneClaim, NoHolder
  <2>3. OneClaim(j)'
    BY <2>2 DEF OneClaim, NoHolder
  <2>4. ~(Due(j)')
    BY <1>2, <2>1, <2>2 DEF Due
  <2>5. starts'[j] <= 1 + attempts'[j] + retried'[j]
    BY <1>0, <1>2, <1>6, <2>1 DEF Paid, RowTypes, ScalarTypes
  <2> QED
    BY <1>2, <2>1, <2>3, <2>4, <2>5 DEF Paid
<1>7. CASE j # k
  <2>1. Shrinks(j)
    BY <1>2, <1>4, <1>5, <1>7 DEF Shrinks
  <2> QED
    BY <2>1, ShrinkKeeps
<1> QED
  BY <1>6, <1>7

(* The one executor-level retry makes the row due again.  Its runner was   *)
(* launched before any retry, so it owned the job alone.                   *)
LEMMA RequeueKeepsAccounts ==
    ASSUME OwnershipInv, Spent, Accounts, NEW r \in Runners, Requeue(r) PROVE Accounts'
<1>0. RowTypes /\ RunTypes /\ ScalarTypes /\ OneOwner /\ UnclaimedIsFree
  BY DEF OwnershipInv, TypeOK, Ownership
<1>1. PICK k \in Jobs : k = run[r].job
  BY <1>0 DEF Requeue, RunTypes
<1>2. /\ Owns(r, k) /\ run[r].pc = "requeue" /\ run[r].retry \in Nat
      /\ run[r].retry < RetryMax[k]
      /\ SetStatus(k, "pending")
      /\ retried' = [retried EXCEPT ![k] = run[r].retry + 1]
      /\ UNCHANGED <<attempts, loop, starts>>
  BY <1>0, <1>1 DEF Requeue, Owns, RunTypes, RunStates, OwnershipInv, RequeuerMayRetry, history
<1>3. \A s \in Runners : /\ run'[s].job = run[s].job
                         /\ run'[s].pc = IF s = r THEN "tail" ELSE run[s].pc
  <2>1. "tail" \in RunPcs /\ run[r].pc # "idle" /\ run' = [run EXCEPT ![r].pc = "tail"]
    BY DEF RunPcs, Requeue
  <2> QED
    BY <1>0, <2>1, RunUpdate
<1>4. \A s \in Runners, j \in Jobs : HoldsClaim(s, j)' => HoldsClaim(s, j) /\ s # r
  BY <1>3 DEF HoldsClaim, Owns
<1>5. \A m \in Loops, j \in Jobs : Claimed(m, j)' => Claimed(m, j)
  BY <1>2 DEF Claimed
<1>6. /\ retried'[k] = run[r].retry + 1
      /\ \A j \in Jobs : j # k => /\ status'[j] = status[j] /\ stale'[j] = stale[j]
                                  /\ retried'[j] = retried[j]
      /\ status'[k] = (IF Exists(k) THEN "pending" ELSE status[k]) /\ ~stale'[k]
  BY <1>0, <1>2 DEF SetStatus, RowTypes
<1> SUFFICES ASSUME NEW j \in Jobs, RetryMax[j] <= 1, OneClaim(j), Paid(j)
             PROVE  OneClaim(j)' /\ Paid(j)'
  BY DEF Accounts
<1>7. CASE j = k
  <2>1. run[r].retry = 0
    BY <1>2, <1>7, JobsAssumption
  <2>2. retried[j] = 0
    BY <1>2, <1>7, <2>1 DEF Spent
  <2>3. status[j] \notin {"absent", "pending"}
    BY <1>0, <1>2, <1>7, <2>2 DEF UnclaimedIsFree, Once
  <2>4. NoHolder(j)'
    BY <1>0, <1>2, <1>4, <1>5, <1>7, <2>2 DEF OneOwner, Once, NoHolder, HoldsClaim
  <2>5. OneClaim(j)'
    BY <2>4 DEF OneClaim, NoHolder
  <2>6. starts'[j] <= attempts'[j] + retried'[j]
    BY <1>0, <1>2, <1>6, <1>7, <2>1, <2>2 DEF Paid, RowTypes, ScalarTypes
  <2>7. status'[j] # "absent"
    BY <1>6, <1>7, <2>3
  <2>8. starts'[j] \in Nat /\ attempts'[j] \in Nat /\ retried'[j] \in Nat
    BY <1>0, <1>2, <1>6, <1>7 DEF RowTypes, ScalarTypes
  <2> QED
    BY <2>5, <2>6, <2>7, <2>8 DEF Paid
<1>8. CASE j # k
  <2>1. Shrinks(j)
    BY <1>2, <1>4, <1>5, <1>6, <1>8 DEF Shrinks
  <2> QED
    BY <2>1, ShrinkKeeps
<1> QED
  BY <1>7, <1>8

(* A sweep, periodic or at boot, makes a stale row due once more and       *)
(* counts it; no claim on it was open.                                     *)
LEMMA RedeliveryKeepsAccounts ==
    ASSUME OwnershipInv, Accounts, UNCHANGED <<retried, loop, run, starts>>,
           NEW S \in SUBSET {j \in Jobs : stale[j]},
           \A j \in Jobs :
              /\ j \in S => status'[j] = "pending" /\ attempts'[j] = attempts[j] + 1
              /\ j \notin S => /\ attempts'[j] = attempts[j]
                               /\ status'[j] \in {"absent", "pending"} => status'[j] = status[j]
              /\ stale'[j] => j \notin S /\ stale[j]
    PROVE  Accounts'
<1>0. RowTypes /\ ScalarTypes
  BY DEF OwnershipInv, TypeOK
<1>1. \A j \in Jobs : NoHolder(j)' <=> NoHolder(j)
  BY DEF NoHolder, Claimed, HoldsClaim, Owns
<1> SUFFICES ASSUME NEW j \in Jobs, RetryMax[j] <= 1, OneClaim(j), Paid(j)
             PROVE  OneClaim(j)' /\ Paid(j)'
  BY DEF Accounts
<1>2. CASE j \in S
  <2>1. NoHolder(j)
    BY <1>2 DEF OneClaim
  <2>2. OneClaim(j)'
    BY <1>1, <2>1 DEF OneClaim, NoHolder
  <2>3. starts'[j] <= attempts'[j] + retried'[j]
    BY <1>0, <1>2 DEF Paid, RowTypes, ScalarTypes
  <2>4. starts'[j] \in Nat /\ attempts'[j] \in Nat /\ retried'[j] \in Nat
    BY <1>0, <1>2 DEF RowTypes, ScalarTypes
  <2> QED
    BY <1>2, <2>2, <2>3, <2>4 DEF Paid
<1>3. CASE j \notin S
  <2>1. Shrinks(j)
    BY <1>3 DEF Shrinks, Claimed, HoldsClaim, Owns
  <2> QED
    BY <2>1, ShrinkKeeps
<1> QED
  BY <1>2, <1>3

LEMMA SweepKeepsAccounts ==
    ASSUME OwnershipInv, Accounts, SweepRequeue \/ Boot PROVE Accounts'
<1>1. CASE SweepRequeue
  <2> DEFINE S == Stranded(reaper.live) \ (Chats \cup Exhausted)
  <2>1. S \in SUBSET {j \in Jobs : stale[j]}
    BY DEF Stranded
  <2>2. SetAll(S, "pending")
        /\ attempts' = [j \in Jobs |-> IF j \in S THEN attempts[j] + 1 ELSE attempts[j]]
        /\ UNCHANGED <<retried, loop, run, starts>>
    BY <1>1 DEF SweepRequeue, RequeueRows, history
  <2> HIDE DEF S
  <2> QED
    BY <2>1, <2>2, RedeliveryKeepsAccounts DEF SetAll
<1>2. CASE Boot
  <2> DEFINE S == Stranded({}) \ (Chats \cup Exhausted)
             F == Stranded({}) \ S
  <2>1. S \in SUBSET {j \in Jobs : stale[j]}
    BY DEF Stranded
  <2>2. /\ status' = [j \in Jobs |-> IF j \in F THEN "failed"
                                     ELSE IF j \in S THEN "pending" ELSE status[j]]
        /\ attempts' = [j \in Jobs |-> IF j \in S THEN attempts[j] + 1 ELSE attempts[j]]
        /\ stale' = [j \in Jobs |-> FALSE]
        /\ UNCHANGED <<retried, loop, run, starts>>
    BY <1>2 DEF Boot, history
  <2>3. \A j \in S : j \notin F
    OBVIOUS
  <2> HIDE DEF S, F
  <2> QED
    BY <2>1, <2>2, <2>3, RedeliveryKeepsAccounts
<1> QED
  BY <1>1, <1>2

(* A runner that ends, normally or by rejection, holds no claim any more.  *)
LEMMA FinishKeepsAccounts ==
    ASSUME OwnershipInv, Accounts, NEW r \in Runners, Finish(r) \/ CatchFails(r)
    PROVE  Accounts'
<1>0. LoopTypes /\ RunTypes
  BY DEF OwnershipInv, TypeOK
<1>1. /\ run[r].pc # "idle" /\ Unregister(r)
      /\ UNCHANGED <<status, stale, attempts, retried, starts>>
  BY DEF Finish, CatchFails, rows, history
<1>2. run' = [run EXCEPT ![r] = Idle]
  BY <1>0, <1>1, UnregisterType
<1>3. \A s \in Runners, j \in Jobs : HoldsClaim(s, j)' => HoldsClaim(s, j)
  BY <1>0, <1>2 DEF HoldsClaim, Owns, Idle, RunTypes
<1>4. ClaimsShrink
  <2>1. CASE Finish(r)
    BY <2>1 DEF Finish, ClaimsShrink
  <2>2. CASE CatchFails(r)
    <3>1. PICK l \in Loops : l = run[r].loop
      BY <1>0, <2>2 DEF CatchFails, RunTypes
    <3>2. CASE loop[l].pc = "wait"
      BY <1>0, <2>2, <3>1, <3>2, EmptyTodo, ResetClaims DEF CatchFails, ResumeLoop
    <3>3. CASE loop[l].pc # "wait"
      BY <2>2, <3>1, <3>3 DEF CatchFails, ClaimsShrink
    <3> QED
      BY <3>2, <3>3
  <2> QED
    BY <2>1, <2>2
<1>5. \A j \in Jobs : Shrinks(j)
  BY <1>1, <1>3, <1>4 DEF Shrinks, ClaimsShrink, Claimed
<1> QED
  BY <1>5, AllShrink

(* Every step keeps the accounts.                                          *)
LEMMA AccountsStep ==
    ASSUME OwnershipInv, Spent, Accounts, [Next]_vars PROVE Accounts'
<1>1. ASSUME Calm, UNCHANGED <<starts, attempts, retried>> PROVE Accounts'
  <2>1. \A j \in Jobs : Shrinks(j)
    BY <1>1 DEF Calm, Shrinks, ClaimsShrink, RunsGoOn, RowsEnd, Ended, Terminal,
                Claimed, HoldsClaim, Owns
  <2> QED
    BY <2>1, AllShrink
<1>2. ASSUME NEW r \in Runners, Register(r) \/ Requeue(r) PROVE Accounts'
  BY <1>2, RegisterKeepsAccounts, RequeueKeepsAccounts
<1>3. ASSUME SweepRequeue \/ Boot PROVE Accounts'
  BY <1>3, SweepKeepsAccounts
<1>4. ASSUME Calm PROVE Accounts'
  BY <1>1, <1>2, <1>3, <1>4, CountersMove
<1>5. ASSUME NEW j \in Jobs, Insert(j) \/ Age(j) PROVE Accounts'
  BY <1>5, InsertKeepsAccounts, AgeKeepsAccounts
<1>6. ASSUME NEW l \in Loops, Claim(l) \/ Launch(l) PROVE Accounts'
  BY <1>6, ClaimKeepsAccounts, LaunchKeepsAccounts
<1>7. ASSUME NEW r \in Runners, ReadStatus(r) \/ Finish(r) \/ CatchFails(r) PROVE Accounts'
  BY <1>7, ReadStatusKeepsAccounts, FinishKeepsAccounts
<1>8. ASSUME SweepStart PROVE Accounts'
  <2>1. \A j \in Jobs : Shrinks(j)
    BY <1>8 DEF SweepStart, rows, history, Shrinks, Claimed, HoldsClaim, Owns
  <2> QED
    BY <2>1, AllShrink
<1>9. ASSUME Crash PROVE Accounts'
  <2>1. \A j \in Jobs : Shrinks(j)
    BY <1>9 DEF Crash, rows, history, Shrinks, Claimed, HoldsClaim, Owns, LoopOff, Idle
  <2> QED
    BY <2>1, AllShrink
<1> QED
  BY <1>2, <1>3, <1>4, <1>5, <1>6, <1>7, <1>8, <1>9, SpecialActions

-----------------------------------------------------------------------------
(* Retries and redeliveries                                                *)

(* Until the retry its runner is the only owner; after it, a new runner    *)
(* has the retry in its count.                                             *)
LEMMA SpentStep == ASSUME OwnershipInv, Spent, [Next]_vars PROVE Spent'
<1>0. RowTypes /\ LoopTypes /\ RunTypes /\ OneOwner
  BY DEF OwnershipInv, TypeOK, Ownership
<1>t. TailStays
  BY TailStep DEF OwnershipInv
<1>1. ASSUME retried' = retried,
             \A r \in Runners : \/ run'[r].job = None
                                \/ run'[r].job = run[r].job /\ run'[r].retry = run[r].retry
      PROVE  Spent'
  <2> SUFFICES ASSUME NEW r \in Runners, NEW j \in Jobs, run'[r].job = j,
                      retried'[j] # 0, run'[r].retry = 0
               PROVE  run'[r].pc = "tail"
    BY DEF Spent, Owns
  <2>1. run[r].job = j /\ run[r].retry = 0 /\ retried[j] # 0
    BY <1>1, NoneAssumption
  <2>2. run[r].pc = "tail"
    BY <2>1 DEF Spent, Owns
  <2>3. run'[r].pc # "idle"
    BY NoneAssumption, TypeStep DEF OwnershipInv, TypeOK, RunTypes
  <2> QED
    BY <1>t, <2>2, <2>3 DEF TailStays
<1>2. ASSUME run' = run, retried' = retried PROVE Spent'
  BY <1>2 DEF Spent, Owns
<1>3. ASSUME Calm PROVE Spent'
  BY <1>1, <1>3 DEF Calm, RunsGoOn
<1>4. ASSUME NEW j \in Jobs, Insert(j) \/ Age(j) PROVE Spent'
  BY <1>2, <1>4 DEF Insert, Age
<1>5. ASSUME NEW l \in Loops, Claim(l) PROVE Spent'
  BY <1>2, <1>5 DEF Claim
<1>6. ASSUME NEW l \in Loops, Launch(l) PROVE Spent'
  <2>1. PICK i \in loop[l].todo, r \in Runners :
          run' = [run EXCEPT ![r] = [Idle EXCEPT !.pc = "read", !.job = i,
                                     !.loop = l, !.retry = retried[i]]]
    BY <1>6 DEF Launch
  <2>2. /\ run'[r].job = i /\ run'[r].retry = retried[i]
        /\ \A s \in Runners : s # r => run'[s] = run[s]
    BY <1>0, <2>1 DEF RunTypes, Idle
  <2>3. retried' = retried
    BY <1>6 DEF Launch, rows
  <2> QED
    BY <2>2, <2>3 DEF Spent, Owns
<1>7. ASSUME NEW r \in Runners, NEW p \in RunPcs \ {"idle"}, run[r].pc # "idle",
             run' = [run EXCEPT ![r].pc = p], retried' = retried
      PROVE  Spent'
  BY <1>0, <1>1, <1>7, RunUpdate
<1>8. ASSUME NEW r \in Runners, ReadStatus(r) \/ Register(r) PROVE Spent'
  <2>1. {"register", "skip", "exec"} \subseteq RunPcs \ {"idle"}
    BY DEF RunPcs
  <2>2. PICK p \in {"register", "skip", "exec"} : run' = [run EXCEPT ![r].pc = p]
    BY <1>8 DEF ReadStatus, Register
  <2>3. retried' = retried /\ run[r].pc # "idle"
    BY <1>8 DEF ReadStatus, Register, rows
  <2> QED
    BY <1>7, <2>1, <2>2, <2>3
<1>9. ASSUME NEW r \in Runners, Requeue(r) PROVE Spent'
  <2>1. PICK k \in Jobs : k = run[r].job
    BY <1>0, <1>9 DEF Requeue, RunTypes
  <2>2. \A s \in Runners : /\ run'[s].job = run[s].job /\ run'[s].retry = run[s].retry
                           /\ run'[s].pc = IF s = r THEN "tail" ELSE run[s].pc
    <3>1. "tail" \in RunPcs /\ run[r].pc # "idle" /\ run' = [run EXCEPT ![r].pc = "tail"]
      BY <1>9 DEF RunPcs, Requeue
    <3> QED
      BY <1>0, <3>1, RunUpdate
  <2>3. \A j \in Jobs : j # k => retried'[j] = retried[j]
    BY <1>0, <1>9, <2>1 DEF Requeue, RowTypes
  <2> SUFFICES ASSUME NEW s \in Runners, NEW j \in Jobs, run[s].job = j,
                      retried'[j] # 0, run[s].retry = 0, s # r
               PROVE  run[s].pc = "tail"
    BY <2>2 DEF Spent, Owns
  <2>4. CASE retried[j] # 0
    BY <2>4 DEF Spent, Owns
  <2>5. CASE retried[j] = 0
    BY <1>0, <2>1, <2>3, <2>5 DEF OneOwner, Once, Owns
  <2> QED
    BY <2>4, <2>5
<1>10. ASSUME NEW r \in Runners, Finish(r) \/ CatchFails(r) PROVE Spent'
  <2>1. run[r].pc # "idle" /\ Unregister(r) /\ retried' = retried
    BY <1>10 DEF Finish, CatchFails, rows
  <2>2. run' = [run EXCEPT ![r] = Idle]
    BY <1>0, <2>1, UnregisterType
  <2> QED
    BY <1>0, <1>1, <2>1, <2>2 DEF RunTypes, Idle
<1>11. ASSUME SweepStart \/ SweepRequeue \/ Boot PROVE Spent'
  BY <1>2, <1>11 DEF SweepStart, SweepRequeue, Boot, rows
<1>12. ASSUME Crash PROVE Spent'
  BY <1>1, <1>12 DEF Crash, Idle, rows
<1> QED
  BY <1>3, <1>4, <1>5, <1>6, <1>8, <1>9, <1>10, <1>11, <1>12, SpecialActions

(* A sweep redelivers neither a chat nor an exhausted job.                 *)
LEMMA RedeliveriesStep ==
    ASSUME TypeOK, RedeliveriesKept, [Next]_vars PROVE RedeliveriesKept'
<1>1. ASSUME attempts' = attempts PROVE RedeliveriesKept'
  BY <1>1 DEF RedeliveriesKept
<1>2. ASSUME NEW S, \A j \in S : j \notin Chats \cup Exhausted,
             attempts' = [j \in Jobs |-> IF j \in S THEN attempts[j] + 1 ELSE attempts[j]]
      PROVE  RedeliveriesKept'
  <2> SUFFICES ASSUME NEW j \in Jobs
               PROVE  attempts'[j] <= IF IsChat(j) THEN 0 ELSE MaxRedeliveries
    BY DEF RedeliveriesKept
  <2>1. CASE j \in S
    <3>1. ~IsChat(j) /\ ~(attempts[j] >= MaxRedeliveries)
      BY <1>2, <2>1 DEF Chats, Exhausted
    <3>2. attempts[j] \in Nat /\ MaxRedeliveries \in Nat
      BY BoundAssumption DEF TypeOK, RowTypes
    <3> QED
      BY <1>2, <2>1, <3>1, <3>2
  <2>2. CASE j \notin S
    BY <1>2, <2>2 DEF RedeliveriesKept
  <2> QED
    BY <2>1, <2>2
<1>3. ASSUME SweepRequeue PROVE RedeliveriesKept'
  <2> DEFINE S == Stranded(reaper.live) \ (Chats \cup Exhausted)
  <2>1. \A j \in S : j \notin Chats \cup Exhausted
    OBVIOUS
  <2>2. attempts' = [j \in Jobs |-> IF j \in S THEN attempts[j] + 1 ELSE attempts[j]]
    BY <1>3 DEF SweepRequeue, RequeueRows
  <2> HIDE DEF S
  <2> QED
    BY <1>2, <2>1, <2>2
<1>4. ASSUME Boot PROVE RedeliveriesKept'
  <2> DEFINE S == Stranded({}) \ (Chats \cup Exhausted)
  <2>1. \A j \in S : j \notin Chats \cup Exhausted
    OBVIOUS
  <2>2. attempts' = [j \in Jobs |-> IF j \in S THEN attempts[j] + 1 ELSE attempts[j]]
    BY <1>4 DEF Boot
  <2> HIDE DEF S
  <2> QED
    BY <1>2, <2>1, <2>2
<1>5. ASSUME NEW r \in Runners, Register(r) \/ Requeue(r) PROVE RedeliveriesKept'
  BY <1>1, <1>5 DEF Register, Requeue, rows
<1> QED
  BY <1>1, <1>3, <1>4, <1>5, CountersMove

(* A chat answer is generated at most once; a job with at most one         *)
(* executor-level retry is executed once, plus its retry, plus its         *)
(* redeliveries, whatever crashes, sweeps, cancels and overlapping         *)
(* runners do (runJob, requeueJobForRetry, runQueueReaper).                *)
THEOREM ExecutionBudgetCorrect == Spec => []ExecutionBudget
<1>1. Init => BudgetInv
  <2> SUFFICES ASSUME Init PROVE BudgetInv
    OBVIOUS
  <2>1. \A j \in Jobs : NoHolder(j)
    BY DEF Init, NoHolder, Claimed, HoldsClaim, LoopOff, Idle
  <2>2. \A j \in Jobs : OneClaim(j) /\ Paid(j)
    BY <2>1 DEF Init, OneClaim, Paid, Due, NoHolder
  <2>3. Spent /\ RedeliveriesKept
    BY BoundAssumption DEF Init, Spent, RedeliveriesKept
  <2> QED
    BY <2>2, <2>3 DEF BudgetInv
<1>2. OwnershipInv /\ BudgetInv /\ [Next]_vars => BudgetInv'
  BY SpentStep, RedeliveriesStep, AccountsStep DEF BudgetInv, Accounts, OwnershipInv
<1>3. OwnershipInv /\ BudgetInv => ExecutionBudget
  <2> SUFFICES ASSUME OwnershipInv, BudgetInv, NEW j \in Jobs, RetryMax[j] <= 1
               PROVE  starts[j] <= Budget(j)
    BY DEF ExecutionBudget
  <2>1. /\ starts[j] <= 1 + attempts[j] + retried[j]
        /\ attempts[j] <= IF IsChat(j) THEN 0 ELSE MaxRedeliveries
        /\ retried[j] <= RetryMax[j]
    BY DEF BudgetInv, Paid, RedeliveriesKept, OwnershipInv, RetriesKept
  <2>2. /\ starts[j] \in Nat /\ attempts[j] \in Nat /\ retried[j] \in Nat
        /\ RetryMax[j] \in Nat /\ MaxRedeliveries \in Nat
        /\ IsChat(j) => RetryMax[j] = 0
    BY JobsAssumption, BoundAssumption DEF OwnershipInv, TypeOK, RowTypes, ScalarTypes
  <2> QED
    BY <2>1, <2>2 DEF Budget
<1> QED
  BY <1>1, <1>2, <1>3, OwnershipCorrect, PTL DEF Spec
-----------------------------------------------------------------------------
(* The life of a job without retries.                                      *)

(* A runner that is about to write "completed" has begun an execution.     *)
Closing == {"complete", "notify", "stop"}
Ran == \A r \in Runners :
          run[r].pc \in Closing \cup {"exec"} => starts[run[r].job] > 0

(* What most steps do to runners: none begins or leaves its executor, none *)
(* comes to a close.                                                       *)
Steady ==
    \A r \in Runners :
        /\ run'[r].pc = "exec" <=> run[r].pc = "exec"
        /\ run[r].pc = "exec" => run'[r].job = run[r].job
        /\ run'[r].pc \in Closing => run[r].pc \in Closing /\ run'[r].job = run[r].job

Leaves(r) == ExecReturns(r) \/ \E err \in Errors : ExecThrows(r, err)

LEMMA SteadyPc ==
    ASSUME RunTypes, NEW r \in Runners, run[r].pc # "exec", NEW p, p # "exec",
           p \in Closing => run[r].pc \in Closing,
           run' = [run EXCEPT ![r].pc = p]
    PROVE  Steady
  BY DEF RunTypes, RunStates, Steady

LEMMA SteadyRun ==
    ASSUME RunTypes, NEW r \in Runners, run[r].pc # "exec", NEW x,
           x.pc \notin Closing \cup {"exec"}, run' = [run EXCEPT ![r] = x]
    PROVE  Steady
  BY DEF RunTypes, Steady

(* The executor begins and ends in Register, ExecReturns, ExecThrows and   *)
(* Crash only.                                                             *)
LEMMA RunKinds ==
    ASSUME TypeOK, [Next]_vars
    PROVE  \/ Steady
           \/ \E r \in Runners : Register(r) \/ Leaves(r)
           \/ Crash
<1>0. RunTypes /\ LoopTypes
  BY DEF TypeOK
<1>1. ASSUME run' = run PROVE Steady
  BY <1>1 DEF Steady
<1>2. ASSUME NEW S \in SUBSET Jobs, Abort(S) PROVE Steady
  <2>1. \A r \in Runners : run'[r].pc = run[r].pc /\ run'[r].job = run[r].job
    BY <1>0, <1>2 DEF Abort, RunTypes, RunStates
  <2> QED
    BY <2>1 DEF Steady
<1>3. ASSUME NEW j \in Jobs, AddStep(j) PROVE Steady
  BY <1>1, <1>3 DEF AddStep, Admit, Insert, Kick, KickLost
<1>4. ASSUME NEW j \in Jobs, CancelStep(j) \/ DeleteRow(j) \/ Age(j) PROVE Steady
  <2>1. ASSUME CancelAbort(j) PROVE Steady
    BY <1>2, <2>1 DEF CancelAbort
  <2> QED
    BY <1>1, <1>4, <2>1 DEF CancelStep, CancelWrite, CancelFails, DeleteRow, Age
<1>5. ASSUME NEW l \in Loops, LoopStep(l) PROVE Steady
  <2>1. ASSUME Launch(l) PROVE Steady
    <3>1. PICK j \in loop[l].todo, r \in Runners :
             /\ run[r] = Idle
             /\ run' = [run EXCEPT ![r] = [Idle EXCEPT !.pc = "read", !.job = j,
                                             !.loop = l, !.retry = retried[j]]]
             /\ loop' = [loop EXCEPT ![l] =
                           IF loop[l].todo \ {j} = {} THEN NextClass(loop[l].class, {r})
                           ELSE [loop[l] EXCEPT !.todo = loop[l].todo \ {j}]]
      BY <1>0, <2>1, Zenon DEF Launch, LoopTypes
    <3>2. /\ run[r].pc = "idle" /\ run'[r].pc = "read"
          /\ \A s \in Runners : s # r => run'[s] = run[s]
      BY <1>0, <3>1 DEF RunTypes, Idle
    <3> QED
      BY <3>2 DEF Steady, Closing
  <2>2. ASSUME Enter(l) \/ CountProcessing(l) \/ CountFails(l) PROVE Steady
    BY <1>1, <2>2 DEF Enter, CountProcessing, CountFails
  <2>3. ASSUME Claim(l) PROVE Steady
    BY <1>1, <2>3 DEF Claim
  <2>4. ASSUME AskPending(l) \/ Leave(l) \/ Wake(l) \/ LoopDies(l) PROVE Steady
    BY <1>1, <2>4 DEF AskPending, Leave, Wake, LoopDies
  <2> QED
    BY <1>5, <2>1, <2>2, <2>3, <2>4 DEF LoopStep
<1>6. ASSUME NEW r \in Runners, RunStep(r) PROVE Steady \/ Register(r) \/ Leaves(r)
  <2>1. ASSUME Finish(r) \/ CatchFails(r) PROVE Steady
    <3>1. run[r].pc \notin {"idle", "exec"} /\ Unregister(r)
      BY <2>1 DEF Finish, CatchFails
    <3>2. run' = [run EXCEPT ![r] = Idle]
      BY <1>0, <3>1, UnregisterType
    <3>3. Idle.pc \notin Closing \cup {"exec"}
      BY DEF Idle, Closing
    <3> QED
      BY <1>0, <3>1, <3>2, <3>3, SteadyRun
  <2>2. ASSUME NEW err \in Errors, TryFails(r, err) PROVE Steady
    <3>1. CatchTo(r, err) \in {"requeue", "fail"}
      BY <2>2 DEF TryFails, CatchTo
    <3> QED
      BY <1>0, <2>2, <3>1, SteadyPc DEF TryFails, Closing
  <2>3. ASSUME ReadStatus(r) PROVE Steady
    BY <1>0, <2>3, SteadyPc DEF ReadStatus, Closing
  <2>4. ASSUME Complete(r) \/ Requeue(r) \/ Stop(r) \/ Fail(r) PROVE Steady
    BY <1>0, <2>4, SteadyPc DEF Complete, Requeue, Stop, Fail, Closing
  <2> QED
    BY <1>6, <2>1, <2>2, <2>3, <2>4 DEF RunStep, Leaves
<1>7. ASSUME NEW a \in Admins, AdminStep(a) PROVE Steady
  <2>1. ASSUME CancelAllStart(a) \/ PurgeCancels(a) PROVE Steady
    BY <1>2, <2>1 DEF CancelAllStart, PurgeCancels, CancelAll
  <2>2. ASSUME MineAbort(a) PROVE Steady
    <3>1. (IF hooks = "job" THEN admin[a].ids ELSE {}) \in SUBSET Jobs
      BY DEF TypeOK, RequestTypes
    <3> QED
      BY <1>2, <2>2, <3>1 DEF MineAbort
  <2> QED
    BY <1>1, <1>7, <2>1, <2>2 DEF AdminStep, PurgeStep, MineStep, CancelAllEnd,
                PurgeStart, PurgeRead, PurgeRow, PurgeFail, PurgeAll, PurgeFails, PurgeEnd,
                MineSelect, MineUpdate, MineFail, MineDelete
<1>8. ASSUME Pause \/ Resume \/ DispatchEntryHooks \/ SweepStep \/ Boot \/ UNCHANGED vars
      PROVE  Steady
  BY <1>1, <1>8 DEF Pause, Resume, DispatchEntryHooks, SweepStep, SweepStart,
                    SweepCeiling, SweepChat, SweepRequeue, Boot, vars
<1> QED
  BY <1>3, <1>4, <1>5, <1>6, <1>7, <1>8 DEF Next

(* Only Register counts an execution.                                      *)
LEMMA StartsMove ==
    ASSUME [Next]_vars, ~\E r \in Runners : Register(r)
    PROVE  starts' = starts
<1>1. ASSUME NEW r \in Runners, Requeue(r) PROVE starts' = starts
  BY <1>1 DEF Requeue, history
<1>2. ASSUME SweepRequeue \/ Boot PROVE starts' = starts
  BY <1>2 DEF SweepRequeue, Boot, history
<1> QED
  BY <1>1, <1>2, CountersMove

LEMMA RegisterBegins ==
    ASSUME TypeOK, NEW r \in Runners, Register(r)
    PROVE  /\ run[r].pc = "register" /\ run[r].job \in Jobs
           /\ run'[r].pc = "exec" /\ run'[r].job = run[r].job
           /\ \A s \in Runners : s # r => run'[s] = run[s]
           /\ starts' = [starts EXCEPT ![run[r].job] = @ + 1] /\ starts \in [Jobs -> Nat]
           /\ status' = status
<1>1. RunTypes /\ starts \in [Jobs -> Nat]
  BY DEF TypeOK, ScalarTypes
<1>2. run[r].pc = "register" /\ run[r].job \in Jobs
  BY <1>1 DEF Register, RunTypes
<1> QED
  BY <1>1, <1>2 DEF Register, RunTypes, RunStates, rows

LEMMA LeavesEnds ==
    ASSUME TypeOK, NEW r \in Runners, Leaves(r)
    PROVE  /\ run[r].pc = "exec" /\ run[r].job \in Jobs
           /\ run'[r].pc # "exec" /\ run'[r].job = run[r].job
           /\ \A s \in Runners : s # r => run'[s] = run[s]
           /\ status' = status
<1>1. RunTypes
  BY DEF TypeOK
<1>2. run[r].pc = "exec" /\ run[r].job \in Jobs /\ status' = status
  BY <1>1 DEF Leaves, ExecReturns, ExecThrows, RunTypes, rows
<1>3. \E p : p # "exec" /\ run' = [run EXCEPT ![r].pc = p]
  <2>1. ASSUME ExecReturns(r) PROVE run' = [run EXCEPT ![r].pc = "complete"]
    BY <2>1 DEF ExecReturns
  <2>2. ASSUME NEW err \in Errors, ExecThrows(r, err)
        PROVE  CatchTo(r, err) # "exec" /\ run' = [run EXCEPT ![r].pc = CatchTo(r, err)]
    BY <2>2, CatchToType DEF ExecThrows
  <2> QED
    BY <2>1, <2>2 DEF Leaves
<1> QED
  BY <1>1, <1>2, <1>3 DEF RunTypes, RunStates

LEMMA RanStep == ASSUME TypeOK, Ran, [Next]_vars PROVE Ran'
<1>0. RunTypes /\ starts \in [Jobs -> Nat]
  BY DEF TypeOK, ScalarTypes
<1>1. ASSUME NEW r \in Runners, Register(r) PROVE Ran'
  <2> SUFFICES ASSUME NEW s \in Runners, run'[s].pc \in Closing \cup {"exec"}
               PROVE  starts'[run'[s].job] > 0
    BY DEF Ran
  <2>1. \A j \in Jobs : /\ starts[j] \in Nat /\ (starts[j] > 0 => starts'[j] > 0)
                        /\ starts'[run[r].job] > 0
    BY <1>1, RegisterBegins
  <2>2. CASE s = r
    BY <1>1, <2>1, <2>2, RegisterBegins
  <2>3. CASE s # r
    <3>1. run'[s] = run[s] /\ run[s].pc # "idle"
      BY <1>1, <2>3, RegisterBegins DEF Closing
    <3>2. run[s].job \in Jobs
      BY <1>0, <3>1 DEF RunTypes
    <3> QED
      BY <2>1, <3>1, <3>2 DEF Ran
  <2> QED
    BY <2>2, <2>3
<1>2. ASSUME ~\E r \in Runners : Register(r), Steady PROVE Ran'
  <2>1. starts' = starts
    BY <1>2, StartsMove
  <2> QED
    BY <1>2, <2>1 DEF Ran, Steady
<1>3. ASSUME ~\E r \in Runners : Register(r), NEW r \in Runners, Leaves(r) PROVE Ran'
  <2>1. starts' = starts
    BY <1>3, StartsMove
  <2> SUFFICES ASSUME NEW s \in Runners, run'[s].pc \in Closing \cup {"exec"}
               PROVE  starts'[run'[s].job] > 0
    BY DEF Ran
  <2>2. CASE s = r
    BY <1>3, <2>1, <2>2, LeavesEnds DEF Ran
  <2>3. CASE s # r
    BY <1>3, <2>1, <2>3, LeavesEnds DEF Ran
  <2> QED
    BY <2>2, <2>3
<1>4. ASSUME Crash PROVE Ran'
  BY <1>4 DEF Crash, Idle, Ran, Closing
<1> QED
  BY <1>1, <1>2, <1>3, <1>4, RunKinds

(* An UPDATE by id writes one row, and a set of rows gets one value.       *)
LEMMA SetStatusWrites ==
    ASSUME RowTypes, NEW k \in Jobs, NEW st, SetStatus(k, st), NEW j \in Jobs
    PROVE  status'[j] = status[j] \/ (j = k /\ status'[j] = st)
  BY DEF RowTypes, SetStatus

LEMMA SetAllWrites ==
    ASSUME NEW S, NEW st, SetAll(S, st), NEW j \in Jobs
    PROVE  status'[j] \in {status[j], st}
  BY DEF SetAll

(* "completed" is written by a runner that closes, or by the cancel of a   *)
(* chat.                                                                   *)
LEMMA CompletedBy ==
    ASSUME TypeOK, [Next]_vars, NEW j \in Jobs,
           status[j] # "completed", status'[j] = "completed"
    PROVE  IsChat(j) \/ \E r \in Runners : run[r].pc \in Closing /\ run[r].job = j
<1> DEFINE Goal == IsChat(j) \/ \E r \in Runners : run[r].pc \in Closing /\ run[r].job = j
<1>0. RowTypes /\ RunTypes
  BY DEF TypeOK
<1>1. ASSUME status' = status PROVE Goal
  BY <1>1
<1>2. ASSUME NEW S, NEW st, st # "completed", SetAll(S, st) PROVE Goal
  BY <1>2, SetAllWrites
<1>3. ASSUME NEW k \in Jobs, NEW st, st # "completed", SetStatus(k, st) PROVE Goal
  BY <1>0, <1>3, SetStatusWrites
<1>4. ASSUME NEW k \in Jobs, AddStep(k) \/ CancelStep(k) \/ DeleteRow(k) \/ Age(k) PROVE Goal
  <2>1. CASE AddStep(k)
    BY <1>0, <1>1, <2>1 DEF AddStep, Admit, Insert, Kick, KickLost, rows, RowTypes
  <2>2. CASE CancelWrite(k)
    BY <1>0, <2>2, SetStatusWrites DEF CancelWrite
  <2>3. CASE CancelAbort(k) \/ CancelFails(k) \/ Age(k)
    BY <1>1, <2>3 DEF CancelAbort, CancelFails, Age, rows
  <2>4. CASE DeleteRow(k)
    BY <1>3, <2>4 DEF DeleteRow
  <2> QED
    BY <1>4, <2>1, <2>2, <2>3, <2>4 DEF CancelStep
<1>5. ASSUME NEW l \in Loops, LoopStep(l) PROVE Goal
  <2>1. CASE Claim(l)
    BY <1>2, <2>1 DEF Claim
  <2>2. CASE Enter(l) \/ CountProcessing(l) \/ CountFails(l) \/ Launch(l)
    BY <1>1, <2>2 DEF Enter, CountProcessing, CountFails, Launch, rows
  <2>3. CASE AskPending(l) \/ Leave(l) \/ Wake(l) \/ LoopDies(l)
    BY <1>1, <2>3 DEF AskPending, Leave, Wake, LoopDies, rows
  <2> QED
    BY <1>5, <2>1, <2>2, <2>3 DEF LoopStep
<1>6. ASSUME NEW r \in Runners, RunStep(r) PROVE Goal
  <2>1. CASE Complete(r) \/ Stop(r)
    <3>1. run[r].pc \in Closing /\ run[r].job \in Jobs /\ SetStatus(run[r].job, "completed")
      BY <1>0, <2>1 DEF Complete, Stop, Closing, RunTypes
    <3> QED
      BY <1>0, <3>1, SetStatusWrites
  <2>2. CASE Requeue(r) \/ Fail(r)
    <3>1. run[r].job \in Jobs
      BY <1>0, <2>2 DEF Requeue, Fail, RunTypes
    <3> QED
      BY <1>3, <2>2, <3>1 DEF Requeue, Fail
  <2>3. CASE ReadStatus(r) \/ Register(r) \/ ExecReturns(r) \/ Finish(r) \/ CatchFails(r)
    BY <1>1, <2>3 DEF ReadStatus, Register, ExecReturns, Finish, CatchFails, rows
  <2>4. ASSUME NEW err \in Errors, ExecThrows(r, err) \/ TryFails(r, err) PROVE Goal
    BY <1>1, <2>4 DEF ExecThrows, TryFails, rows
  <2> QED
    BY <1>6, <2>1, <2>2, <2>3, <2>4 DEF RunStep
<1>7. ASSUME NEW a \in Admins, AdminStep(a) PROVE Goal
  <2>1. CASE CancelAllStart(a) \/ CancelAllEnd(a) \/ PurgeStart(a) \/ PurgeCancels(a)
             \/ MineSelect(a) \/ MineAbort(a)
    BY <1>1, <2>1 DEF CancelAllStart, CancelAllEnd, CancelAll, PurgeStart, PurgeCancels,
                      MineSelect, MineAbort, rows
  <2>2. CASE PurgeFails(a) \/ PurgeEnd(a)
    BY <1>1, <2>2 DEF PurgeFails, PurgeEnd, rows
  <2>3. ASSUME NEW filter \in Filters, NEW target \in Targets, PurgeRead(a, filter, target)
        PROVE  Goal
    BY <1>1, <2>3 DEF PurgeRead, rows
  <2>4. CASE MineUpdate(a) \/ MineFail(a) \/ PurgeAll(a)
    BY <1>2, <2>4 DEF MineUpdate, MineFail, PurgeAll
  <2>5. ASSUME NEW target \in Targets, PurgeFail(a, target) PROVE Goal
    BY <1>2, <2>5 DEF PurgeFail
  <2>6. ASSUME NEW k \in Jobs, PurgeRow(a, k) PROVE Goal
    BY <1>3, <2>6 DEF PurgeRow
  <2>7. ASSUME NEW filter \in Filters, MineDelete(a, filter) PROVE Goal
    BY <1>2, <2>7 DEF MineDelete
  <2> QED
    BY <1>7, <2>1, <2>2, <2>3, <2>4, <2>5, <2>6, <2>7 DEF AdminStep, PurgeStep, MineStep
<1>8. CASE Pause \/ Resume \/ DispatchEntryHooks \/ SweepStart \/ Crash \/ UNCHANGED vars
  BY <1>1, <1>8 DEF Pause, Resume, DispatchEntryHooks, SweepStart, Crash, vars, rows
<1>9. CASE SweepCeiling \/ SweepChat \/ SweepRequeue \/ Boot
  BY <1>2, <1>9 DEF SweepCeiling, SweepChat, SweepRequeue, RequeueRows, Boot
<1> QED
  BY <1>4, <1>5, <1>6, <1>7, <1>8, <1>9 DEF Next, SweepStep

(* The moves of the row of a job without retries.                          *)
LEMMA StatusMoves ==
    ASSUME OwnershipInv, [Next]_vars, NEW j \in OneShot
    PROVE  \/ status'[j] = status[j]
           \/ status[j] = "absent" /\ status'[j] = "pending"
           \/ {status[j], status'[j]} \subseteq {"pending", "processing"}
           \/ status[j] \notin {"absent", "gone"} /\ status'[j] \in Ended
<1> DEFINE Moves == \/ status'[j] = status[j]
                    \/ status[j] = "absent" /\ status'[j] = "pending"
                    \/ {status[j], status'[j]} \subseteq {"pending", "processing"}
                    \/ status[j] \notin {"absent", "gone"} /\ status'[j] \in Ended
<1>0. /\ RowTypes /\ RunTypes /\ NotYetInserted /\ RequeuerMayRetry
      /\ \A k \in Jobs : stale[k] => status[k] = "processing"
      /\ j \in Jobs /\ RetryMax[j] = 0
  BY DEF OwnershipInv, TypeOK, Ownership, StaleIsProcessing, OneShot
<1>1. ASSUME status' = status PROVE Moves
  BY <1>1
<1>2. ASSUME NEW k \in Jobs, Insert(k) PROVE Moves
  BY <1>0, <1>2 DEF Insert, NotYetInserted, RowTypes
<1>3. ASSUME NEW l \in Loops, Claim(l) PROVE Moves
  BY <1>0, <1>3 DEF Claim, SetAll
<1>4. ASSUME NEW r \in Runners, Requeue(r) PROVE Moves
  <2>1. run[r].job \in Jobs /\ RetryMax[run[r].job] # 0
    BY <1>0, <1>4 DEF Requeue, RequeuerMayRetry, RunTypes, RunStates
  <2> QED
    BY <1>0, <1>4, <2>1, SetStatusWrites DEF Requeue
<1>5. CASE SweepRequeue
  BY <1>0, <1>5 DEF SweepRequeue, RequeueRows, SetAll, Stranded
<1>6. CASE Boot
  BY <1>0, <1>6 DEF Boot, Stranded, Ended, Terminal
<1>7. CASE Calm
  BY <1>0, <1>7 DEF Calm, RowsEnd
<1>8. ASSUME NEW k \in Jobs, Age(k) PROVE status' = status
  BY <1>8 DEF Age
<1>9. ASSUME NEW l \in Loops, Launch(l) PROVE status' = status
  BY <1>9 DEF Launch, rows
<1>10. ASSUME NEW r \in Runners, ReadStatus(r) \/ Register(r) \/ Finish(r) \/ CatchFails(r)
       PROVE  status' = status
  BY <1>10 DEF ReadStatus, Register, Finish, CatchFails, rows
<1>11. CASE SweepStart \/ Crash
  BY <1>1, <1>11 DEF SweepStart, Crash, rows
<1> QED
  BY <1>1, <1>2, <1>3, <1>4, <1>5, <1>6, <1>7, <1>8, <1>9, <1>10, <1>11, SpecialActions

(* The outcome of such a job moves as JobLife allows.                      *)
LEMMA OutcomeMoves ==
    ASSUME OwnershipInv, Ran, [Next]_vars, NEW j \in OneShot
    PROVE  \/ Outcome(j)' = Outcome(j)
           \/ Outcome(j) = "none" /\ Outcome(j)' = "open"
           \/ /\ Outcome(j) \in {"open", "completed", "failed"}
              /\ \/ Outcome(j)' \in {"failed", "deleted"}
                 \/ Outcome(j)' = "completed" /\ (starts[j] > 0 \/ IsChat(j))
<1>0. j \in Jobs /\ TypeOK /\ status[j] \in Statuses
  BY DEF OneShot, OwnershipInv, TypeOK, RowTypes
<1>1. CASE status'[j] = status[j]
  BY <1>1 DEF Outcome
<1>2. CASE status[j] = "absent" /\ status'[j] = "pending"
  BY <1>2 DEF Outcome
<1>3. CASE {status[j], status'[j]} \subseteq {"pending", "processing"}
  BY <1>3 DEF Outcome
<1>4. CASE status[j] \notin {"absent", "gone"} /\ status'[j] \in Ended /\ status'[j] # status[j]
  <2>1. Outcome(j) \in {"open", "completed", "failed"}
    BY <1>0, <1>4 DEF Outcome, Statuses
  <2>2. /\ status'[j] = "failed" => Outcome(j)' = "failed"
        /\ status'[j] = "gone" => Outcome(j)' = "deleted"
        /\ status'[j] = "completed" => Outcome(j)' = "completed"
    BY DEF Outcome
  <2>3. status'[j] = "completed" => starts[j] > 0 \/ IsChat(j)
    BY <1>0, <1>4, CompletedBy DEF Ran
  <2> QED
    BY <1>4, <2>1, <2>2, <2>3 DEF Ended, Terminal
<1> QED
  BY <1>1, <1>2, <1>3, <1>4, StatusMoves

(* A row keeps its outcome with its status.                                *)
LEMMA SameOutcome == status' = status => \A j \in OneShot : Outcome(j)' = Outcome(j)
  BY DEF Outcome

LEMMA LifeInit == Init => Life!Init
  BY DEF Init, Life!Init, Outcome, OneShot, Executing, Idle

(* A runner that starts the executor begins an execution of its job.       *)
LEMMA RegisterLives ==
    ASSUME OwnershipInv, ExecutionBudget', NEW r \in Runners, Register(r)
    PROVE  [Life!Next]_Life!vars
<1> DEFINE Runs(j) == \E s \in Runners : Executing(s) /\ run[s].job = j
<1>0. /\ TypeOK /\ RetriesKept /\ OneOwner /\ UnclaimedIsFree
      /\ OneShot \subseteq Jobs /\ \A j \in OneShot : RetryMax[j] = 0
  BY DEF OwnershipInv, Ownership, OneShot
<1>1. PICK k \in Jobs : k = run[r].job
  BY <1>0, RegisterBegins
<1>2. /\ run[r].pc = "register" /\ run'[r].pc = "exec" /\ run'[r].job = k
      /\ \A s \in Runners : s # r => run'[s] = run[s]
      /\ starts' = [starts EXCEPT ![k] = @ + 1] /\ starts \in [Jobs -> Nat]
      /\ status' = status
  BY <1>0, <1>1, RegisterBegins
<1>3. \A j \in OneShot : Runs(j)' <=> (j = k \/ Runs(j))
  BY <1>1, <1>2 DEF Executing
<1>4. \A j \in OneShot : starts'[j] = IF j = k THEN starts[j] + 1 ELSE starts[j]
  BY <1>0, <1>2
<1>5. \A j \in OneShot : Outcome(j)' = Outcome(j)
  BY <1>2, SameOutcome
<1>6. CASE k \in OneShot
  <2>1. Once(k)
    BY <1>0, <1>6 DEF RetriesKept, TypeOK, RowTypes, Once
  <2>2. ~Runs(k)
    BY <1>0, <1>1, <1>2, <2>1 DEF OneOwner, Owns, Executing
  <2>3. Outcome(k) # "none"
    <3>1. status[k] \in Statuses \ {"absent"}
      BY <1>0, <1>1, <2>1 DEF UnclaimedIsFree, Owns, TypeOK, RowTypes
    <3> QED
      BY <3>1 DEF Outcome, Statuses
  <2>4. starts'[k] <= Budget(k) /\ Budget(k) \in Nat
    BY <1>0, <1>1, <1>6, JobsAssumption, BoundAssumption DEF ExecutionBudget, Budget
  <2>5. starts[k] < Budget(k)
    BY <1>2, <1>4, <1>6, <2>4
  <2>6. [j \in OneShot |-> Runs(j)]' = [[j \in OneShot |-> Runs(j)] EXCEPT ![k] = TRUE]
    BY <1>3, <1>6
  <2>7. [j \in OneShot |-> starts[j]]'
           = [[j \in OneShot |-> starts[j]] EXCEPT ![k] = @ + 1]
    BY <1>4, <1>6
  <2>8. [j \in OneShot |-> Outcome(j)]' = [j \in OneShot |-> Outcome(j)]
    BY <1>5
  <2>9. Life!Begin(k)
    BY <1>6, <2>2, <2>3, <2>5, <2>6, <2>7, <2>8 DEF Life!Begin
  <2> QED
    BY <1>6, <2>9 DEF Life!Next
<1>7. CASE k \notin OneShot
  <2>1. UNCHANGED Life!vars
    BY <1>3, <1>4, <1>5, <1>7 DEF Life!vars
  <2> QED
    BY <2>1
<1> QED
  BY <1>6, <1>7

(* A runner whose executor ends was the only one that executed the job.    *)
LEMMA LeavesLives ==
    ASSUME OwnershipInv, NEW r \in Runners, Leaves(r), starts' = starts
    PROVE  [Life!Next]_Life!vars
<1> DEFINE Runs(j) == \E s \in Runners : Executing(s) /\ run[s].job = j
<1>0. /\ TypeOK /\ RetriesKept /\ OneOwner
      /\ OneShot \subseteq Jobs /\ \A j \in OneShot : RetryMax[j] = 0
  BY DEF OwnershipInv, Ownership, OneShot
<1>1. PICK k \in Jobs : k = run[r].job
  BY <1>0, LeavesEnds
<1>2. /\ run[r].pc = "exec" /\ run'[r].pc # "exec"
      /\ \A s \in Runners : s # r => run'[s] = run[s]
      /\ status' = status
  BY <1>0, <1>1, LeavesEnds
<1>3. \A j \in OneShot : Once(j)
  BY <1>0 DEF RetriesKept, TypeOK, RowTypes, Once
<1>4. \A j \in OneShot : Runs(j)' <=> (j # k /\ Runs(j))
  <2> SUFFICES ASSUME NEW j \in OneShot PROVE Runs(j)' <=> (j # k /\ Runs(j))
    OBVIOUS
  <2>1. CASE j = k
    BY <1>0, <1>1, <1>2, <1>3, <2>1 DEF OneOwner, Owns, Executing
  <2>2. CASE j # k
    BY <1>1, <1>2, <2>2 DEF Executing
  <2> QED
    BY <2>1, <2>2
<1> DEFINE S == {k} \cap OneShot
<1>5. [j \in OneShot |-> Runs(j)]' = [j \in OneShot |-> j \notin S /\ [i \in OneShot |-> Runs(i)][j]]
  BY <1>4
<1>6. [j \in OneShot |-> Outcome(j)]' = [j \in OneShot |-> Outcome(j)]
  BY <1>2, SameOutcome
<1>7. Life!Cease(S)
  BY <1>5, <1>6 DEF Life!Cease
<1> QED
  BY <1>7 DEF Life!Next

(* Every step of the queue is a step of JobLife.                           *)
LEMMA LifeStep ==
    ASSUME OwnershipInv, Ran, ExecutionBudget', [Next]_vars
    PROVE  [Life!Next]_Life!vars
<1> DEFINE Runs(j) == \E s \in Runners : Executing(s) /\ run[s].job = j
<1>0. TypeOK
  BY DEF OwnershipInv
<1>1. CASE \E r \in Runners : Register(r)
  BY <1>1, RegisterLives
<1>2. CASE ~\E r \in Runners : Register(r)
  <2>1. starts' = starts
    BY <1>2, StartsMove
  <2>2. CASE \E r \in Runners : Leaves(r)
    BY <2>1, <2>2, LeavesLives
  <2>3. CASE Crash
    <3>1. [j \in OneShot |-> Runs(j)]'
             = [j \in OneShot |-> j \notin OneShot /\ [i \in OneShot |-> Runs(i)][j]]
      BY <2>3 DEF Crash, Idle, Executing
    <3>2. [j \in OneShot |-> Outcome(j)]' = [j \in OneShot |-> Outcome(j)]
      BY <2>3, SameOutcome DEF Crash, rows
    <3>3. Life!Cease(OneShot)
      BY <2>1, <3>1, <3>2 DEF Life!Cease
    <3> QED
      BY <3>3 DEF Life!Next
  <2>4. CASE Steady
    <3>1. \A j \in OneShot : Runs(j)' <=> Runs(j)
      BY <2>4 DEF Steady, Executing
    <3>2. \A j \in OneShot : Outcome(j) \in Life!Outcomes
      BY <1>0 DEF TypeOK, RowTypes, Statuses, OneShot, Outcome, Life!Outcomes
    <3>3. \A j \in OneShot : Outcome(j)' \in Life!Outcomes
      BY <3>2, OutcomeMoves DEF Life!Outcomes
    <3>4. Life!Record
      BY <2>1, <3>1, <3>3, OutcomeMoves DEF Life!Record, Life!Allowed, OneShot
    <3> QED
      BY <3>4 DEF Life!Next
  <2> QED
    BY <1>0, <1>2, <2>2, <2>3, <2>4, RunKinds
<1> QED
  BY <1>1, <1>2

(* The whole queue implements JobLife: for a job without retries, what     *)
(* addJob, runJob, cancelJob, the purges and the sweeps do to its row and  *)
(* its executor is one life, executed one at a time and within the budget. *)
THEOREM LifecycleCorrect == Spec => Lifecycle
<1>1. Init => Life!Init /\ Ran
  BY LifeInit DEF Init, Ran, Idle, Closing
<1>2. OwnershipInv /\ Ran /\ [Next]_vars => Ran'
  BY RanStep DEF OwnershipInv
<1>3. OwnershipInv /\ Ran /\ ExecutionBudget' /\ [Next]_vars => [Life!Next]_Life!vars
  BY LifeStep
<1> QED
  BY <1>1, <1>2, <1>3, OwnershipCorrect, ExecutionBudgetCorrect, PTL
     DEF Spec, Lifecycle, Life!Spec
=============================================================================

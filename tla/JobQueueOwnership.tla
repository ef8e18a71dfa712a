-------------------------- MODULE JobQueueOwnership --------------------------
(***************************************************************************)
(* Who owns a job: the inductive invariant behind ExclusiveExecution and   *)
(* NoResurrection. Most steps are calm: they claim nothing, hand no job    *)
(* over and write rows to end states only. One lemma shows that calm steps *)
(* keep the ownership; each of the other steps has a lemma of its own.     *)
(***************************************************************************)
EXTENDS JobQueueProofs

(* The states a calm step may write.                                       *)
Ended == Terminal \cup {"gone"}

(* What a calm step may do to loops, runners, rows, the sweep and          *)
(* requests.                                                               *)
ClaimsShrink == \A l \in Loops : loop'[l].todo \subseteq loop[l].todo

RunsGoOn ==
    \A r \in Runners :
        /\ run'[r].job = run[r].job
        /\ run'[r].retry = run[r].retry
        /\ \/ run'[r].pc = run[r].pc
           \/ run'[r].pc \in {"complete", "notify", "stop", "fail", "tail"}
           \/ run'[r].pc = "requeue" /\ run[r].retry < RetryMax[run[r].job]

RowsEnd ==
    \A j \in Jobs :
        \/ status'[j] = status[j] /\ (stale'[j] => stale[j])
        \/ /\ status[j] \notin {"absent", "gone"}
           /\ status'[j] \in Ended
           /\ ~stale'[j]

SweepGoesOn ==
    /\ reaper'.live = reaper.live
    /\ reaper'.pc # "idle" => reaper.pc # "idle"

AddsGoOn ==
    \A j \in Jobs : adding'[j] \in {"idle", "admitted"} => adding[j] \in {"idle", "admitted"}

Calm ==
    /\ ClaimsShrink /\ RunsGoOn /\ RowsEnd /\ SweepGoesOn /\ AddsGoOn
    /\ UNCHANGED <<controllers, retried>>

(* A calm step keeps the ownership of jobs.                                *)
LEMMA CalmKeepsOwnership ==
    ASSUME TypeOK, Ownership, Calm
    PROVE  Ownership'
<1>0. retried' = retried
  BY DEF Calm
<1> USE <1>0 DEF Ownership, Calm
<1>1. StaleIsProcessing'
  BY DEF StaleIsProcessing, RowsEnd
<1>2. ControllerOwned'
  BY DEF ControllerOwned, Owns, RunsGoOn
<1>3. OneOwner'
  BY DEF OneOwner, Owns, Claimed, Once, RunsGoOn, ClaimsShrink
<1>4. UnclaimedIsFree'
  BY DEF UnclaimedIsFree, Owns, Claimed, Once, RunsGoOn, ClaimsShrink, RowsEnd, Ended, Terminal
<1>5. SkipIsEnded'
  <2> SUFFICES ASSUME NEW r \in Runners, run'[r].pc = "skip", Once(run'[r].job)
               PROVE  status'[run'[r].job] \in Terminal \cup {"gone"}
    BY DEF SkipIsEnded, Once
  <2>1. run[r].pc = "skip" /\ run'[r].job = run[r].job
    BY DEF RunsGoOn
  <2>2. run[r].job \in Jobs
    BY <2>1 DEF TypeOK, RunTypes
  <2>3. status[run[r].job] \in Ended
    BY <2>1 DEF SkipIsEnded, Ended
  <2> QED
    BY <2>1, <2>2, <2>3 DEF RowsEnd, Ended
<1>6. ExecutorRegistered'
  BY DEF ExecutorRegistered, Executing, Once, RunsGoOn
<1>7. StaleIsLive'
  <2> SUFFICES ASSUME NEW j \in Jobs, Once(j), stale'[j]
               PROVE  /\ \A l \in Loops : ~(Claimed(l, j)')
                      /\ \A r \in Runners : run'[r].job = j =>
                            /\ run'[r].pc \notin {"read", "register", "skip"}
                            /\ controllers[j] = r
                            /\ reaper'.pc # "idle" => j \in reaper'.live
    BY DEF StaleIsLive, Owns, Once
  <2>1. stale[j]
    BY DEF RowsEnd
  <2>2. /\ \A l \in Loops : ~Claimed(l, j)
        /\ \A r \in Runners : Owns(r, j) =>
              /\ run[r].pc \notin {"read", "register", "skip"}
              /\ controllers[j] = r
              /\ reaper.pc # "idle" => j \in reaper.live
    BY <2>1 DEF StaleIsLive
  <2>3. \A l \in Loops : ~(Claimed(l, j)')
    BY <2>2 DEF Claimed, ClaimsShrink
  <2>4. ASSUME NEW r \in Runners, run'[r].job = j
        PROVE  /\ run'[r].pc \notin {"read", "register", "skip"}
               /\ controllers[j] = r
               /\ reaper'.pc # "idle" => j \in reaper'.live
    BY <2>2, <2>4 DEF Owns, RunsGoOn, SweepGoesOn
  <2> QED
    BY <2>3, <2>4
<1> QED
  BY <1>1, <1>2, <1>3, <1>4, <1>5, <1>6, <1>7

(* A loop that moves on to another class holds no claimed row.             *)
LEMMA EmptyTodo ==
    /\ LoopOff.todo = {}
    /\ \A l \in Loops : AtTop(l).todo = {}
    /\ \A i, S : NextClass(i, S).todo = {}
  BY DEF LoopOff, AtTop, NextClass

(* Replacing a loop by one without claimed rows claims nothing.            *)
LEMMA ResetClaims ==
    ASSUME LoopTypes, NEW l \in Loops, NEW x, x.todo = {},
           loop' = [loop EXCEPT ![l] = x]
    PROVE  ClaimsShrink
  BY DEF LoopTypes, ClaimsShrink

(* Moving a loop to another step claims nothing.                           *)
LEMMA MoveClaims ==
    ASSUME LoopTypes, NEW l \in Loops, NEW p, loop' = [loop EXCEPT ![l].pc = p]
    PROVE  ClaimsShrink
  BY DEF LoopTypes, LoopStates, ClaimsShrink

(* resumeQueue claims nothing: the loop it starts is empty.                *)
LEMMA ResumeClaims ==
    ASSUME LoopTypes, ResumeQueue
    PROVE  ClaimsShrink
<1>1. CASE isProcessing
  BY <1>1 DEF ResumeQueue, ClaimsShrink
<1>2. CASE ~isProcessing
  <2>1. PICK l \in Loops : loop' = [loop EXCEPT ![l].pc = "starting"]
    BY <1>2 DEF ResumeQueue
  <2> QED
    BY <2>1, MoveClaims
<1> QED
  BY <1>1, <1>2

(* A runner that goes from its executor to its end is a calm step of it.   *)
LEMMA MoveRun ==
    ASSUME RunTypes, NEW r \in Runners,
           NEW p \in {"complete", "notify", "requeue", "stop", "fail", "tail"},
           p = "requeue" => run[r].retry < RetryMax[run[r].job],
           run[r].pc # "idle", run' = [run EXCEPT ![r].pc = p]
    PROVE  RunsGoOn
<1>1. p \in RunPcs /\ p # "idle"
  BY DEF RunPcs
<1> QED
  BY <1>1, RunUpdate DEF RunsGoOn

(* So is entering the catch block, whose requeue needs a retry left.       *)
LEMMA CatchRun ==
    ASSUME RunTypes, NEW r \in Runners, NEW err, run[r].pc # "idle",
           run' = [run EXCEPT ![r].pc = CatchTo(r, err)]
    PROVE  RunsGoOn
<1>1. CatchTo(r, err) \in {"requeue", "stop", "fail"}
  BY CatchToType
<1>2. CatchTo(r, err) = "requeue" => run[r].retry < RetryMax[run[r].job]
  BY DEF CatchTo
<1> QED
  BY <1>1, <1>2, MoveRun

(* So is being aborted.                                                    *)
LEMMA AbortRuns ==
    ASSUME RunTypes, NEW S \in SUBSET Jobs, Abort(S), UNCHANGED controllers
    PROVE  RunsGoOn
  BY AbortType DEF RunsGoOn

(* An UPDATE by id to an end state only ends rows that exist.              *)
LEMMA SetStatusEnds ==
    ASSUME RowTypes, NEW j \in Jobs, NEW st \in Ended, SetStatus(j, st)
    PROVE  RowsEnd
  BY DEF RowTypes, SetStatus, RowsEnd, Exists

(* So does an UPDATE of rows that are neither absent nor deleted.          *)
LEMMA SetAllEnds ==
    ASSUME RowTypes, NEW S, NEW st \in Ended, SetAll(S, st),
           \A j \in S \cap Jobs : status[j] \notin {"absent", "gone"}
    PROVE  RowsEnd
  BY DEF RowTypes, SetAll, RowsEnd

(* A purge only names rows that exist.                                     *)
LEMMA Purgeable ==
    ASSUME StaleIsProcessing, NEW filter \in Filters, NEW j \in Purged(filter)
    PROVE  j \in Jobs /\ status[j] \notin {"absent", "gone"}
  BY DEF StaleIsProcessing, Filters, Purged, Exists

(* Failing the rows that wait or run only ends rows that exist.            *)
LEMMA WaitingEnds ==
    ASSUME RowTypes, NEW S, SetAll(S \cap Waiting, "failed")
    PROVE  RowsEnd
<1>1. "failed" \in Ended
  BY DEF Ended, Terminal
<1>2. \A j \in (S \cap Waiting) \cap Jobs : status[j] \notin {"absent", "gone"}
  BY DEF Waiting
<1> QED
  BY <1>1, <1>2, SetAllEnds

(* Every step is calm except those that insert, age, claim, launch, start, *)
(* requeue or release a job, the sweeps, the crash and the boot.           *)
LEMMA CalmActions ==
    ASSUME TypeOK, StaleIsProcessing, [Next]_vars
    PROVE  \/ Calm
           \/ \E j \in Jobs : Insert(j) \/ Age(j)
           \/ \E l \in Loops : Claim(l) \/ Launch(l)
           \/ \E r \in Runners : ReadStatus(r) \/ Register(r) \/ Requeue(r)
                                  \/ Finish(r) \/ CatchFails(r)
           \/ SweepStart \/ SweepRequeue \/ Crash \/ Boot
<1>0. RowTypes /\ LoopTypes /\ RunTypes /\ RequestTypes
  BY DEF TypeOK
<1> USE <1>0
<1>1. ASSUME NEW j \in Jobs, Admit(j) PROVE Calm
  <2>1. ClaimsShrink /\ RunsGoOn /\ RowsEnd /\ SweepGoesOn /\ UNCHANGED <<controllers, retried>>
    BY <1>1 DEF Admit, ClaimsShrink, RunsGoOn, RowsEnd, SweepGoesOn, rows
  <2>2. AddsGoOn
    BY <1>1 DEF Admit, AddsGoOn, RequestTypes
  <2> QED
    BY <2>1, <2>2 DEF Calm
<1>2. ASSUME NEW j \in Jobs, Kick(j) PROVE Calm
  <2>1. RunsGoOn /\ RowsEnd /\ SweepGoesOn /\ UNCHANGED <<controllers, retried>>
    BY <1>2 DEF Kick, RunsGoOn, RowsEnd, SweepGoesOn, rows
  <2>2. ClaimsShrink
    <3>1. CASE CanStart
      BY <1>2, <3>1, MoveClaims DEF Kick, ProcessJobs
    <3>2. CASE ~CanStart
      BY <1>2, <3>2 DEF Kick, ProcessJobs, ClaimsShrink
    <3> QED
      BY <3>1, <3>2
  <2>3. AddsGoOn
    BY <1>2 DEF Kick, AddsGoOn, RequestTypes
  <2> QED
    BY <2>1, <2>2, <2>3 DEF Calm
<1>3. ASSUME NEW j \in Jobs, KickLost(j) PROVE Calm
  <2>1. ClaimsShrink /\ RunsGoOn /\ RowsEnd /\ SweepGoesOn /\ UNCHANGED <<controllers, retried>>
    BY <1>3 DEF KickLost, ClaimsShrink, RunsGoOn, RowsEnd, SweepGoesOn, rows
  <2>2. AddsGoOn
    BY <1>3 DEF KickLost, AddsGoOn, RequestTypes
  <2> QED
    BY <2>1, <2>2 DEF Calm
<1>4. ASSUME NEW l \in Loops, Enter(l) PROVE Calm
  <2>1. RunsGoOn /\ RowsEnd /\ SweepGoesOn /\ AddsGoOn /\ UNCHANGED <<controllers, retried>>
    BY <1>4 DEF Enter, RunsGoOn, RowsEnd, SweepGoesOn, AddsGoOn, rows
  <2>2. ClaimsShrink
    BY <1>4, EmptyTodo, ResetClaims DEF Enter
  <2> QED
    BY <2>1, <2>2 DEF Calm
<1>5. ASSUME NEW l \in Loops, CountProcessing(l) PROVE Calm
  <2>1. RunsGoOn /\ RowsEnd /\ SweepGoesOn /\ AddsGoOn /\ UNCHANGED <<controllers, retried>>
    BY <1>5 DEF CountProcessing, RunsGoOn, RowsEnd, SweepGoesOn, AddsGoOn, rows
  <2>2. ClaimsShrink
    <3> DEFINE i == loop[l].class
                next(slots) == [LoopOff EXCEPT !.pc = "claim", !.class = i, !.slots = slots]
    <3>1. \A slots : next(slots).todo = {}
      BY DEF LoopOff
    <3>2. PICK slots : loop' = [loop EXCEPT ![l] = IF slots = 0 THEN NextClass(i, InFlight(l)) ELSE next(slots)]
      BY <1>5 DEF CountProcessing, Counted
    <3> HIDE DEF next
    <3> QED
      BY <3>1, <3>2, EmptyTodo, ResetClaims
  <2> QED
    BY <2>1, <2>2 DEF Calm
<1>6. ASSUME NEW l \in Loops, CountFails(l) PROVE Calm
  <2>1. RunsGoOn /\ RowsEnd /\ SweepGoesOn /\ AddsGoOn /\ UNCHANGED <<controllers, retried>>
    BY <1>6 DEF CountFails, RunsGoOn, RowsEnd, SweepGoesOn, AddsGoOn, rows
  <2>2. ClaimsShrink
    <3> DEFINE i == loop[l].class
                next(slots) == [LoopOff EXCEPT !.pc = "claim", !.class = i, !.slots = slots]
    <3>1. \A slots : next(slots).todo = {}
      BY DEF LoopOff
    <3>2. PICK slots : loop' = [loop EXCEPT ![l] = IF slots = 0 THEN NextClass(i, InFlight(l)) ELSE next(slots)]
      BY <1>6 DEF CountFails, Counted
    <3> HIDE DEF next
    <3> QED
      BY <3>1, <3>2, EmptyTodo, ResetClaims
  <2> QED
    BY <2>1, <2>2 DEF Calm
<1>7. ASSUME NEW l \in Loops, AskPending(l) PROVE Calm
  <2>1. RunsGoOn /\ RowsEnd /\ SweepGoesOn /\ AddsGoOn /\ UNCHANGED <<controllers, retried>>
    BY <1>7 DEF AskPending, RunsGoOn, RowsEnd, SweepGoesOn, AddsGoOn, rows
  <2>2. ClaimsShrink
    BY <1>7, MoveClaims DEF AskPending
  <2> QED
    BY <2>1, <2>2 DEF Calm
<1>8. ASSUME NEW l \in Loops, Leave(l) PROVE Calm
  <2>1. RunsGoOn /\ RowsEnd /\ SweepGoesOn /\ AddsGoOn /\ UNCHANGED <<controllers, retried>>
    BY <1>8 DEF Leave, RunsGoOn, RowsEnd, SweepGoesOn, AddsGoOn, rows
  <2>2. ClaimsShrink
    BY <1>8, EmptyTodo, ResetClaims DEF Leave, ResumeLoop
  <2> QED
    BY <2>1, <2>2 DEF Calm
<1>9. ASSUME NEW l \in Loops, Wake(l) PROVE Calm
  <2>1. RunsGoOn /\ RowsEnd /\ SweepGoesOn /\ AddsGoOn /\ UNCHANGED <<controllers, retried>>
    BY <1>9 DEF Wake, RunsGoOn, RowsEnd, SweepGoesOn, AddsGoOn, rows
  <2>2. ClaimsShrink
    BY <1>9, EmptyTodo, ResetClaims DEF Wake, ResumeLoop
  <2> QED
    BY <2>1, <2>2 DEF Calm
<1>10. ASSUME NEW l \in Loops, LoopDies(l) PROVE Calm
  <2>1. RunsGoOn /\ RowsEnd /\ SweepGoesOn /\ AddsGoOn /\ UNCHANGED <<controllers, retried>>
    BY <1>10 DEF LoopDies, RunsGoOn, RowsEnd, SweepGoesOn, AddsGoOn, rows
  <2>2. ClaimsShrink
    BY <1>10, EmptyTodo, ResetClaims DEF LoopDies, ResumeLoop
  <2> QED
    BY <2>1, <2>2 DEF Calm
<1>11. ASSUME NEW r \in Runners, ExecReturns(r) PROVE Calm
  <2>1. ClaimsShrink /\ RowsEnd /\ SweepGoesOn /\ AddsGoOn /\ UNCHANGED <<controllers, retried>>
    BY <1>11 DEF ExecReturns, ClaimsShrink, RowsEnd, SweepGoesOn, AddsGoOn, rows
  <2>2. RunsGoOn
    BY <1>11, MoveRun DEF ExecReturns
  <2> QED
    BY <2>1, <2>2 DEF Calm
<1>12. ASSUME NEW r \in Runners, NEW err \in Errors, ExecThrows(r, err) PROVE Calm
  <2>1. ClaimsShrink /\ RowsEnd /\ SweepGoesOn /\ AddsGoOn /\ UNCHANGED <<controllers, retried>>
    BY <1>12 DEF ExecThrows, ClaimsShrink, RowsEnd, SweepGoesOn, AddsGoOn, rows
  <2>2. RunsGoOn
    BY <1>12, CatchRun DEF ExecThrows
  <2> QED
    BY <2>1, <2>2 DEF Calm
<1>13. ASSUME NEW r \in Runners, NEW err \in Errors, TryFails(r, err) PROVE Calm
  <2>1. ClaimsShrink /\ RowsEnd /\ SweepGoesOn /\ AddsGoOn /\ UNCHANGED <<controllers, retried>>
    BY <1>13 DEF TryFails, ClaimsShrink, RowsEnd, SweepGoesOn, AddsGoOn, rows
  <2>2. RunsGoOn
    BY <1>13, CatchRun DEF TryFails
  <2> QED
    BY <2>1, <2>2 DEF Calm
<1>14. ASSUME NEW r \in Runners, Complete(r) PROVE Calm
  <2>1. ClaimsShrink /\ SweepGoesOn /\ AddsGoOn /\ UNCHANGED <<controllers, retried>>
    BY <1>14 DEF Complete, ClaimsShrink, SweepGoesOn, AddsGoOn
  <2>2. RunsGoOn
    BY <1>14, MoveRun DEF Complete
  <2>3. RowsEnd
    <3>1. run[r].job \in Jobs /\ "completed" \in Ended
      BY <1>14 DEF Complete, RunTypes, Ended, Terminal
    <3> QED
      BY <1>14, <3>1, SetStatusEnds DEF Complete
  <2> QED
    BY <2>1, <2>2, <2>3 DEF Calm
<1>15. ASSUME NEW r \in Runners, Stop(r) PROVE Calm
  <2>1. ClaimsShrink /\ SweepGoesOn /\ AddsGoOn /\ UNCHANGED <<controllers, retried>>
    BY <1>15 DEF Stop, ClaimsShrink, SweepGoesOn, AddsGoOn
  <2>2. RunsGoOn
    BY <1>15, MoveRun DEF Stop
  <2>3. RowsEnd
    <3>1. run[r].job \in Jobs /\ "completed" \in Ended
      BY <1>15 DEF Stop, RunTypes, Ended, Terminal
    <3> QED
      BY <1>15, <3>1, SetStatusEnds DEF Stop
  <2> QED
    BY <2>1, <2>2, <2>3 DEF Calm
<1>16. ASSUME NEW r \in Runners, Fail(r) PROVE Calm
  <2>1. ClaimsShrink /\ SweepGoesOn /\ AddsGoOn /\ UNCHANGED <<controllers, retried>>
    BY <1>16 DEF Fail, ClaimsShrink, SweepGoesOn, AddsGoOn
  <2>2. RunsGoOn
    BY <1>16, MoveRun DEF Fail
  <2>3. RowsEnd
    <3>1. run[r].job \in Jobs /\ "failed" \in Ended
      BY <1>16 DEF Fail, RunTypes, Ended, Terminal
    <3> QED
      BY <1>16, <3>1, SetStatusEnds DEF Fail
  <2> QED
    BY <2>1, <2>2, <2>3 DEF Calm
<1>17. ASSUME NEW j \in Jobs, CancelWrite(j) PROVE Calm
  <2>1. ClaimsShrink /\ RunsGoOn /\ SweepGoesOn /\ AddsGoOn /\ UNCHANGED <<controllers, retried>>
    BY <1>17 DEF CancelWrite, ClaimsShrink, RunsGoOn, SweepGoesOn, AddsGoOn
  <2>2. RowsEnd
    <3>1. (IF IsChat(j) THEN "completed" ELSE "failed") \in Ended
      BY DEF Ended, Terminal
    <3> QED
      BY <1>17, <3>1, SetStatusEnds DEF CancelWrite
  <2> QED
    BY <2>1, <2>2 DEF Calm
<1>18. ASSUME NEW j \in Jobs, CancelAbort(j) PROVE Calm
  <2>1. ClaimsShrink /\ RowsEnd /\ SweepGoesOn /\ AddsGoOn /\ UNCHANGED <<controllers, retried>>
    BY <1>18 DEF CancelAbort, ClaimsShrink, RowsEnd, SweepGoesOn, AddsGoOn, rows
  <2>2. RunsGoOn
    BY <1>18, AbortRuns DEF CancelAbort
  <2> QED
    BY <2>1, <2>2 DEF Calm
<1>19. ASSUME NEW j \in Jobs, CancelFails(j) PROVE Calm
  <2>1. ClaimsShrink /\ RunsGoOn /\ RowsEnd /\ SweepGoesOn /\ AddsGoOn /\ UNCHANGED <<controllers, retried>>
    BY <1>19 DEF CancelFails, ClaimsShrink, RunsGoOn, RowsEnd, SweepGoesOn, AddsGoOn, rows
  <2> QED
    BY <2>1 DEF Calm
<1>20. ASSUME NEW j \in Jobs, DeleteRow(j) PROVE Calm
  <2>1. ClaimsShrink /\ RunsGoOn /\ SweepGoesOn /\ AddsGoOn /\ UNCHANGED <<controllers, retried>>
    BY <1>20 DEF DeleteRow, ClaimsShrink, RunsGoOn, SweepGoesOn, AddsGoOn
  <2>2. RowsEnd
    <3>1. "gone" \in Ended
      BY DEF Ended
    <3> QED
      BY <1>20, <3>1, SetStatusEnds DEF DeleteRow
  <2> QED
    BY <2>1, <2>2 DEF Calm
<1>21. ASSUME DispatchEntryHooks PROVE Calm
  <2>1. ClaimsShrink /\ RunsGoOn /\ RowsEnd /\ SweepGoesOn /\ AddsGoOn /\ UNCHANGED <<controllers, retried>>
    BY <1>21 DEF DispatchEntryHooks, ClaimsShrink, RunsGoOn, RowsEnd, SweepGoesOn, AddsGoOn, rows
  <2> QED
    BY <2>1 DEF Calm
<1>22. ASSUME Pause PROVE Calm
  <2>1. ClaimsShrink /\ RunsGoOn /\ RowsEnd /\ SweepGoesOn /\ AddsGoOn /\ UNCHANGED <<controllers, retried>>
    BY <1>22 DEF Pause, ClaimsShrink, RunsGoOn, RowsEnd, SweepGoesOn, AddsGoOn, rows
  <2> QED
    BY <2>1 DEF Calm
<1>23. ASSUME Resume PROVE Calm
  <2>1. RunsGoOn /\ RowsEnd /\ SweepGoesOn /\ AddsGoOn /\ UNCHANGED <<controllers, retried>>
    BY <1>23 DEF Resume, RunsGoOn, RowsEnd, SweepGoesOn, AddsGoOn, rows
  <2>2. ClaimsShrink
    BY <1>23, ResumeClaims DEF Resume
  <2> QED
    BY <2>1, <2>2 DEF Calm
<1>24. ASSUME NEW a \in Admins, CancelAllStart(a) \/ PurgeCancels(a) PROVE Calm
  <2>0. PICK next : CancelAll(a, next)
    BY <1>24 DEF CancelAllStart, PurgeCancels
  <2>1. ClaimsShrink /\ RowsEnd /\ SweepGoesOn /\ AddsGoOn /\ UNCHANGED <<controllers, retried>>
    BY <2>0 DEF CancelAll, ClaimsShrink, RowsEnd, SweepGoesOn, AddsGoOn, rows
  <2>2. RunsGoOn
    BY <2>0, AbortRuns DEF CancelAll
  <2> QED
    BY <2>1, <2>2 DEF Calm
<1>25. ASSUME NEW a \in Admins, CancelAllEnd(a) PROVE Calm
  <2>1. ClaimsShrink /\ RunsGoOn /\ RowsEnd /\ SweepGoesOn /\ AddsGoOn /\ UNCHANGED <<controllers, retried>>
    BY <1>25 DEF CancelAllEnd, ClaimsShrink, RunsGoOn, RowsEnd, SweepGoesOn, AddsGoOn, rows
  <2> QED
    BY <2>1 DEF Calm
<1>26. ASSUME NEW a \in Admins, PurgeStart(a) \/ PurgeFails(a) PROVE Calm
  <2>1. ClaimsShrink /\ RunsGoOn /\ RowsEnd /\ SweepGoesOn /\ AddsGoOn /\ UNCHANGED <<controllers, retried>>
    BY <1>26 DEF PurgeStart, PurgeFails, ClaimsShrink, RunsGoOn, RowsEnd, SweepGoesOn, AddsGoOn, rows
  <2> QED
    BY <2>1 DEF Calm
<1>27. ASSUME NEW a \in Admins, MineSelect(a) PROVE Calm
  <2>1. ClaimsShrink /\ RunsGoOn /\ RowsEnd /\ SweepGoesOn /\ AddsGoOn /\ UNCHANGED <<controllers, retried>>
    BY <1>27 DEF MineSelect, ClaimsShrink, RunsGoOn, RowsEnd, SweepGoesOn, AddsGoOn, rows
  <2> QED
    BY <2>1 DEF Calm
<1>28. ASSUME NEW a \in Admins, MineUpdate(a) PROVE Calm
  <2>1. ClaimsShrink /\ RunsGoOn /\ SweepGoesOn /\ AddsGoOn /\ UNCHANGED <<controllers, retried>>
    BY <1>28 DEF MineUpdate, ClaimsShrink, RunsGoOn, SweepGoesOn, AddsGoOn
  <2>2. RowsEnd
    <3>1. "failed" \in Ended
      BY DEF Ended, Terminal
    <3> QED
      BY <1>28, <3>1, SetAllEnds DEF MineUpdate
  <2> QED
    BY <2>1, <2>2 DEF Calm
<1>29. ASSUME NEW a \in Admins, MineAbort(a) PROVE Calm
  <2>1. ClaimsShrink /\ RowsEnd /\ SweepGoesOn /\ AddsGoOn /\ UNCHANGED <<controllers, retried>>
    BY <1>29 DEF MineAbort, ClaimsShrink, RowsEnd, SweepGoesOn, AddsGoOn, rows
  <2>2. RunsGoOn
    <3>1. admin[a].ids \in SUBSET Jobs
      BY DEF RequestTypes
    <3> QED
      BY <1>29, <3>1, AbortRuns DEF MineAbort
  <2> QED
    BY <2>1, <2>2 DEF Calm
<1>30. ASSUME NEW a \in Admins, NEW filter \in Filters, MineDelete(a, filter) PROVE Calm
  <2>1. ClaimsShrink /\ RunsGoOn /\ SweepGoesOn /\ AddsGoOn /\ UNCHANGED <<controllers, retried>>
    BY <1>30 DEF MineDelete, ClaimsShrink, RunsGoOn, SweepGoesOn, AddsGoOn
  <2>2. RowsEnd
    <3> DEFINE S == Mine \cap IF filter = "processing"
                                  THEN {j \in Jobs : status[j] = "processing"}
                                  ELSE Purged(filter)
    <3>1. "gone" \in Ended
      BY DEF Ended
    <3>2. \A j \in S \cap Jobs : status[j] \notin {"absent", "gone"}
      BY Purgeable
    <3>3. SetAll(S, "gone")
      BY <1>30 DEF MineDelete
    <3> HIDE DEF S
    <3> QED
      BY <3>1, <3>2, <3>3, SetAllEnds
  <2> QED
    BY <2>1, <2>2 DEF Calm
<1>31. ASSUME SweepCeiling PROVE Calm
  <2>1. ClaimsShrink /\ RunsGoOn /\ AddsGoOn /\ UNCHANGED <<controllers, retried>>
    BY <1>31 DEF SweepCeiling, ClaimsShrink, RunsGoOn, AddsGoOn
  <2>2. RowsEnd
    <3>1. "failed" \in Ended
      BY DEF Ended, Terminal
    <3>2. \A j \in (Stranded(reaper.live) \cap Exhausted) \cap Jobs : status[j] \notin {"absent", "gone"}
      BY DEF Stranded, StaleIsProcessing
    <3> QED
      BY <1>31, <3>1, <3>2, SetAllEnds DEF SweepCeiling
  <2>3. SweepGoesOn
    BY <1>31 DEF SweepCeiling, RequestTypes, SweepGoesOn
  <2> QED
    BY <2>1, <2>2, <2>3 DEF Calm
<1>32. ASSUME SweepChat PROVE Calm
  <2>1. ClaimsShrink /\ RunsGoOn /\ AddsGoOn /\ UNCHANGED <<controllers, retried>>
    BY <1>32 DEF SweepChat, ClaimsShrink, RunsGoOn, AddsGoOn
  <2>2. RowsEnd
    <3>1. "failed" \in Ended
      BY DEF Ended, Terminal
    <3>2. \A j \in ((Stranded(reaper.live) \cap Chats) \ Exhausted) \cap Jobs : status[j] \notin {"absent", "gone"}
      BY DEF Stranded, StaleIsProcessing
    <3> QED
      BY <1>32, <3>1, <3>2, SetAllEnds DEF SweepChat
  <2>3. SweepGoesOn
    BY <1>32 DEF SweepChat, RequestTypes, SweepGoesOn
  <2> QED
    BY <2>1, <2>2, <2>3 DEF Calm
<1>33. ASSUME NEW a \in Admins, NEW target \in Targets, NEW filter \in Filters,
              PurgeRead(a, filter, target)
       PROVE  Calm
  BY <1>33 DEF PurgeRead, Calm, ClaimsShrink, RunsGoOn, RowsEnd, SweepGoesOn, AddsGoOn, rows
<1>34. ASSUME NEW a \in Admins, NEW j \in Jobs, PurgeRow(a, j) PROVE Calm
  <2>1. ClaimsShrink /\ RunsGoOn /\ SweepGoesOn /\ AddsGoOn /\ UNCHANGED <<controllers, retried>>
    BY <1>34 DEF PurgeRow, ClaimsShrink, RunsGoOn, SweepGoesOn, AddsGoOn
  <2>2. RowsEnd
    <3>1. "gone" \in Ended
      BY DEF Ended
    <3> QED
      BY <1>34, <3>1, SetStatusEnds DEF PurgeRow
  <2> QED
    BY <2>1, <2>2 DEF Calm
<1>35. ASSUME NEW a \in Admins, NEW target \in Targets, PurgeFail(a, target) PROVE Calm
  <2>1. ClaimsShrink /\ RunsGoOn /\ SweepGoesOn /\ AddsGoOn /\ UNCHANGED <<controllers, retried>>
    BY <1>35 DEF PurgeFail, ClaimsShrink, RunsGoOn, SweepGoesOn, AddsGoOn
  <2>2. RowsEnd
    BY <1>35, WaitingEnds DEF PurgeFail
  <2> QED
    BY <2>1, <2>2 DEF Calm
<1>36. ASSUME NEW a \in Admins, PurgeAll(a) PROVE Calm
  <2>1. ClaimsShrink /\ RunsGoOn /\ SweepGoesOn /\ AddsGoOn /\ UNCHANGED <<controllers, retried>>
    BY <1>36 DEF PurgeAll, ClaimsShrink, RunsGoOn, SweepGoesOn, AddsGoOn
  <2>2. RowsEnd
    <3> DEFINE S == admin[a].ids \cap Purged("all")
    <3>1. "gone" \in Ended /\ "all" \in Filters
      BY DEF Ended, Filters
    <3>2. \A j \in S \cap Jobs : status[j] \notin {"absent", "gone"}
      BY <3>1, Purgeable
    <3>3. SetAll(S, "gone")
      BY <1>36 DEF PurgeAll
    <3> HIDE DEF S
    <3> QED
      BY <3>1, <3>2, <3>3, SetAllEnds
  <2> QED
    BY <2>1, <2>2 DEF Calm
<1>37. ASSUME NEW a \in Admins, PurgeEnd(a) PROVE Calm
  <2>1. RunsGoOn /\ RowsEnd /\ SweepGoesOn /\ AddsGoOn /\ UNCHANGED <<controllers, retried>>
    BY <1>37 DEF PurgeEnd, RunsGoOn, RowsEnd, SweepGoesOn, AddsGoOn, rows
  <2>2. ClaimsShrink
    BY <1>37, ResumeClaims DEF PurgeEnd
  <2> QED
    BY <2>1, <2>2 DEF Calm
<1>38. ASSUME NEW a \in Admins, MineFail(a) PROVE Calm
  <2>1. ClaimsShrink /\ RunsGoOn /\ SweepGoesOn /\ AddsGoOn /\ UNCHANGED <<controllers, retried>>
    BY <1>38 DEF MineFail, ClaimsShrink, RunsGoOn, SweepGoesOn, AddsGoOn
  <2>2. RowsEnd
    BY <1>38, WaitingEnds DEF MineFail
  <2> QED
    BY <2>1, <2>2 DEF Calm
<1>39. ASSUME UNCHANGED vars PROVE Calm
  BY <1>39 DEF vars, rows, Calm, ClaimsShrink, RunsGoOn, RowsEnd, SweepGoesOn, AddsGoOn
<1> QED
  BY <1>1, <1>2, <1>3, <1>4, <1>5, <1>6, <1>7, <1>8, <1>9, <1>10, <1>11, <1>12, <1>13, <1>14, <1>15, <1>16, <1>17, <1>18, <1>19, <1>20, <1>21, <1>22, <1>23, <1>24, <1>25, <1>26, <1>27, <1>28, <1>29, <1>30, <1>31, <1>32, <1>33, <1>34, <1>35, <1>36, <1>37, <1>38, <1>39
     DEF Next, AddStep, LoopStep, RunStep, CancelStep, AdminStep, PurgeStep, MineStep,
         SweepStep

(* addJob inserts a row nobody owns.                                       *)
LEMMA InsertKeepsOwnership ==
    ASSUME TypeOK, Ownership, NotYetInserted, NEW j \in Jobs, Insert(j)
    PROVE  Ownership'
<1>r. retried' = retried
  BY DEF Insert
<1> USE <1>r
<1>0. RowTypes /\ RunTypes
  BY DEF TypeOK
<1>1. /\ status[j] = "absent" /\ ~stale[j]
      /\ status' = [status EXCEPT ![j] = "pending"]
      /\ UNCHANGED <<stale, controllers, loop, run, reaper>>
  BY DEF Insert, NotYetInserted, Ownership, StaleIsProcessing
<1>2. \A i \in Jobs : status'[i] = IF i = j THEN "pending" ELSE status[i]
  BY <1>0, <1>1 DEF RowTypes
<1>3. StaleIsProcessing'
  BY <1>1, <1>2 DEF Ownership, StaleIsProcessing
<1>4. (ControllerOwned /\ OneOwner /\ ExecutorRegistered /\ StaleIsLive)'
  BY <1>1 DEF Ownership, ControllerOwned, OneOwner, ExecutorRegistered, StaleIsLive,
              Owns, Claimed, Executing, Once
<1>5. UnclaimedIsFree'
  BY <1>1, <1>2 DEF Ownership, UnclaimedIsFree, Owns, Claimed, Once
<1>6. SkipIsEnded'
  <2> SUFFICES ASSUME NEW r \in Runners, run[r].pc = "skip", Once(run[r].job)
               PROVE  status'[run[r].job] \in Terminal \cup {"gone"}
    BY <1>1 DEF SkipIsEnded, Once
  <2>1. run[r].job \in Jobs /\ status[run[r].job] \in Terminal \cup {"gone"}
    BY <1>0 DEF Ownership, SkipIsEnded, RunTypes
  <2> QED
    BY <1>1, <1>2, <2>1 DEF Terminal
<1> QED
  BY <1>3, <1>4, <1>5, <1>6 DEF Ownership

(* A row that grows stale belongs to a registered executor or to nobody.   *)
LEMMA AgeKeepsOwnership ==
    ASSUME TypeOK, Ownership, NEW j \in Jobs, Age(j)
    PROVE  Ownership'
<1>r. retried' = retried
  BY DEF Age
<1> USE <1>r
<1>0. RowTypes
  BY DEF TypeOK
<1>1. /\ status[j] = "processing" /\ reaper.pc = "idle"
      /\ \A l \in Loops : ~Claimed(l, j)
      /\ \A r \in Runners : Owns(r, j) => Executing(r)
      /\ \A i \in Jobs : stale'[i] <=> i = j \/ stale[i]
      /\ UNCHANGED <<status, controllers, loop, run, reaper>>
  BY <1>0 DEF Age, RowTypes, Claimed, Owns
<1>2. StaleIsProcessing'
  BY <1>1 DEF Ownership, StaleIsProcessing
<1>3. (ControllerOwned /\ OneOwner /\ UnclaimedIsFree /\ SkipIsEnded /\ ExecutorRegistered)'
  BY <1>1 DEF Ownership, ControllerOwned, OneOwner, UnclaimedIsFree, SkipIsEnded,
              ExecutorRegistered, Owns, Claimed, Executing, Once
<1>4. StaleIsLive'
  <2> SUFFICES ASSUME NEW i \in Jobs, Once(i), stale'[i]
               PROVE  /\ \A l \in Loops : ~Claimed(l, i)
                      /\ \A r \in Runners : Owns(r, i) =>
                            /\ run[r].pc \notin {"read", "register", "skip"}
                            /\ controllers[i] = r
                            /\ reaper.pc # "idle" => i \in reaper.live
    BY <1>1 DEF StaleIsLive, Once, Claimed, Owns
  <2>1. CASE stale[i]
    BY <2>1 DEF Ownership, StaleIsLive
  <2>2. CASE i = j
    BY <1>1, <2>2 DEF Ownership, ExecutorRegistered, Executing, Owns
  <2> QED
    BY <1>1, <2>1, <2>2
<1> QED
  BY <1>2, <1>3, <1>4 DEF Ownership

(* The claim takes pending rows, which nobody owns, for one loop.          *)
LEMMA ClaimKeepsOwnership ==
    ASSUME TypeOK, Ownership, NEW l \in Loops, Claim(l)
    PROVE  Ownership'
<1>r. retried' = retried
  BY DEF Claim
<1> USE <1>r
<1>0. RowTypes /\ LoopTypes /\ RunTypes
  BY DEF TypeOK
<1>1. PICK S \in SUBSET Jobs :
        /\ \A j \in S : status[j] = "pending"
        /\ SetAll(S, "processing")
        /\ loop' = [loop EXCEPT ![l] =
                      IF S = {} THEN NextClass(loop[l].class, InFlight(l))
                      ELSE [LoopOff EXCEPT !.pc = "launch",
                                           !.class = loop[l].class, !.todo = S]]
  BY DEF Claim
<1>2. UNCHANGED <<controllers, run, reaper>>
  BY DEF Claim
<1>3. \A j \in Jobs : /\ status'[j] = IF j \in S THEN "processing" ELSE status[j]
                      /\ stale'[j] <=> j \notin S /\ stale[j]
  BY <1>1 DEF SetAll
<1>4. loop'[l].todo = S /\ \A m \in Loops : m # l => loop'[m] = loop[m]
  <2>1. [LoopOff EXCEPT !.pc = "launch", !.class = loop[l].class, !.todo = S].todo = S
    BY DEF LoopOff
  <2> QED
    BY <1>0, <1>1, <2>1, EmptyTodo DEF LoopTypes
<1>5. \A j \in S : Once(j) => /\ \A m \in Loops : ~Claimed(m, j)
                              /\ \A r \in Runners : ~Owns(r, j)
  BY <1>1 DEF Ownership, UnclaimedIsFree
<1>6. StaleIsProcessing'
  BY <1>3 DEF Ownership, StaleIsProcessing
<1>7. (ControllerOwned /\ ExecutorRegistered)'
  BY <1>2 DEF Ownership, ControllerOwned, ExecutorRegistered, Executing, Owns, Once
<1>8. OneOwner'
  <2> SUFFICES ASSUME NEW j \in Jobs, Once(j)
               PROVE  /\ \A r, s \in Runners : Owns(r, j) /\ Owns(s, j) => r = s
                      /\ \A m, n \in Loops : (Claimed(m, j) /\ Claimed(n, j))' => m = n
                      /\ \A m \in Loops, r \in Runners : ~(Claimed(m, j)' /\ Owns(r, j))
    BY <1>2 DEF OneOwner, Once, Owns
  <2>1. CASE j \in S
    BY <1>4, <1>5, <2>1 DEF Ownership, OneOwner, Claimed
  <2>2. CASE j \notin S
    <3>1. \A m \in Loops : Claimed(m, j)' => m # l /\ Claimed(m, j)
      BY <1>4, <2>2 DEF Claimed
    <3> QED
      BY <3>1 DEF Ownership, OneOwner
  <2> QED
    BY <2>1, <2>2
<1>9. UnclaimedIsFree'
  <2> SUFFICES ASSUME NEW j \in Jobs, Once(j), status'[j] \in {"absent", "pending"}
               PROVE  /\ \A m \in Loops : ~(Claimed(m, j)')
                      /\ \A r \in Runners : ~Owns(r, j)
    BY <1>2 DEF UnclaimedIsFree, Once, Owns
  <2>1. j \notin S /\ status[j] \in {"absent", "pending"}
    BY <1>3
  <2> QED
    BY <1>4, <2>1 DEF Ownership, UnclaimedIsFree, Claimed
<1>10. SkipIsEnded'
  <2> SUFFICES ASSUME NEW r \in Runners, run[r].pc = "skip", Once(run[r].job)
               PROVE  status'[run[r].job] \in Terminal \cup {"gone"}
    BY <1>2 DEF SkipIsEnded, Once
  <2>1. run[r].job \in Jobs /\ status[run[r].job] \in Terminal \cup {"gone"}
    BY <1>0 DEF Ownership, SkipIsEnded, RunTypes
  <2> QED
    BY <1>1, <1>3, <2>1 DEF Terminal
<1>11. StaleIsLive'
  <2> SUFFICES ASSUME NEW j \in Jobs, Once(j), stale'[j]
               PROVE  /\ \A m \in Loops : ~(Claimed(m, j)')
                      /\ \A r \in Runners : Owns(r, j) =>
                            /\ run[r].pc \notin {"read", "register", "skip"}
                            /\ controllers[j] = r
                            /\ reaper.pc # "idle" => j \in reaper.live
    BY <1>2 DEF StaleIsLive, Once, Owns
  <2>1. j \notin S /\ stale[j]
    BY <1>3
  <2> QED
    BY <1>4, <2>1 DEF Ownership, StaleIsLive, Claimed
<1> QED
  BY <1>6, <1>7, <1>8, <1>9, <1>10, <1>11 DEF Ownership

(* The launch hands a claimed row from its loop to a free runner.          *)
LEMMA LaunchKeepsOwnership ==
    ASSUME TypeOK, Ownership, NEW l \in Loops, Launch(l)
    PROVE  Ownership'
<1>r. retried' = retried
  BY DEF Launch, rows
<1> USE <1>r
<1>0. RowTypes /\ LoopTypes /\ RunTypes
  BY DEF TypeOK
<1>1. PICK j \in loop[l].todo, r \in Runners :
        /\ run[r] = Idle
        /\ run' = [run EXCEPT ![r] = [Idle EXCEPT !.pc = "read", !.job = j,
                                      !.loop = l, !.retry = retried[j]]]
        /\ loop' = [loop EXCEPT ![l] =
                      IF loop[l].todo \ {j} = {} THEN NextClass(loop[l].class, {r})
                      ELSE [loop[l] EXCEPT !.todo = loop[l].todo \ {j}]]
  BY <1>0 DEF Launch, LoopTypes
<1>2. UNCHANGED <<status, stale, controllers, reaper>>
  BY DEF Launch, rows
<1>3. j \in Jobs /\ Claimed(l, j)
  BY <1>0, <1>1 DEF LoopTypes, LoopStates, Claimed
<1>4. /\ run'[r].pc = "read" /\ run'[r].job = j
      /\ \A s \in Runners : s # r => run'[s] = run[s]
  BY <1>0, <1>1 DEF RunTypes, Idle
<1>5. \A m \in Loops, i \in Jobs : Claimed(m, i)' => Claimed(m, i) /\ ~(m = l /\ i = j)
  <2>1. \A m \in Loops : m # l => loop'[m] = loop[m]
    BY <1>0, <1>1 DEF LoopTypes
  <2>2. loop'[l].todo = loop[l].todo \ {j}
    BY <1>0, <1>1, EmptyTodo DEF LoopTypes, LoopStates
  <2> QED
    BY <2>1, <2>2 DEF Claimed
<1>6. run[r].job = None /\ \A i \in Jobs : ~Owns(r, i)
  BY <1>1, NoneAssumption DEF Idle, Owns
<1>7. Once(j) => /\ \A s \in Runners : ~Owns(s, j)
                 /\ \A m \in Loops : Claimed(m, j) => m = l
  BY <1>3 DEF Ownership, OneOwner
<1>8. Once(j) => status[j] \notin {"absent", "pending"} /\ ~stale[j]
  BY <1>3 DEF Ownership, UnclaimedIsFree, StaleIsLive
<1>9. \A s \in Runners, i \in Jobs : Owns(s, i)' => (s = r /\ i = j) \/ (s # r /\ Owns(s, i))
  BY <1>4 DEF Owns
<1>10. StaleIsProcessing'
  BY <1>2 DEF Ownership, StaleIsProcessing
<1>11. ControllerOwned'
  BY <1>2, <1>4, <1>6 DEF Ownership, ControllerOwned, Owns
<1>12. OneOwner'
  <2> SUFFICES ASSUME NEW i \in Jobs, Once(i)
               PROVE  /\ \A s, u \in Runners : (Owns(s, i) /\ Owns(u, i))' => s = u
                      /\ \A m, n \in Loops : (Claimed(m, i) /\ Claimed(n, i))' => m = n
                      /\ \A m \in Loops, s \in Runners : ~((Claimed(m, i) /\ Owns(s, i))')
    BY DEF OneOwner, Once
  <2>1. CASE i = j
    BY <1>5, <1>7, <1>9, <2>1
  <2>2. CASE i # j
    BY <1>5, <1>9, <2>2 DEF Ownership, OneOwner
  <2> QED
    BY <2>1, <2>2
<1>13. UnclaimedIsFree'
  <2> SUFFICES ASSUME NEW i \in Jobs, Once(i), status[i] \in {"absent", "pending"}
               PROVE  /\ \A m \in Loops : ~(Claimed(m, i)')
                      /\ \A s \in Runners : ~(Owns(s, i)')
    BY <1>2 DEF UnclaimedIsFree, Once
  <2> QED
    BY <1>5, <1>8, <1>9 DEF Ownership, UnclaimedIsFree
<1>14. SkipIsEnded'
  BY <1>2, <1>4 DEF Ownership, SkipIsEnded, Once
<1>15. ExecutorRegistered'
  BY <1>2, <1>4 DEF Ownership, ExecutorRegistered, Executing, Once
<1>16. StaleIsLive'
  <2> SUFFICES ASSUME NEW i \in Jobs, Once(i), stale[i]
               PROVE  /\ \A m \in Loops : ~(Claimed(m, i)')
                      /\ \A s \in Runners : Owns(s, i)' =>
                            /\ run'[s].pc \notin {"read", "register", "skip"}
                            /\ controllers[i] = s
                            /\ reaper.pc # "idle" => i \in reaper.live
    BY <1>2 DEF StaleIsLive, Once
  <2>1. i # j
    BY <1>8
  <2> QED
    BY <1>4, <1>5, <1>9, <2>1 DEF Ownership, StaleIsLive
<1> QED
  BY <1>10, <1>11, <1>12, <1>13, <1>14, <1>15, <1>16 DEF Ownership

(* The status read sends a runner on, or to the end if its row has ended.  *)
LEMMA ReadStatusKeepsOwnership ==
    ASSUME TypeOK, Ownership, NEW r \in Runners, ReadStatus(r)
    PROVE  Ownership'
<1>r. retried' = retried
  BY DEF ReadStatus, rows
<1> USE <1>r
<1>0. RowTypes /\ RunTypes
  BY DEF TypeOK
<1> DEFINE p == IF status[run[r].job] = "processing" THEN "register" ELSE "skip"
           k == run[r].job
<1>1. /\ run[r].pc = "read" /\ k \in Jobs
      /\ UNCHANGED <<status, stale, controllers, loop, reaper>>
  BY <1>0 DEF ReadStatus, RunTypes, rows
<1>2. /\ \A s \in Runners : run'[s].job = run[s].job
      /\ run'[r].pc = p
      /\ \A s \in Runners : s # r => run'[s].pc = run[s].pc
  <2>1. p \in RunPcs /\ p # "idle"
    BY DEF RunPcs
  <2>2. run' = [run EXCEPT ![r].pc = p]
    BY DEF ReadStatus
  <2> HIDE DEF p
  <2>3. \A s \in Runners : /\ run'[s].job = run[s].job
                           /\ run'[s].pc = IF s = r THEN p ELSE run[s].pc
    BY <1>0, <1>1, <2>1, <2>2, RunUpdate
  <2> QED
    BY <2>3
<1>3. (StaleIsProcessing /\ ControllerOwned /\ OneOwner /\ UnclaimedIsFree)'
  BY <1>1, <1>2 DEF Ownership, StaleIsProcessing, ControllerOwned, OneOwner,
                    UnclaimedIsFree, Owns, Claimed, Once
<1>4. SkipIsEnded'
  <2> SUFFICES ASSUME NEW s \in Runners, run'[s].pc = "skip", Once(run[s].job)
               PROVE  status[run[s].job] \in Terminal \cup {"gone"}
    BY <1>1, <1>2 DEF SkipIsEnded, Once
  <2>1. CASE s = r
    <3>1. Owns(r, k) /\ Once(k)
      BY <2>1 DEF Owns
    <3>2. status[k] \notin {"absent", "pending"}
      BY <1>1, <3>1 DEF Ownership, UnclaimedIsFree
    <3>3. status[k] # "processing"
      BY <1>2, <2>1
    <3> QED
      BY <1>0, <1>1, <2>1, <3>2, <3>3 DEF RowTypes, Statuses, Terminal
  <2>2. CASE s # r
    BY <1>2, <2>2 DEF Ownership, SkipIsEnded
  <2> QED
    BY <2>1, <2>2
<1>5. ExecutorRegistered'
  BY <1>1, <1>2 DEF Ownership, ExecutorRegistered, Executing, Once
<1>6. StaleIsLive'
  <2> SUFFICES ASSUME NEW i \in Jobs, Once(i), stale[i]
               PROVE  /\ \A m \in Loops : ~Claimed(m, i)
                      /\ \A s \in Runners : run[s].job = i =>
                            /\ run'[s].pc \notin {"read", "register", "skip"}
                            /\ controllers[i] = s
                            /\ reaper.pc # "idle" => i \in reaper.live
    BY <1>1, <1>2 DEF StaleIsLive, Once, Claimed, Owns
  <2>1. run[r].job # i
    BY <1>1 DEF Ownership, StaleIsLive, Owns
  <2> QED
    BY <1>2, <2>1 DEF Ownership, StaleIsLive, Owns
<1> QED
  BY <1>3, <1>4, <1>5, <1>6 DEF Ownership

(* The runner that registers is the only one of its job.                   *)
LEMMA RegisterKeepsOwnership ==
    ASSUME TypeOK, Ownership, NEW r \in Runners, Register(r)
    PROVE  Ownership'
<1>r. retried' = retried
  BY DEF Register, rows
<1> USE <1>r
<1>0. RowTypes /\ RunTypes
  BY DEF TypeOK
<1> DEFINE k == run[r].job
<1>1. /\ run[r].pc = "register" /\ k \in Jobs
      /\ controllers' = [controllers EXCEPT ![k] = r]
      /\ UNCHANGED <<status, stale, loop, reaper>>
  BY <1>0 DEF Register, RunTypes, rows
<1>2. /\ \A s \in Runners : run'[s].job = run[s].job
      /\ run'[r].pc = "exec"
      /\ \A s \in Runners : s # r => run'[s].pc = run[s].pc
  <2>1. "exec" \in RunPcs
    BY DEF RunPcs
  <2>2. run' = [run EXCEPT ![r].pc = "exec"]
    BY DEF Register
  <2>3. \A s \in Runners : /\ run'[s].job = run[s].job
                           /\ run'[s].pc = IF s = r THEN "exec" ELSE run[s].pc
    BY <1>0, <1>1, <2>1, <2>2, RunUpdate
  <2> QED
    BY <2>3
<1>3. \A i \in Jobs : controllers'[i] = IF i = k THEN r ELSE controllers[i]
  BY <1>0, <1>1 DEF RunTypes
<1>4. (StaleIsProcessing /\ OneOwner /\ UnclaimedIsFree)'
  BY <1>1, <1>2 DEF Ownership, StaleIsProcessing, OneOwner,
                    UnclaimedIsFree, Owns, Claimed, Once
<1>5. ControllerOwned'
  BY <1>2, <1>3 DEF Ownership, ControllerOwned, Owns
<1>6. SkipIsEnded'
  BY <1>1, <1>2 DEF Ownership, SkipIsEnded, Once
<1>7. ExecutorRegistered'
  <2> SUFFICES ASSUME NEW s \in Runners, run'[s].pc = "exec", Once(run[s].job)
               PROVE  controllers'[run[s].job] = s
    BY <1>2 DEF ExecutorRegistered, Executing, Once
  <2>1. CASE s = r
    BY <1>1, <1>3, <2>1
  <2>2. CASE s # r
    <3>1. run[s].pc = "exec" /\ run[s].job \in Jobs
      BY <1>0, <1>2, <2>2 DEF RunTypes
    <3>2. run[s].job # k
      BY <1>1, <2>2 DEF Ownership, OneOwner, Owns
    <3> QED
      BY <1>3, <3>1, <3>2 DEF Ownership, ExecutorRegistered, Executing
  <2> QED
    BY <2>1, <2>2
<1>8. StaleIsLive'
  <2> SUFFICES ASSUME NEW i \in Jobs, Once(i), stale[i]
               PROVE  /\ \A m \in Loops : ~Claimed(m, i)
                      /\ \A s \in Runners : run[s].job = i =>
                            /\ run'[s].pc \notin {"read", "register", "skip"}
                            /\ controllers'[i] = s
                            /\ reaper.pc # "idle" => i \in reaper.live
    BY <1>1, <1>2 DEF StaleIsLive, Once, Claimed, Owns
  <2>1. k # i
    BY <1>1 DEF Ownership, StaleIsLive, Owns
  <2> QED
    BY <1>2, <1>3, <2>1 DEF Ownership, StaleIsLive, Owns
<1> QED
  BY <1>4, <1>5, <1>6, <1>7, <1>8 DEF Ownership

(* The requeue of a job by its runner is the first retry, or a later one.  *)
LEMMA RequeueKeepsOwnership ==
    ASSUME TypeOK, Ownership, RequeuerMayRetry, NEW r \in Runners, Requeue(r)
    PROVE  Ownership'
<1>0. RowTypes /\ RunTypes
  BY DEF TypeOK
<1> DEFINE k == run[r].job
<1>1. /\ run[r].pc = "requeue" /\ k \in Jobs
      /\ SetStatus(k, "pending")
      /\ UNCHANGED <<controllers, loop, reaper>>
  BY <1>0 DEF Requeue, RunTypes
<1>2. \A i \in Jobs : Once(i)' => i # k /\ Once(i)
  <2>1. run[r].retry \in Nat
    BY <1>0 DEF RunTypes, RunStates
  <2>2. retried' = [retried EXCEPT ![k] = run[r].retry + 1]
    BY DEF Requeue
  <2>3. retried'[k] # 0 /\ \A i \in Jobs : i # k => retried'[i] = retried[i]
    BY <1>0, <1>1, <2>1, <2>2 DEF RowTypes
  <2> QED
    BY <2>3 DEF Once
<1>3. /\ \A s \in Runners : run'[s].job = run[s].job
      /\ run'[r].pc = "tail"
      /\ \A s \in Runners : s # r => run'[s].pc = run[s].pc
  <2>1. "tail" \in RunPcs
    BY DEF RunPcs
  <2>2. run' = [run EXCEPT ![r].pc = "tail"]
    BY DEF Requeue
  <2>3. \A s \in Runners : /\ run'[s].job = run[s].job
                           /\ run'[s].pc = IF s = r THEN "tail" ELSE run[s].pc
    BY <1>0, <1>1, <2>1, <2>2, RunUpdate
  <2> QED
    BY <2>3
<1>4. \A i \in Jobs : /\ i # k => status'[i] = status[i]
                      /\ stale'[i] <=> i # k /\ stale[i]
  BY <1>0, <1>1 DEF SetStatus, RowTypes
<1>5. \A i \in Jobs : Once(i)' => status'[i] = status[i] /\ (stale'[i] <=> stale[i])
  BY <1>2, <1>4
<1>6. StaleIsProcessing'
  BY <1>4 DEF Ownership, StaleIsProcessing
<1>7. (ControllerOwned /\ OneOwner)'
  BY <1>1, <1>2, <1>3 DEF Ownership, ControllerOwned, OneOwner, Owns, Claimed
<1>8. UnclaimedIsFree'
  BY <1>1, <1>2, <1>3, <1>5 DEF Ownership, UnclaimedIsFree, Owns, Claimed
<1>9. SkipIsEnded'
  <2> SUFFICES ASSUME NEW s \in Runners, run[s].pc = "skip", run[s].job \in Jobs,
                      NEW i, i = run[s].job, Once(i)'
               PROVE  status'[i] \in Terminal \cup {"gone"}
    BY <1>0, <1>3 DEF SkipIsEnded, Once, RunTypes
  <2> QED
    BY <1>2, <1>5 DEF Ownership, SkipIsEnded
<1>10. ExecutorRegistered'
  BY <1>0, <1>1, <1>2, <1>3 DEF Ownership, ExecutorRegistered, Executing, Once, RunTypes
<1>11. StaleIsLive'
  <2> SUFFICES ASSUME NEW i \in Jobs, Once(i)', stale[i]
               PROVE  /\ \A m \in Loops : ~Claimed(m, i)
                      /\ \A s \in Runners : run[s].job = i =>
                            /\ run'[s].pc \notin {"read", "register", "skip"}
                            /\ controllers[i] = s
                            /\ reaper.pc # "idle" => i \in reaper.live
    BY <1>1, <1>3, <1>5 DEF StaleIsLive, Claimed, Owns
  <2> QED
    BY <1>2, <1>3 DEF Ownership, StaleIsLive, Owns
<1> QED
  BY <1>6, <1>7, <1>8, <1>9, <1>10, <1>11 DEF Ownership

(* A runner that ends removes the controller of its own job only.          *)
LEMMA UnregisterKeepsOwnership ==
    ASSUME TypeOK, Ownership, NEW r \in Runners, run[r].pc # "idle", Unregister(r),
           ClaimsShrink, UNCHANGED <<rows, reaper>>
    PROVE  Ownership'
<1>r. UNCHANGED <<status, stale, retried>>
  BY DEF rows
<1> USE <1>r
<1>0. RowTypes /\ RunTypes
  BY DEF TypeOK
<1> DEFINE k == run[r].job
<1>1. k \in Jobs /\ controllers' = [controllers EXCEPT ![k] = None]
  BY <1>0 DEF Unregister, RunTypes
<1>2. \A i \in Jobs : controllers'[i] = IF i = k THEN None ELSE controllers[i]
  BY <1>0, <1>1 DEF RunTypes
<1>3. /\ run'[r].pc = "idle" /\ run'[r].job = None
      /\ \A s \in Runners : s # r => run'[s] = run[s]
  BY <1>0, UnregisterType DEF RunTypes, Idle
<1>4. \A s \in Runners, i \in Jobs : Owns(s, i)' => s # r /\ Owns(s, i)
  BY <1>3, NoneAssumption DEF Owns
<1>5. \A l \in Loops, i \in Jobs : Claimed(l, i)' => Claimed(l, i)
  BY DEF ClaimsShrink, Claimed
<1>6. StaleIsProcessing'
  BY DEF Ownership, StaleIsProcessing
<1>7. ControllerOwned'
  <2> SUFFICES ASSUME NEW i \in Jobs, NEW s \in Runners, controllers'[i] = s
               PROVE  Owns(s, i)'
    BY DEF ControllerOwned
  <2>1. i # k /\ controllers[i] = s
    BY <1>2, NoneAssumption
  <2>2. Owns(s, i)
    BY <2>1 DEF Ownership, ControllerOwned
  <2>3. s # r
    BY <2>1, <2>2 DEF Owns
  <2> QED
    BY <1>3, <2>2, <2>3 DEF Owns
<1>8. (OneOwner /\ UnclaimedIsFree)'
  BY <1>4, <1>5 DEF Ownership, OneOwner, UnclaimedIsFree, Once
<1>9. SkipIsEnded'
  BY <1>3 DEF Ownership, SkipIsEnded, Once
<1>10. ExecutorRegistered'
  <2> SUFFICES ASSUME NEW s \in Runners, run'[s].pc = "exec", Once(run'[s].job)
               PROVE  controllers'[run'[s].job] = s
    BY DEF ExecutorRegistered, Executing, Once
  <2>1. s # r /\ run'[s] = run[s] /\ run[s].job \in Jobs
    BY <1>0, <1>3 DEF RunTypes
  <2>2. controllers[run[s].job] = s
    BY <2>1 DEF Ownership, ExecutorRegistered, Executing
  <2>3. run[s].job # k
    BY <1>1, <2>1 DEF Ownership, OneOwner, Owns
  <2> QED
    BY <1>2, <2>1, <2>2, <2>3
<1>11. StaleIsLive'
  <2> SUFFICES ASSUME NEW i \in Jobs, Once(i), stale[i]
               PROVE  /\ \A m \in Loops : ~(Claimed(m, i)')
                      /\ \A s \in Runners : Owns(s, i)' =>
                            /\ run'[s].pc \notin {"read", "register", "skip"}
                            /\ controllers'[i] = s
                            /\ reaper.pc # "idle" => i \in reaper.live
    BY DEF StaleIsLive, Once
  <2>1. \A m \in Loops : ~(Claimed(m, i)')
    BY <1>5 DEF Ownership, StaleIsLive
  <2>2. ASSUME NEW s \in Runners, Owns(s, i)'
        PROVE  /\ run'[s].pc \notin {"read", "register", "skip"}
               /\ controllers'[i] = s
               /\ reaper.pc # "idle" => i \in reaper.live
    <3>1. s # r /\ Owns(s, i) /\ run'[s] = run[s]
      BY <1>3, <1>4, <2>2
    <3>2. i # k
      BY <1>1, <3>1 DEF Ownership, OneOwner, Owns
    <3> QED
      BY <1>2, <3>1, <3>2 DEF Ownership, StaleIsLive
  <2> QED
    BY <2>1, <2>2
<1> QED
  BY <1>6, <1>7, <1>8, <1>9, <1>10, <1>11 DEF Ownership

(* Both ends of runJob, normal and by rejection, keep the ownership.       *)
LEMMA FinishKeepsOwnership ==
    ASSUME TypeOK, Ownership, NEW r \in Runners, Finish(r) \/ CatchFails(r)
    PROVE  Ownership'
<1>0. LoopTypes /\ RunTypes
  BY DEF TypeOK
<1>1. CASE Finish(r)
  <2>1. ClaimsShrink
    BY <1>1 DEF Finish, ClaimsShrink
  <2> QED
    BY <1>1, <2>1, UnregisterKeepsOwnership DEF Finish, rows
<1>2. CASE CatchFails(r)
  <2>1. run[r].loop \in Loops
    BY <1>0, <1>2 DEF CatchFails, RunTypes
  <2>2. CASE loop[run[r].loop].pc = "wait"
    <3>1. ClaimsShrink
      BY <1>0, <1>2, <2>1, <2>2, EmptyTodo, ResetClaims DEF CatchFails, ResumeLoop
    <3> QED
      BY <1>2, <3>1, UnregisterKeepsOwnership DEF CatchFails, rows
  <2>3. CASE loop[run[r].loop].pc # "wait"
    <3>1. ClaimsShrink
      BY <1>2, <2>3 DEF CatchFails, ClaimsShrink
    <3> QED
      BY <1>2, <3>1, UnregisterKeepsOwnership DEF CatchFails, rows
  <2> QED
    BY <2>2, <2>3
<1> QED
  BY <1>1, <1>2

(* A stale row with a runner is in the list of live ids the sweep reads.   *)
LEMMA SweepStartKeepsOwnership ==
    ASSUME TypeOK, Ownership, SweepStart
    PROVE  Ownership'
<1>r. retried' = retried
  BY DEF SweepStart, rows
<1> USE <1>r
<1>1. /\ reaper'.live = {j \in Jobs : controllers[j] # None}
      /\ UNCHANGED <<status, stale, controllers, loop, run>>
  BY DEF SweepStart, rows
<1>2. StaleIsProcessing' /\ ControllerOwned' /\ OneOwner'
      /\ UnclaimedIsFree' /\ SkipIsEnded' /\ ExecutorRegistered'
  BY <1>1 DEF Ownership, StaleIsProcessing, ControllerOwned, OneOwner, UnclaimedIsFree,
              SkipIsEnded, ExecutorRegistered, Owns, Claimed, Executing, Once
<1>3. StaleIsLive'
  <2> SUFFICES ASSUME NEW j \in Jobs, Once(j), stale[j]
               PROVE  /\ \A l \in Loops : ~Claimed(l, j)
                      /\ \A r \in Runners : Owns(r, j) =>
                            /\ run[r].pc \notin {"read", "register", "skip"}
                            /\ controllers[j] = r
                            /\ j \in reaper'.live
    BY <1>1 DEF StaleIsLive, Once, Claimed, Owns
  <2> QED
    BY <1>1, NoneAssumption DEF Ownership, StaleIsLive
<1> QED
  BY <1>2, <1>3 DEF Ownership

(* The rows a sweep puts back to pending belong to nobody.                 *)
LEMMA SweepRequeueKeepsOwnership ==
    ASSUME TypeOK, Ownership, SweepRequeue
    PROVE  Ownership'
<1>r. retried' = retried
  BY DEF SweepRequeue
<1> USE <1>r
<1>0. RowTypes /\ RunTypes
  BY DEF TypeOK
<1> DEFINE S == Stranded(reaper.live) \ (Chats \cup Exhausted)
<1>1. /\ reaper.pc = "requeue" /\ reaper' = ReaperIdle
      /\ SetAll(S, "pending")
      /\ UNCHANGED <<controllers, loop, run>>
  BY DEF SweepRequeue, RequeueRows
<1>2. \A j \in Jobs : /\ status'[j] = IF j \in S THEN "pending" ELSE status[j]
                      /\ stale'[j] <=> j \notin S /\ stale[j]
  <2> HIDE DEF S
  <2> QED
    BY <1>1 DEF SetAll
<1>3. \A j \in S : j \in Jobs /\ stale[j] /\ j \notin reaper.live
  BY DEF Stranded
<1>4. \A j \in S : Once(j) => /\ \A l \in Loops : ~Claimed(l, j)
                              /\ \A r \in Runners : ~Owns(r, j)
  <2> SUFFICES ASSUME NEW j \in S, Once(j)
               PROVE  /\ \A l \in Loops : ~Claimed(l, j)
                      /\ \A r \in Runners : ~Owns(r, j)
    OBVIOUS
  <2>1. j \in Jobs /\ stale[j] /\ j \notin reaper.live /\ reaper.pc # "idle"
    BY <1>1, <1>3
  <2> HIDE DEF S
  <2> QED
    BY <2>1 DEF Ownership, StaleIsLive
<1> HIDE DEF S
<1>5. StaleIsProcessing'
  BY <1>2 DEF Ownership, StaleIsProcessing
<1>6. (ControllerOwned /\ OneOwner /\ ExecutorRegistered)'
  BY <1>1 DEF Ownership, ControllerOwned, OneOwner, ExecutorRegistered, Owns, Claimed,
              Executing, Once
<1>7. UnclaimedIsFree'
  <2> SUFFICES ASSUME NEW j \in Jobs, Once(j), status'[j] \in {"absent", "pending"}
               PROVE  /\ \A l \in Loops : ~Claimed(l, j)
                      /\ \A r \in Runners : ~Owns(r, j)
    BY <1>1 DEF UnclaimedIsFree, Once, Owns, Claimed
  <2>1. CASE j \in S
    BY <1>4, <2>1
  <2>2. CASE j \notin S
    BY <1>2, <2>2 DEF Ownership, UnclaimedIsFree
  <2> QED
    BY <2>1, <2>2
<1>8. SkipIsEnded'
  <2> SUFFICES ASSUME NEW r \in Runners, run[r].pc = "skip", Once(run[r].job)
               PROVE  status'[run[r].job] \in Terminal \cup {"gone"}
    BY <1>1 DEF SkipIsEnded, Once
  <2>1. run[r].job \in Jobs /\ status[run[r].job] \in Terminal \cup {"gone"}
    BY <1>0 DEF Ownership, SkipIsEnded, RunTypes
  <2>2. run[r].job \notin S
    BY <1>4 DEF Owns
  <2> QED
    BY <1>2, <2>1, <2>2
<1>9. StaleIsLive'
  <2> SUFFICES ASSUME NEW j \in Jobs, Once(j), stale'[j]
               PROVE  /\ \A l \in Loops : ~Claimed(l, j)
                      /\ \A r \in Runners : Owns(r, j) =>
                            /\ run[r].pc \notin {"read", "register", "skip"}
                            /\ controllers[j] = r
                            /\ reaper'.pc # "idle" => j \in reaper'.live
    BY <1>1 DEF StaleIsLive, Once, Claimed, Owns
  <2>1. stale[j] /\ reaper'.pc = "idle"
    BY <1>1, <1>2 DEF ReaperIdle
  <2> QED
    BY <2>1 DEF Ownership, StaleIsLive
<1> QED
  BY <1>5, <1>6, <1>7, <1>8, <1>9 DEF Ownership

(* Without loops, runners and controllers the ownership holds trivially.   *)
LEMMA NoActorOwnership ==
    ASSUME StaleIsProcessing',
           \A l \in Loops : loop'[l].todo = {},
           \A r \in Runners : run'[r].job = None /\ run'[r].pc = "idle",
           \A j \in Jobs : controllers'[j] \notin Runners
    PROVE  Ownership'
<1>1. \A r \in Runners, j \in Jobs : ~(Owns(r, j)')
  BY NoneAssumption DEF Owns
<1>2. \A l \in Loops, j \in Jobs : ~(Claimed(l, j)')
  BY DEF Claimed
<1>3. (ControllerOwned /\ OneOwner /\ UnclaimedIsFree /\ StaleIsLive)'
  BY <1>1, <1>2 DEF ControllerOwned, OneOwner, UnclaimedIsFree, StaleIsLive
<1>4. (SkipIsEnded /\ ExecutorRegistered)'
  BY DEF SkipIsEnded, ExecutorRegistered, Executing
<1> QED
  BY <1>3, <1>4 DEF Ownership

(* A crash leaves no owner.                                                *)
LEMMA CrashKeepsOwnership ==
    ASSUME TypeOK, Ownership, Crash
    PROVE  Ownership'
<1>1. StaleIsProcessing'
  BY DEF Crash, Ownership, StaleIsProcessing, rows
<1>2. \A l \in Loops : loop'[l].todo = {}
  BY EmptyTodo DEF Crash
<1>3. \A r \in Runners : run'[r].job = None /\ run'[r].pc = "idle"
  BY DEF Crash, Idle
<1>4. \A j \in Jobs : controllers'[j] \notin Runners
  BY NoneAssumption DEF Crash
<1> QED
  BY <1>1, <1>2, <1>3, <1>4, NoActorOwnership

(* The boot sweep runs when there is none.                                 *)
LEMMA BootKeepsOwnership ==
    ASSUME TypeOK, Ownership, DownIsEmpty, Boot
    PROVE  Ownership'
<1>0. RunTypes
  BY DEF TypeOK
<1>1. UNCHANGED <<controllers, loop, run>> /\ ~up
  BY DEF Boot
<1>2. StaleIsProcessing'
  BY DEF Boot, StaleIsProcessing
<1>3. \A l \in Loops : loop'[l].todo = {}
  BY <1>1 DEF DownIsEmpty
<1>4. \A r \in Runners : run'[r].job = None /\ run'[r].pc = "idle"
  BY <1>0, <1>1, NoneAssumption DEF DownIsEmpty, RunTypes
<1>5. \A j \in Jobs : controllers'[j] \notin Runners
  BY <1>1, <1>4, NoneAssumption DEF Ownership, ControllerOwned, Owns
<1> QED
  BY <1>2, <1>3, <1>4, <1>5, NoActorOwnership

(* Only a crash and a boot change whether the process is up.               *)
LEMMA UpChanges == ASSUME [Next]_vars PROVE Crash \/ Boot \/ up' = up
<1>1. ASSUME NEW j \in Jobs, AddStep(j) PROVE up' = up
  BY <1>1 DEF AddStep, Admit, Insert, Kick, KickLost, flags
<1>2. ASSUME NEW j \in Jobs, CancelStep(j) \/ DeleteRow(j) \/ Age(j) PROVE up' = up
  BY <1>2 DEF CancelStep, CancelWrite, CancelAbort, CancelFails, DeleteRow, Age, flags
<1>3. ASSUME NEW l \in Loops, LoopStep(l) PROVE up' = up
  BY <1>3 DEF LoopStep, Enter, CountProcessing, CountFails, Claim, Launch, AskPending,
              Leave, Wake, LoopDies, flags
<1>4. ASSUME NEW r \in Runners, RunStep(r) PROVE up' = up
  BY <1>4 DEF RunStep, ReadStatus, Register, ExecReturns, ExecThrows, TryFails, Complete,
              Requeue, Stop, Fail, Finish, CatchFails, flags
<1>5. ASSUME NEW a \in Admins, AdminStep(a) PROVE up' = up
  BY <1>5 DEF AdminStep, PurgeStep, MineStep, CancelAll, CancelAllStart, CancelAllEnd,
              PurgeStart, PurgeCancels, PurgeRead, PurgeRow, PurgeFail, PurgeAll, PurgeFails,
              PurgeEnd, MineSelect, MineUpdate, MineAbort, MineFail, MineDelete, flags
<1>6. ASSUME Pause \/ Resume \/ DispatchEntryHooks PROVE up' = up
  BY <1>6 DEF Pause, Resume, DispatchEntryHooks, flags
<1>7. ASSUME SweepStep PROVE up' = up
  BY <1>7 DEF SweepStep, SweepStart, SweepCeiling, SweepChat, SweepRequeue, flags
<1>8. ASSUME UNCHANGED vars PROVE up' = up
  BY <1>8 DEF vars, flags
<1> QED
  BY <1>1, <1>2, <1>3, <1>4, <1>5, <1>6, <1>7, <1>8 DEF Next

(* While the process is down nothing but the boot, time and leftovers of   *)
(* cancels happens.                                                        *)
LEMMA DownActions ==
    ASSUME TypeOK, DownIsEmpty, ~up, [Next]_vars
    PROVE  \/ Boot \/ UNCHANGED vars
           \/ \E j \in Jobs : CancelAbort(j) \/ CancelFails(j) \/ Age(j)
<1>1. /\ \A l \in Loops : loop[l].pc = "off"
      /\ \A r \in Runners : run[r].pc = "idle"
      /\ \A j \in Jobs : adding[j] \in {"idle", "done"}
      /\ \A a \in Admins : admin[a].pc \in {"idle", "done"}
      /\ reaper.pc = "idle"
  BY NoneAssumption DEF DownIsEmpty, TypeOK, RunTypes
<1>2. ASSUME NEW j \in Jobs, AddStep(j) PROVE FALSE
  BY <1>1, <1>2 DEF AddStep, Admit, Insert, Kick, KickLost
<1>3. ASSUME NEW l \in Loops, LoopStep(l) PROVE FALSE
  BY <1>1, <1>3 DEF LoopStep, Enter, CountProcessing, CountFails, Claim, Launch,
                    AskPending, Leave, Wake, LoopDies
<1>4. ASSUME NEW r \in Runners, RunStep(r) PROVE FALSE
  BY <1>1, <1>4 DEF RunStep, ReadStatus, Register, ExecReturns, ExecThrows, TryFails,
                    Complete, Requeue, Stop, Fail, Finish, CatchFails
<1>5. ASSUME NEW a \in Admins, AdminStep(a) PROVE FALSE
  BY <1>1, <1>5 DEF AdminStep, PurgeStep, MineStep, CancelAllStart, CancelAllEnd,
                    PurgeStart, PurgeCancels, PurgeRead, PurgeRow, PurgeFail, PurgeAll,
                    PurgeFails, PurgeEnd, MineSelect, MineUpdate, MineAbort, MineFail,
                    MineDelete
<1>6. ~Pause /\ ~Resume /\ ~DispatchEntryHooks /\ ~Crash
  BY DEF Pause, Resume, DispatchEntryHooks, Crash, Request
<1>7. ~SweepStep
  BY <1>1 DEF SweepStep, SweepStart, SweepCeiling, SweepChat, SweepRequeue
<1>8. \A j \in Jobs : ~CancelWrite(j) /\ ~DeleteRow(j)
  BY DEF CancelWrite, DeleteRow, Request
<1> QED
  BY <1>2, <1>3, <1>4, <1>5, <1>6, <1>7, <1>8 DEF Next, CancelStep

(* A dead process stays empty until it boots.                              *)
LEMMA DownStep ==
    ASSUME TypeOK, DownIsEmpty, [Next]_vars
    PROVE  DownIsEmpty'
<1> SUFFICES ASSUME ~up' PROVE DownIsEmpty'
  BY DEF DownIsEmpty
<1>0. RunTypes /\ RequestTypes
  BY DEF TypeOK
<1>1. CASE up
  <2>1. Crash
    BY <1>1, UpChanges DEF Boot
  <2>2. \A l \in Loops : loop'[l].pc = "off" /\ loop'[l].todo = {}
    BY <2>1 DEF Crash, LoopOff
  <2>3. \A r \in Runners : run'[r].job = None
    BY <2>1 DEF Crash, Idle
  <2>4. \A j \in Jobs : adding'[j] \in {"idle", "done"}
    BY <2>1 DEF Crash
  <2>5. \A a \in Admins : admin'[a].pc \in {"idle", "done"}
    BY <2>1 DEF Crash, AdminIdle
  <2>6. reaper'.pc = "idle"
    BY <2>1 DEF Crash, ReaperIdle
  <2> QED
    BY <2>2, <2>3, <2>4, <2>5, <2>6 DEF DownIsEmpty
<1>2. CASE ~up
  <2>1. ~Boot
    BY DEF Boot
  <2>2. ASSUME NEW j \in Jobs, CancelAbort(j) PROVE DownIsEmpty'
    <3>1. \A r \in Runners : run'[r].job = run[r].job
      BY <1>0, <2>2, AbortType DEF CancelAbort
    <3> QED
      BY <1>2, <2>2, <3>1 DEF CancelAbort, DownIsEmpty
  <2>3. ASSUME NEW j \in Jobs, CancelFails(j) \/ Age(j) PROVE DownIsEmpty'
    BY <1>2, <2>3 DEF CancelFails, Age, DownIsEmpty
  <2>4. ASSUME UNCHANGED vars PROVE DownIsEmpty'
    BY <1>2, <2>4 DEF vars, flags, DownIsEmpty
  <2> QED
    BY <1>2, <2>1, <2>2, <2>3, <2>4, DownActions
<1> QED
  BY <1>1, <1>2

(* CalmActions, from the inductive invariant.                              *)
LEMMA SpecialActions ==
    ASSUME OwnershipInv, [Next]_vars
    PROVE  \/ Calm
           \/ \E j \in Jobs : Insert(j) \/ Age(j)
           \/ \E l \in Loops : Claim(l) \/ Launch(l)
           \/ \E r \in Runners : ReadStatus(r) \/ Register(r) \/ Requeue(r)
                                  \/ Finish(r) \/ CatchFails(r)
           \/ SweepStart \/ SweepRequeue \/ Crash \/ Boot
  BY CalmActions DEF OwnershipInv, Ownership

(* Every step keeps the ownership of jobs.                                 *)
LEMMA OwnershipStep ==
    ASSUME OwnershipInv, [Next]_vars
    PROVE  Ownership'
<1> USE DEF OwnershipInv
<1>1. ASSUME NEW j \in Jobs, Insert(j) \/ Age(j) PROVE Ownership'
  BY <1>1, InsertKeepsOwnership, AgeKeepsOwnership
<1>2. ASSUME NEW l \in Loops, Claim(l) \/ Launch(l) PROVE Ownership'
  BY <1>2, ClaimKeepsOwnership, LaunchKeepsOwnership
<1>3. ASSUME NEW r \in Runners, ReadStatus(r) \/ Register(r) \/ Requeue(r)
      PROVE  Ownership'
  BY <1>3, ReadStatusKeepsOwnership, RegisterKeepsOwnership, RequeueKeepsOwnership
<1>4. ASSUME NEW r \in Runners, Finish(r) \/ CatchFails(r) PROVE Ownership'
  BY <1>4, FinishKeepsOwnership
<1>5. CASE SweepStart \/ SweepRequeue
  BY <1>5, SweepStartKeepsOwnership, SweepRequeueKeepsOwnership
<1>6. CASE Crash \/ Boot
  BY <1>6, CrashKeepsOwnership, BootKeepsOwnership
<1>7. CASE Calm
  BY <1>7, CalmKeepsOwnership
<1> QED
  BY <1>1, <1>2, <1>3, <1>4, <1>5, <1>6, <1>7, SpecialActions

(* Every step keeps the requeue for runners with a retry left.             *)
LEMMA RequeuerStep ==
    ASSUME OwnershipInv, [Next]_vars
    PROVE  RequeuerMayRetry'
<1>0. RequeuerMayRetry /\ RunTypes /\ LoopTypes
  BY DEF OwnershipInv, TypeOK
<1>1. ASSUME NEW j \in Jobs, Insert(j) \/ Age(j) PROVE RequeuerMayRetry'
  BY <1>0, <1>1 DEF Insert, Age, RequeuerMayRetry
<1>2. ASSUME NEW l \in Loops, Claim(l) PROVE RequeuerMayRetry'
  BY <1>0, <1>2 DEF Claim, RequeuerMayRetry
<1>3. ASSUME NEW l \in Loops, Launch(l) PROVE RequeuerMayRetry'
  <2>1. PICK j \in loop[l].todo, r \in Runners :
          run' = [run EXCEPT ![r] = [Idle EXCEPT !.pc = "read", !.job = j,
                                     !.loop = l, !.retry = retried[j]]]
    BY <1>3 DEF Launch
  <2>2. run'[r].pc = "read" /\ \A s \in Runners : s # r => run'[s] = run[s]
    BY <1>0, <2>1 DEF RunTypes, Idle
  <2> QED
    BY <1>0, <2>2 DEF RequeuerMayRetry
<1>4. ASSUME NEW r \in Runners, NEW p \in {"register", "skip", "exec", "tail"},
             run[r].pc # "idle", run' = [run EXCEPT ![r].pc = p]
      PROVE  RequeuerMayRetry'
  <2>1. p \in RunPcs /\ p # "idle" /\ p # "requeue"
    BY DEF RunPcs
  <2>2. \A s \in Runners : /\ run'[s].job = run[s].job
                           /\ run'[s].retry = run[s].retry
                           /\ run'[s].pc = IF s = r THEN p ELSE run[s].pc
    BY <1>0, <1>4, <2>1, RunUpdate
  <2> QED
    BY <1>0, <2>1, <2>2 DEF RequeuerMayRetry
<1>5. ASSUME NEW r \in Runners, ReadStatus(r) \/ Register(r) \/ Requeue(r)
      PROVE  RequeuerMayRetry'
  BY <1>4, <1>5 DEF ReadStatus, Register, Requeue
<1>6. ASSUME NEW r \in Runners, Finish(r) \/ CatchFails(r) PROVE RequeuerMayRetry'
  <2>1. run[r].pc # "idle" /\ Unregister(r)
    BY <1>6 DEF Finish, CatchFails
  <2>2. run'[r].pc = "idle" /\ \A s \in Runners : s # r => run'[s] = run[s]
    BY <1>0, <2>1, UnregisterType DEF RunTypes, Idle
  <2> QED
    BY <1>0, <2>2 DEF RequeuerMayRetry
<1>7. CASE SweepStart \/ SweepRequeue \/ Boot
  BY <1>0, <1>7 DEF SweepStart, SweepRequeue, Boot, RequeuerMayRetry
<1>8. CASE Crash
  BY <1>8 DEF Crash, Idle, RequeuerMayRetry
<1>9. CASE Calm
  BY <1>0, <1>9 DEF Calm, RunsGoOn, RequeuerMayRetry
<1> QED
  BY <1>1, <1>2, <1>3, <1>5, <1>6, <1>7, <1>8, <1>9, SpecialActions

(* Every step keeps the retries of a job within their maximum.             *)
LEMMA RetriesStep ==
    ASSUME OwnershipInv, [Next]_vars
    PROVE  RetriesKept'
<1>0. RetriesKept /\ RequeuerMayRetry /\ RowTypes /\ RunTypes
  BY DEF OwnershipInv, TypeOK
<1>1. CASE retried' = retried
  BY <1>0, <1>1 DEF RetriesKept
<1>2. ASSUME NEW r \in Runners, Requeue(r) PROVE RetriesKept'
  <2>1. PICK k \in Jobs : k = run[r].job
    BY <1>0, <1>2 DEF Requeue, RunTypes
  <2>2. run[r].retry + 1 <= RetryMax[k]
    BY <1>0, <1>2, <2>1, JobsAssumption DEF Requeue, RequeuerMayRetry, RunTypes, RunStates
  <2>3. retried' = [retried EXCEPT ![k] = run[r].retry + 1]
    BY <1>2, <2>1 DEF Requeue
  <2> QED
    BY <1>0, <2>2, <2>3 DEF RetriesKept, RowTypes
<1>3. ASSUME NEW j \in Jobs, Insert(j) \/ Age(j) PROVE retried' = retried
  BY <1>3 DEF Insert, Age
<1>4. ASSUME NEW l \in Loops, Claim(l) \/ Launch(l) PROVE retried' = retried
  BY <1>4 DEF Claim, Launch, rows
<1>5. ASSUME NEW r \in Runners, ReadStatus(r) \/ Register(r) \/ Finish(r) \/ CatchFails(r)
      PROVE  retried' = retried
  BY <1>5 DEF ReadStatus, Register, Finish, CatchFails, rows
<1>6. ASSUME SweepStart \/ SweepRequeue \/ Crash \/ Boot PROVE retried' = retried
  BY <1>6 DEF SweepStart, SweepRequeue, Crash, Boot, rows
<1>7. ASSUME Calm PROVE retried' = retried
  BY <1>7 DEF Calm
<1> QED
  BY <1>1, <1>2, <1>3, <1>4, <1>5, <1>6, <1>7, SpecialActions

(* A row appears only by the insert of its addJob call.                    *)
LEMMA AbsentStays ==
    ASSUME NotYetInserted, AddsGoOn,
           \A j \in Jobs : status[j] = "absent" => status'[j] = "absent"
    PROVE  NotYetInserted'
  BY DEF NotYetInserted, AddsGoOn

(* Every step keeps rows absent until their addJob call inserts them.      *)
LEMMA NotYetInsertedStep ==
    ASSUME OwnershipInv, [Next]_vars
    PROVE  NotYetInserted'
<1>0. /\ NotYetInserted /\ RowTypes /\ RunTypes /\ RequestTypes
      /\ \A j \in Jobs : stale[j] => status[j] = "processing"
  BY DEF OwnershipInv, TypeOK, Ownership, StaleIsProcessing
<1>1. ASSUME NEW j \in Jobs, Insert(j) PROVE NotYetInserted'
  BY <1>0, <1>1 DEF Insert, NotYetInserted, RowTypes, RequestTypes
<1>2. ASSUME NEW j \in Jobs, Age(j) PROVE NotYetInserted'
  BY <1>0, <1>2 DEF Age, NotYetInserted
<1>3. ASSUME NEW l \in Loops, Claim(l) PROVE NotYetInserted'
  BY <1>0, <1>3 DEF Claim, SetAll, NotYetInserted
<1>4. ASSUME NEW l \in Loops, Launch(l) PROVE NotYetInserted'
  BY <1>0, <1>4 DEF Launch, rows, NotYetInserted
<1>5. ASSUME NEW r \in Runners, ReadStatus(r) \/ Register(r) \/ Finish(r) \/ CatchFails(r)
      PROVE  NotYetInserted'
  BY <1>0, <1>5 DEF ReadStatus, Register, Finish, CatchFails, rows, NotYetInserted
<1>6. ASSUME NEW r \in Runners, Requeue(r) PROVE NotYetInserted'
  BY <1>0, <1>6 DEF Requeue, SetStatus, Exists, RowTypes, NotYetInserted
<1>7. CASE SweepStart
  BY <1>0, <1>7 DEF SweepStart, rows, NotYetInserted
<1>8. CASE SweepRequeue
  <2>1. \A j \in Jobs : status[j] = "absent" => status'[j] = "absent"
    BY <1>0, <1>8 DEF SweepRequeue, RequeueRows, SetAll, Stranded
  <2> QED
    BY <1>0, <1>8, <2>1, AbsentStays DEF SweepRequeue, AddsGoOn
<1>9. CASE Boot
  <2>1. \A j \in Jobs : status[j] = "absent" => status'[j] = "absent"
    BY <1>0, <1>9 DEF Boot, Stranded
  <2> QED
    BY <1>0, <1>9, <2>1, AbsentStays DEF Boot, AddsGoOn
<1>10. CASE Crash
  BY <1>0, <1>10 DEF Crash, rows, NotYetInserted
<1>11. CASE Calm
  <2>1. \A j \in Jobs : status[j] = "absent" => status'[j] = "absent"
    BY <1>11 DEF Calm, RowsEnd
  <2> QED
    BY <1>0, <1>11, <2>1, AbsentStays DEF Calm
<1> QED
  BY <1>1, <1>2, <1>3, <1>4, <1>5, <1>6, <1>7, <1>8, <1>9, <1>10, <1>11, SpecialActions

(* The inductive invariant holds initially.                                *)
LEMMA OwnershipInit == Init => OwnershipInv
<1> SUFFICES ASSUME Init PROVE OwnershipInv
  OBVIOUS
<1>1. TypeOK
  BY TypeInit
<1>2. /\ \A l \in Loops, j \in Jobs : ~Claimed(l, j)
      /\ \A r \in Runners, j \in Jobs : ~Owns(r, j)
      /\ \A r \in Runners : run[r].pc = "idle"
  BY NoneAssumption DEF Init, LoopOff, Idle, Claimed, Owns
<1>3. RequeuerMayRetry /\ RetriesKept /\ NotYetInserted /\ DownIsEmpty
  BY <1>2, JobsAssumption DEF Init, RequeuerMayRetry, RetriesKept, NotYetInserted, DownIsEmpty
<1>4. StaleIsProcessing /\ ControllerOwned
  BY NoneAssumption DEF Init, StaleIsProcessing, ControllerOwned
<1>5. OneOwner /\ UnclaimedIsFree /\ SkipIsEnded /\ ExecutorRegistered /\ StaleIsLive
  BY <1>2 DEF Init, OneOwner, UnclaimedIsFree, SkipIsEnded, ExecutorRegistered,
              Executing, StaleIsLive
<1> QED
  BY <1>1, <1>3, <1>4, <1>5 DEF OwnershipInv, Ownership

(* The inductive invariant: until its first executor-level retry a job     *)
(* belongs at any moment to at most one loop or runner, a pending row to   *)
(* none, an executing runner is the one registered, and a stale row that   *)
(* has a runner is among the live ids of the sweep under way.              *)
THEOREM OwnershipCorrect == Spec => []OwnershipInv
<1>1. OwnershipInv /\ [Next]_vars => OwnershipInv'
  <2> SUFFICES ASSUME OwnershipInv, [Next]_vars PROVE OwnershipInv'
    OBVIOUS
  <2>1. TypeOK' /\ DownIsEmpty'
    BY TypeStep, DownStep DEF OwnershipInv
  <2>2. RequeuerMayRetry' /\ RetriesKept' /\ NotYetInserted' /\ Ownership'
    BY RequeuerStep, RetriesStep, NotYetInsertedStep, OwnershipStep
  <2> QED
    BY <2>1, <2>2 DEF OwnershipInv
<1> QED
  BY <1>1, OwnershipInit, PTL DEF Spec

(* Until its first executor-level retry no job is executed by two runners  *)
(* at once, whatever crashes, sweeps, cancels, pauses and purges do        *)
(* (runJob and runQueueReaper).                                            *)
THEOREM ExclusiveCorrect == Spec => []ExclusiveExecution
<1>1. OwnershipInv => ExclusiveExecution
  BY DEF OwnershipInv, Ownership, OneOwner, ExclusiveExecution, Once, Owns
<1> QED
  BY <1>1, OwnershipCorrect, PTL

(* A job that was completed, failed or cancelled is never queued or        *)
(* claimed again, and a deleted row never comes back: cancelJob, the       *)
(* purges, the sweeps and late runners write the same rows.                *)
THEOREM NoResurrectionCorrect == Spec => NoResurrection
<1> DEFINE Kept == \A j \in Jobs :
                      /\ RetryMax[j] = 0 /\ status[j] \in Terminal
                            => status'[j] \in Terminal \cup {"gone"}
                      /\ status[j] = "gone" => status'[j] = "gone"
<1>1. ASSUME OwnershipInv, [Next]_vars PROVE [Kept]_vars
  <2>0. /\ RowTypes /\ RunTypes /\ NotYetInserted /\ RequeuerMayRetry
        /\ \A j \in Jobs : stale[j] => status[j] = "processing"
    BY <1>1 DEF OwnershipInv, TypeOK, Ownership, StaleIsProcessing
  <2>1. CASE status' = status
    BY <2>1
  <2>2. ASSUME NEW j \in Jobs, Insert(j) PROVE Kept
    BY <2>0, <2>2 DEF Insert, NotYetInserted, RowTypes, Terminal
  <2>3. ASSUME NEW l \in Loops, Claim(l) PROVE Kept
    BY <2>0, <2>3 DEF Claim, SetAll, Terminal
  <2>4. ASSUME NEW r \in Runners, Requeue(r) PROVE Kept
    <3>1. run[r].job \in Jobs /\ RetryMax[run[r].job] # 0
      BY <2>0, <2>4 DEF Requeue, RequeuerMayRetry, RunTypes, RunStates
    <3> QED
      BY <2>0, <2>4, <3>1 DEF Requeue, SetStatus, Exists, RowTypes
  <2>5. CASE SweepRequeue
    BY <2>0, <2>5 DEF SweepRequeue, RequeueRows, SetAll, Stranded, Terminal
  <2>6. CASE Boot
    BY <2>0, <2>6 DEF Boot, Stranded, Terminal
  <2>7. CASE Calm
    BY <2>7 DEF Calm, RowsEnd, Ended
  <2>8. ASSUME NEW j \in Jobs, Age(j) PROVE status' = status
    BY <2>8 DEF Age
  <2>9. ASSUME NEW l \in Loops, Launch(l) PROVE status' = status
    BY <2>9 DEF Launch, rows
  <2>10. ASSUME NEW r \in Runners, ReadStatus(r) \/ Register(r) \/ Finish(r) \/ CatchFails(r)
         PROVE  status' = status
    BY <2>10 DEF ReadStatus, Register, Finish, CatchFails, rows
  <2>11. ASSUME SweepStart \/ Crash PROVE status' = status
    BY <2>11 DEF SweepStart, Crash, rows
  <2> QED
    BY <1>1, <2>1, <2>2, <2>3, <2>4, <2>5, <2>6, <2>7, <2>8, <2>9, <2>10, <2>11,
       SpecialActions
<1>2. OwnershipInv /\ [Next]_vars => [Kept]_vars
  BY <1>1
<1> QED
  BY <1>2, OwnershipCorrect, PTL DEF Spec, NoResurrection
=============================================================================

--------------------------- MODULE JobQueueProofs ---------------------------
(***************************************************************************)
(* Type correctness of the job queue, for every value of its constants.    *)
(* The proof of TypeStep takes the actions one by one; TypeOK is the       *)
(* conjunction of five parts and most actions touch two of them.           *)
(***************************************************************************)
EXTENDS JobQueue, FiniteSetTheorems, TLAPS

(* A loop keeps its type when only its step changes.                       *)
LEMMA LoopPcType ==
    ASSUME NEW x \in LoopStates, NEW p \in LoopPcs
    PROVE  [x EXCEPT !.pc = p] \in LoopStates
  BY DEF LoopStates

(* The loop states that the steps build are well typed.                    *)
LEMMA LoopStatesNamed ==
    /\ LoopOff \in LoopStates
    /\ \A i \in 1..Len(ClassOrder), slots \in Nat, todo \in SUBSET Jobs, p \in LoopPcs :
          /\ [LoopOff EXCEPT !.pc = p, !.class = i] \in LoopStates
          /\ [LoopOff EXCEPT !.pc = p, !.class = i, !.slots = slots] \in LoopStates
          /\ [LoopOff EXCEPT !.pc = p, !.class = i, !.todo = todo] \in LoopStates
<1>1. Len(ClassOrder) \in Nat /\ 1 \in 1..Len(ClassOrder)
  BY ClassAssumption
<1>2. LoopOff \in [pc : LoopPcs, class : 1..Len(ClassOrder), slots : Nat, todo : SUBSET Jobs]
  BY <1>1 DEF LoopOff, LoopPcs
<1> QED
  BY <1>2 DEF LoopStates, LoopOff

(* Going on to the next class gives a well-typed loop.                     *)
LEMMA NextClassType ==
    ASSUME NEW i \in 1..Len(ClassOrder), NEW S
    PROVE  NextClass(i, S) \in LoopStates
<1>1. Len(ClassOrder) \in Nat
  BY ClassAssumption
<1>2. CASE i < Len(ClassOrder)
  <2>1. i + 1 \in 1..Len(ClassOrder)
    BY <1>1, <1>2
  <2>2. "count" \in LoopPcs
    BY DEF LoopPcs
  <2> QED
    BY <1>2, <2>1, <2>2, LoopStatesNamed DEF NextClass
<1>3. CASE ~(i < Len(ClassOrder))
  <2>1. (IF S = {} THEN "more" ELSE "wait") \in LoopPcs
    BY DEF LoopPcs
  <2> QED
    BY <1>3, <2>1, LoopStatesNamed, LoopPcType DEF NextClass
<1> QED
  BY <1>2, <1>3

(* So does the test at the top of the loop.                                *)
LEMMA AtTopType == \A l \in Loops : AtTop(l) \in LoopStates
<1>1. "count" \in LoopPcs
  BY DEF LoopPcs
<1> QED
  BY <1>1, LoopStatesNamed, LoopPcType DEF AtTop

(* A purge is aimed at jobs.                                               *)
LEMMA TargetsAreJobs == \A target \in Targets : target \subseteq Jobs
  BY JobsAssumption DEF Targets

(* Replacing one loop by a well-typed one keeps every loop well typed.     *)
LEMMA LoopUpdate ==
    ASSUME LoopTypes, NEW l \in Loops, NEW x \in LoopStates,
           loop' = [loop EXCEPT ![l] = x]
    PROVE  LoopTypes'
  BY DEF LoopTypes

(* ResumeLoop, the loop and its finally block, keeps the types.            *)
LEMMA ResumeLoopType ==
    ASSUME LoopTypes, NEW l \in Loops, NEW x \in LoopStates, ResumeLoop(l, x)
    PROVE  LoopTypes' /\ isProcessing' \in BOOLEAN
  BY LoopUpdate DEF ResumeLoop

(* Moving one loop to another step keeps every loop well typed.            *)
LEMMA StartingType ==
    ASSUME LoopTypes, NEW l \in Loops, NEW p \in LoopPcs,
           loop' = [loop EXCEPT ![l].pc = p]
    PROVE  LoopTypes'
<1>1. [loop[l] EXCEPT !.pc = p] \in LoopStates
  BY LoopPcType DEF LoopTypes
<1> QED
  BY <1>1 DEF LoopTypes

(* Moving one runner to another step changes nothing else about runners.   *)
LEMMA RunUpdate ==
    ASSUME RunTypes, NEW r \in Runners, NEW p \in RunPcs,
           run[r].pc # "idle", p # "idle",
           run' = [run EXCEPT ![r].pc = p]
    PROVE  /\ run' \in [Runners -> RunStates]
           /\ \A s \in Runners : /\ run'[s].job = run[s].job
                                 /\ run'[s].loop = run[s].loop
                                 /\ run'[s].retry = run[s].retry
                                 /\ run'[s].aborted = run[s].aborted
                                 /\ run'[s].pc = IF s = r THEN p ELSE run[s].pc
           /\ controllers' \in [Jobs -> Runners \cup {None}] => RunTypes'
<1>1. [run[r] EXCEPT !.pc = p] \in RunStates
  BY DEF RunTypes, RunStates
<1>2. run' \in [Runners -> RunStates]
  BY <1>1 DEF RunTypes
<1>3. \A s \in Runners : s # r => run'[s] = run[s]
  BY DEF RunTypes
<1>4. run'[r] = [run[r] EXCEPT !.pc = p]
  BY DEF RunTypes
<1>5. /\ run'[r].job = run[r].job
      /\ run'[r].loop = run[r].loop
      /\ run'[r].retry = run[r].retry
      /\ run'[r].aborted = run[r].aborted
      /\ run'[r].pc = p
  BY <1>4 DEF RunTypes, RunStates
<1>6. \A s \in Runners : /\ run'[s].job = run[s].job
                         /\ run'[s].loop = run[s].loop
                         /\ run'[s].retry = run[s].retry
                         /\ run'[s].aborted = run[s].aborted
                         /\ run'[s].pc = IF s = r THEN p ELSE run[s].pc
  BY <1>3, <1>5
<1> QED
  BY <1>2, <1>6 DEF RunTypes

(* The catch block of runJob goes to one of three steps.                   *)
LEMMA CatchToType ==
    ASSUME NEW r, NEW err
    PROVE  CatchTo(r, err) \in {"requeue", "stop", "fail"}
  BY DEF CatchTo

(* An abort only raises the aborted flag of runners.                       *)
LEMMA AbortType ==
    ASSUME RunTypes, NEW S \in SUBSET Jobs, Abort(S), UNCHANGED controllers
    PROVE  /\ RunTypes'
           /\ \A s \in Runners : /\ run'[s].job = run[s].job
                                 /\ run'[s].loop = run[s].loop
                                 /\ run'[s].retry = run[s].retry
                                 /\ run'[s].pc = run[s].pc
<1>1. \A s \in Runners : \/ run'[s] = run[s]
                         \/ run'[s] = [run[s] EXCEPT !.aborted = TRUE]
  BY DEF Abort, RunTypes
<1>2. \A s \in Runners : /\ run'[s] \in RunStates
                         /\ run'[s].job = run[s].job
                         /\ run'[s].loop = run[s].loop
                         /\ run'[s].retry = run[s].retry
                         /\ run'[s].pc = run[s].pc
  <2> TAKE s \in Runners
  <2>1. run[s] \in RunStates
    BY DEF RunTypes
  <2>2. CASE run'[s] = run[s]
    BY <2>1, <2>2
  <2>3. CASE run'[s] = [run[s] EXCEPT !.aborted = TRUE]
    BY <2>1, <2>3 DEF RunStates
  <2> QED
    BY <1>1, <2>2, <2>3
<1>3. run' = [s \in Runners |-> run'[s]]
  BY DEF Abort
<1>4. run' \in [Runners -> RunStates]
  BY <1>2, <1>3
<1> QED
  BY <1>2, <1>4 DEF RunTypes

(* The finally block of runJob keeps the types and frees the runner.       *)
LEMMA UnregisterType ==
    ASSUME RunTypes, NEW r \in Runners, run[r].pc # "idle", Unregister(r)
    PROVE  /\ RunTypes'
           /\ run' = [run EXCEPT ![r] = Idle]
<1>1. Idle \in RunStates /\ Idle.pc = "idle" /\ Idle.job = None
  BY DEF Idle, RunStates, RunPcs
<1>2. run' = [run EXCEPT ![r] = Idle]
  BY DEF Unregister
<1>3. run' \in [Runners -> RunStates]
  BY <1>1, <1>2 DEF RunTypes
<1>4. controllers' \in [Jobs -> Runners \cup {None}]
  BY DEF Unregister, RunTypes
<1>5. \A s \in Runners : IF run'[s].pc = "idle" THEN run'[s].job = None
                         ELSE run'[s].job \in Jobs /\ run'[s].loop \in Loops
  BY <1>1, <1>2 DEF RunTypes
<1> QED
  BY <1>2, <1>3, <1>4, <1>5 DEF RunTypes

(* The number of processing rows of a class is a natural number.           *)
LEMMA ProcessingCount == \A c : Cardinality(ProcessingIn(c)) \in Nat
<1> TAKE c
<1>1. ProcessingIn(c) \subseteq Jobs
  BY DEF ProcessingIn
<1>2. IsFiniteSet(ProcessingIn(c))
  BY <1>1, FS_Subset, JobsAssumption
<1> QED
  BY <1>2, FS_CardinalityType

(* Computing the free slots of a class keeps the loops well typed.         *)
LEMMA CountedType ==
    ASSUME LoopTypes, NEW l \in Loops, NEW n \in Nat, Counted(l, n)
    PROVE  LoopTypes'
<1> DEFINE i == loop[l].class
           slots == Slots(Limit[ClassOrder[i]], n)
<1>1. i \in 1..Len(ClassOrder) /\ "claim" \in LoopPcs
  BY DEF LoopTypes, LoopStates, LoopPcs
<1>2. Limit[ClassOrder[i]] \in Nat
  BY <1>1, ClassAssumption
<1>3. slots \in Nat
  BY <1>2 DEF Slots
<1>4. NextClass(i, InFlight(l)) \in LoopStates
  BY <1>1, NextClassType
<1>5. [LoopOff EXCEPT !.pc = "claim", !.class = i, !.slots = slots] \in LoopStates
  BY <1>1, <1>3, LoopStatesNamed
<1> QED
  BY <1>4, <1>5, LoopUpdate DEF Counted

(* Every step of the job queue keeps every variable in its type.           *)
LEMMA TypeStep == TypeOK /\ [Next]_vars => TypeOK'
<1> SUFFICES ASSUME TypeOK, [Next]_vars PROVE TypeOK'
  OBVIOUS
<1>0. RowTypes /\ LoopTypes /\ RunTypes /\ RequestTypes /\ ScalarTypes
  BY DEF TypeOK
<1> USE <1>0
<1>1. ASSUME NEW j \in Jobs, Admit(j) PROVE TypeOK'
  <2>1. RowTypes' /\ LoopTypes' /\ RunTypes' /\ ScalarTypes'
    BY <1>1 DEF Admit, RowTypes, LoopTypes, RunTypes, ScalarTypes, rows, flags, bounds, history
  <2>2. RequestTypes'
    BY <1>1 DEF Admit, RequestTypes, AdminPcs, AdminIdle, ReaperIdle
  <2> QED
    BY <2>1, <2>2 DEF TypeOK
<1>2. ASSUME NEW j \in Jobs, Insert(j) PROVE TypeOK'
  <2>1. LoopTypes' /\ RunTypes' /\ ScalarTypes'
    BY <1>2 DEF Insert, LoopTypes, RunTypes, ScalarTypes, flags, bounds, history
  <2>2. RowTypes'
    BY <1>2 DEF Insert, RowTypes, Statuses, rows
  <2>3. RequestTypes'
    BY <1>2 DEF Insert, RequestTypes, AdminPcs, AdminIdle, ReaperIdle
  <2> QED
    BY <2>1, <2>2, <2>3 DEF TypeOK
<1>3. ASSUME NEW j \in Jobs, Kick(j) PROVE TypeOK'
  <2>1. RowTypes' /\ RunTypes' /\ ScalarTypes'
    BY <1>3 DEF Kick, RowTypes, RunTypes, ScalarTypes, rows, flags, bounds, history
  <2>2. LoopTypes'
    <3>1. "starting" \in LoopPcs
      BY DEF LoopPcs
    <3> QED
      BY <1>3, <3>1, StartingType DEF Kick, ProcessJobs, LoopTypes
  <2>3. RequestTypes'
    BY <1>3 DEF Kick, RequestTypes, AdminPcs, AdminIdle, ReaperIdle
  <2> QED
    BY <2>1, <2>2, <2>3 DEF TypeOK
<1>4. ASSUME NEW j \in Jobs, KickLost(j) PROVE TypeOK'
  <2>1. RowTypes' /\ LoopTypes' /\ RunTypes'
    BY <1>4 DEF KickLost, RowTypes, LoopTypes, RunTypes, rows
  <2>2. RequestTypes'
    BY <1>4 DEF KickLost, RequestTypes, AdminPcs, AdminIdle, ReaperIdle
  <2>3. ScalarTypes'
    BY <1>4 DEF KickLost, ScalarTypes, flags, bounds, history
  <2> QED
    BY <2>1, <2>2, <2>3 DEF TypeOK
<1>5. ASSUME NEW j \in Jobs, CancelWrite(j) PROVE TypeOK'
  <2>1. LoopTypes' /\ RunTypes'
    BY <1>5 DEF CancelWrite, LoopTypes, RunTypes
  <2>2. RowTypes'
    BY <1>5 DEF CancelWrite, RowTypes, Statuses, rows, SetStatus
  <2>3. RequestTypes'
    BY <1>5 DEF CancelWrite, RequestTypes, AdminPcs, AdminIdle, ReaperIdle
  <2>4. ScalarTypes'
    BY <1>5 DEF CancelWrite, ScalarTypes, flags, bounds, history, Request
  <2> QED
    BY <2>1, <2>2, <2>3, <2>4 DEF TypeOK
<1>6. ASSUME NEW j \in Jobs, CancelAbort(j) PROVE TypeOK'
  <2>1. RowTypes' /\ LoopTypes' /\ ScalarTypes'
    BY <1>6 DEF CancelAbort, RowTypes, LoopTypes, ScalarTypes, rows, flags, bounds, history
  <2>2. RunTypes'
    BY <1>6, AbortType DEF CancelAbort
  <2>3. RequestTypes'
    BY <1>6 DEF CancelAbort, RequestTypes, AdminPcs, AdminIdle, ReaperIdle
  <2> QED
    BY <2>1, <2>2, <2>3 DEF TypeOK
<1>7. ASSUME NEW j \in Jobs, CancelFails(j) PROVE TypeOK'
  <2>1. RowTypes' /\ LoopTypes' /\ RunTypes'
    BY <1>7 DEF CancelFails, RowTypes, LoopTypes, RunTypes, rows
  <2>2. RequestTypes'
    BY <1>7 DEF CancelFails, RequestTypes, AdminPcs, AdminIdle, ReaperIdle
  <2>3. ScalarTypes'
    BY <1>7 DEF CancelFails, ScalarTypes, flags, bounds, history
  <2> QED
    BY <2>1, <2>2, <2>3 DEF TypeOK
<1>8. ASSUME NEW j \in Jobs, DeleteRow(j) PROVE TypeOK'
  <2>1. LoopTypes' /\ RunTypes' /\ RequestTypes'
    BY <1>8 DEF DeleteRow, LoopTypes, RunTypes, RequestTypes
  <2>2. RowTypes'
    BY <1>8 DEF DeleteRow, RowTypes, Statuses, rows, SetStatus
  <2>3. ScalarTypes'
    BY <1>8 DEF DeleteRow, ScalarTypes, flags, bounds, history, Request
  <2> QED
    BY <2>1, <2>2, <2>3 DEF TypeOK
<1>9. ASSUME NEW j \in Jobs, Age(j) PROVE TypeOK'
  <2>1. LoopTypes' /\ RunTypes' /\ RequestTypes' /\ ScalarTypes'
    BY <1>9 DEF Age, LoopTypes, RunTypes, RequestTypes, ScalarTypes, flags, bounds, history
  <2>2. RowTypes'
    BY <1>9 DEF Age, RowTypes, Statuses, rows
  <2> QED
    BY <2>1, <2>2 DEF TypeOK
<1>10. ASSUME NEW l \in Loops, Enter(l) PROVE TypeOK'
  <2>1. RowTypes' /\ RunTypes' /\ RequestTypes'
    BY <1>10 DEF Enter, RowTypes, RunTypes, RequestTypes, rows
  <2>2. LoopTypes'
    BY <1>10, AtTopType, LoopUpdate DEF Enter
  <2>3. ScalarTypes'
    BY <1>10 DEF Enter, ScalarTypes, flags, bounds, history
  <2> QED
    BY <2>1, <2>2, <2>3 DEF TypeOK
<1>11. ASSUME NEW l \in Loops, CountProcessing(l) PROVE TypeOK'
  <2>1. RowTypes' /\ RunTypes' /\ RequestTypes' /\ ScalarTypes'
    BY <1>11 DEF CountProcessing, RowTypes, RunTypes, RequestTypes, ScalarTypes, rows, flags, bounds, history
  <2>2. LoopTypes'
    <3>1. Cardinality(ProcessingIn(ClassOrder[loop[l].class])) \in Nat
      BY ProcessingCount
    <3> QED
      BY <1>11, <3>1, CountedType DEF CountProcessing
  <2> QED
    BY <2>1, <2>2 DEF TypeOK
<1>12. ASSUME NEW l \in Loops, CountFails(l) PROVE TypeOK'
  <2>1. RowTypes' /\ RunTypes' /\ RequestTypes'
    BY <1>12 DEF CountFails, RowTypes, RunTypes, RequestTypes, rows
  <2>2. LoopTypes'
    <3>1. 0 \in Nat
      OBVIOUS
    <3> QED
      BY <1>12, <3>1, CountedType DEF CountFails
  <2>3. ScalarTypes'
    BY <1>12 DEF CountFails, ScalarTypes, flags, bounds, history
  <2> QED
    BY <2>1, <2>2, <2>3 DEF TypeOK
<1>13. ASSUME NEW l \in Loops, Claim(l) PROVE TypeOK'
  <2>1. RunTypes' /\ RequestTypes' /\ ScalarTypes'
    BY <1>13 DEF Claim, RunTypes, RequestTypes, ScalarTypes, flags, bounds, history
  <2>2. RowTypes'
    BY <1>13 DEF Claim, RowTypes, Statuses, rows, SetAll
  <2>3. LoopTypes'
    <3>1. loop[l].class \in 1..Len(ClassOrder) /\ "launch" \in LoopPcs
      BY DEF LoopTypes, LoopStates, LoopPcs
    <3>2. PICK T \in SUBSET Jobs :
              loop' = [loop EXCEPT ![l] =
                IF T = {} THEN NextClass(loop[l].class, InFlight(l))
                ELSE [LoopOff EXCEPT !.pc = "launch", !.class = loop[l].class, !.todo = T]]
      BY <1>13 DEF Claim
    <3>3. NextClass(loop[l].class, InFlight(l)) \in LoopStates
      BY <3>1, NextClassType
    <3>4. [LoopOff EXCEPT !.pc = "launch", !.class = loop[l].class, !.todo = T] \in LoopStates
      BY <3>1, LoopStatesNamed
    <3> QED
      BY <3>2, <3>3, <3>4, LoopUpdate
  <2> QED
    BY <2>1, <2>2, <2>3 DEF TypeOK
<1>14. ASSUME NEW l \in Loops, Launch(l) PROVE TypeOK'
  <2>1. RowTypes' /\ RequestTypes' /\ ScalarTypes'
    BY <1>14 DEF Launch, RowTypes, RequestTypes, ScalarTypes, rows, flags, bounds, history
  <2>2. LoopTypes'
    <3>1. loop[l].class \in 1..Len(ClassOrder)
      BY DEF LoopTypes, LoopStates
    <3>2. PICK j \in loop[l].todo, r \in Runners :
              loop' = [loop EXCEPT ![l] =
                IF loop[l].todo \ {j} = {} THEN NextClass(loop[l].class, {r})
                ELSE [loop[l] EXCEPT !.todo = loop[l].todo \ {j}]]
      BY <1>14 DEF Launch, LoopTypes
    <3>3. NextClass(loop[l].class, {r}) \in LoopStates
      BY <3>1, NextClassType
    <3>4. [loop[l] EXCEPT !.todo = loop[l].todo \ {j}] \in LoopStates
      BY DEF LoopTypes, LoopStates
    <3> QED
      BY <3>2, <3>3, <3>4, LoopUpdate
  <2>3. RunTypes'
    <3>1. PICK j \in Jobs, r \in Runners :
              run' = [run EXCEPT ![r] = [Idle EXCEPT !.pc = "read", !.job = j,
                                          !.loop = l, !.retry = retried[j]]]
      BY <1>14 DEF Launch, LoopTypes, LoopStates
    <3> DEFINE new == [Idle EXCEPT !.pc = "read", !.job = j, !.loop = l, !.retry = retried[j]]
    <3>2. /\ new \in RunStates
          /\ new.pc # "idle" /\ new.job \in Jobs /\ new.loop \in Loops
      BY DEF Idle, RunStates, RunPcs, RowTypes
    <3>3. controllers' = controllers
      BY <1>14 DEF Launch
    <3> QED
      BY <3>1, <3>2, <3>3 DEF RunTypes
  <2> QED
    BY <2>1, <2>2, <2>3 DEF TypeOK
<1>15. ASSUME NEW l \in Loops, AskPending(l) PROVE TypeOK'
  <2>1. RowTypes' /\ RunTypes' /\ RequestTypes' /\ ScalarTypes'
    BY <1>15 DEF AskPending, RowTypes, RunTypes, RequestTypes, ScalarTypes, rows, flags, bounds, history
  <2>2. LoopTypes'
    <3>1. (IF \E j \in Jobs : status[j] = "pending" THEN "nap" ELSE "leave") \in LoopPcs
      BY DEF LoopPcs
    <3> QED
      BY <1>15, <3>1, StartingType DEF AskPending
  <2> QED
    BY <2>1, <2>2 DEF TypeOK
<1>16. ASSUME NEW l \in Loops, Leave(l) PROVE TypeOK'
  <2>1. RowTypes' /\ RunTypes' /\ RequestTypes'
    BY <1>16 DEF Leave, RowTypes, RunTypes, RequestTypes, rows
  <2>2. LoopTypes'
    BY <1>16, LoopStatesNamed, ResumeLoopType DEF Leave
  <2>3. ScalarTypes'
    BY <1>16 DEF Leave, ScalarTypes, flags, bounds, history, ResumeLoop
  <2> QED
    BY <2>1, <2>2, <2>3 DEF TypeOK
<1>17. ASSUME NEW l \in Loops, Wake(l) PROVE TypeOK'
  <2>1. RowTypes' /\ RunTypes' /\ RequestTypes'
    BY <1>17 DEF Wake, RowTypes, RunTypes, RequestTypes, rows
  <2>2. LoopTypes'
    BY <1>17, AtTopType, ResumeLoopType DEF Wake
  <2>3. ScalarTypes'
    BY <1>17 DEF Wake, ScalarTypes, flags, bounds, history, ResumeLoop
  <2> QED
    BY <2>1, <2>2, <2>3 DEF TypeOK
<1>18. ASSUME NEW l \in Loops, LoopDies(l) PROVE TypeOK'
  <2>1. RowTypes' /\ RunTypes' /\ RequestTypes'
    BY <1>18 DEF LoopDies, RowTypes, RunTypes, RequestTypes, rows
  <2>2. LoopTypes'
    BY <1>18, LoopStatesNamed, ResumeLoopType DEF LoopDies
  <2>3. ScalarTypes'
    BY <1>18 DEF LoopDies, ScalarTypes, flags, bounds, history, ResumeLoop
  <2> QED
    BY <2>1, <2>2, <2>3 DEF TypeOK
<1>19. ASSUME NEW r \in Runners, ReadStatus(r) PROVE TypeOK'
  <2>1. RowTypes' /\ LoopTypes' /\ RequestTypes' /\ ScalarTypes'
    BY <1>19 DEF ReadStatus, RowTypes, LoopTypes, RequestTypes, ScalarTypes, rows, flags, bounds, history
  <2>2. RunTypes'
    <3>1. (IF status[run[r].job] = "processing" THEN "register" ELSE "skip") \in RunPcs \ {"idle"}
      BY DEF RunPcs
    <3>2. controllers' \in [Jobs -> Runners \cup {None}]
      BY <1>19 DEF ReadStatus, RunTypes
    <3> QED
      BY <1>19, <3>1, <3>2, RunUpdate DEF ReadStatus
  <2> QED
    BY <2>1, <2>2 DEF TypeOK
<1>20. ASSUME NEW r \in Runners, Register(r) PROVE TypeOK'
  <2>1. RowTypes' /\ LoopTypes' /\ RequestTypes'
    BY <1>20 DEF Register, RowTypes, LoopTypes, RequestTypes, rows
  <2>2. RunTypes'
    <3>1. "exec" \in RunPcs \ {"idle"}
      BY DEF RunPcs
    <3>2. controllers' \in [Jobs -> Runners \cup {None}]
      BY <1>20 DEF Register, RunTypes
    <3> QED
      BY <1>20, <3>1, <3>2, RunUpdate DEF Register
  <2>3. ScalarTypes'
    <3>1. run[r].job \in Jobs
      BY <1>20 DEF Register, RunTypes
    <3> QED
      BY <1>20, <3>1 DEF Register, ScalarTypes, flags, bounds
  <2> QED
    BY <2>1, <2>2, <2>3 DEF TypeOK
<1>21. ASSUME NEW r \in Runners, ExecReturns(r) PROVE TypeOK'
  <2>1. RowTypes' /\ LoopTypes' /\ RequestTypes' /\ ScalarTypes'
    BY <1>21 DEF ExecReturns, RowTypes, LoopTypes, RequestTypes, ScalarTypes, rows, flags, bounds, history
  <2>2. RunTypes'
    <3>1. "complete" \in RunPcs \ {"idle"}
      BY DEF RunPcs
    <3>2. controllers' \in [Jobs -> Runners \cup {None}]
      BY <1>21 DEF ExecReturns, RunTypes
    <3> QED
      BY <1>21, <3>1, <3>2, RunUpdate DEF ExecReturns
  <2> QED
    BY <2>1, <2>2 DEF TypeOK
<1>22. ASSUME NEW r \in Runners, NEW err \in Errors, ExecThrows(r, err) PROVE TypeOK'
  <2>1. RowTypes' /\ LoopTypes' /\ RequestTypes' /\ ScalarTypes'
    BY <1>22 DEF ExecThrows, RowTypes, LoopTypes, RequestTypes, ScalarTypes, rows, flags, bounds, history
  <2>2. RunTypes'
    <3>1. CatchTo(r, err) \in RunPcs \ {"idle"}
      BY CatchToType DEF RunPcs
    <3>2. controllers' \in [Jobs -> Runners \cup {None}]
      BY <1>22 DEF ExecThrows, RunTypes
    <3> QED
      BY <1>22, <3>1, <3>2, RunUpdate DEF ExecThrows
  <2> QED
    BY <2>1, <2>2 DEF TypeOK
<1>23. ASSUME NEW r \in Runners, NEW err \in Errors, TryFails(r, err) PROVE TypeOK'
  <2>1. RowTypes' /\ LoopTypes' /\ RequestTypes'
    BY <1>23 DEF TryFails, RowTypes, LoopTypes, RequestTypes, rows
  <2>2. RunTypes'
    <3>1. CatchTo(r, err) \in RunPcs \ {"idle"}
      BY CatchToType DEF RunPcs
    <3>2. controllers' \in [Jobs -> Runners \cup {None}]
      BY <1>23 DEF TryFails, RunTypes
    <3> QED
      BY <1>23, <3>1, <3>2, RunUpdate DEF TryFails
  <2>3. ScalarTypes'
    BY <1>23 DEF TryFails, ScalarTypes, flags, bounds, history
  <2> QED
    BY <2>1, <2>2, <2>3 DEF TypeOK
<1>24. ASSUME NEW r \in Runners, Complete(r) PROVE TypeOK'
  <2>1. LoopTypes' /\ RequestTypes' /\ ScalarTypes'
    BY <1>24 DEF Complete, LoopTypes, RequestTypes, ScalarTypes, flags, bounds, history
  <2>2. RowTypes'
    BY <1>24 DEF Complete, RowTypes, Statuses, rows, SetStatus
  <2>3. RunTypes'
    <3>1. "notify" \in RunPcs \ {"idle"}
      BY DEF RunPcs
    <3>2. controllers' \in [Jobs -> Runners \cup {None}]
      BY <1>24 DEF Complete, RunTypes
    <3> QED
      BY <1>24, <3>1, <3>2, RunUpdate DEF Complete
  <2> QED
    BY <2>1, <2>2, <2>3 DEF TypeOK
<1>25. ASSUME NEW r \in Runners, Requeue(r) PROVE TypeOK'
  <2>1. LoopTypes' /\ RequestTypes' /\ ScalarTypes'
    BY <1>25 DEF Requeue, LoopTypes, RequestTypes, ScalarTypes, flags, bounds, history
  <2>2. RowTypes'
    <3>1. run[r].retry + 1 \in Nat
      BY DEF RunTypes, RunStates
    <3> QED
      BY <1>25, <3>1 DEF Requeue, SetStatus, RowTypes, Statuses
  <2>3. RunTypes'
    <3>1. "tail" \in RunPcs \ {"idle"}
      BY DEF RunPcs
    <3>2. controllers' \in [Jobs -> Runners \cup {None}]
      BY <1>25 DEF Requeue, RunTypes
    <3> QED
      BY <1>25, <3>1, <3>2, RunUpdate DEF Requeue
  <2> QED
    BY <2>1, <2>2, <2>3 DEF TypeOK
<1>26. ASSUME NEW r \in Runners, Stop(r) PROVE TypeOK'
  <2>1. LoopTypes' /\ RequestTypes' /\ ScalarTypes'
    BY <1>26 DEF Stop, LoopTypes, RequestTypes, ScalarTypes, flags, bounds, history
  <2>2. RowTypes'
    BY <1>26 DEF Stop, RowTypes, Statuses, rows, SetStatus
  <2>3. RunTypes'
    <3>1. "tail" \in RunPcs \ {"idle"}
      BY DEF RunPcs
    <3>2. controllers' \in [Jobs -> Runners \cup {None}]
      BY <1>26 DEF Stop, RunTypes
    <3> QED
      BY <1>26, <3>1, <3>2, RunUpdate DEF Stop
  <2> QED
    BY <2>1, <2>2, <2>3 DEF TypeOK
<1>27. ASSUME NEW r \in Runners, Fail(r) PROVE TypeOK'
  <2>1. LoopTypes' /\ RequestTypes' /\ ScalarTypes'
    BY <1>27 DEF Fail, LoopTypes, RequestTypes, ScalarTypes, flags, bounds, history
  <2>2. RowTypes'
    BY <1>27 DEF Fail, RowTypes, Statuses, rows, SetStatus
  <2>3. RunTypes'
    <3>1. "tail" \in RunPcs \ {"idle"}
      BY DEF RunPcs
    <3>2. controllers' \in [Jobs -> Runners \cup {None}]
      BY <1>27 DEF Fail, RunTypes
    <3> QED
      BY <1>27, <3>1, <3>2, RunUpdate DEF Fail
  <2> QED
    BY <2>1, <2>2, <2>3 DEF TypeOK
<1>28. ASSUME NEW r \in Runners, Finish(r) PROVE TypeOK'
  <2>1. RowTypes' /\ LoopTypes' /\ RequestTypes' /\ ScalarTypes'
    BY <1>28 DEF Finish, RowTypes, LoopTypes, RequestTypes, ScalarTypes, rows, flags, bounds, history
  <2>2. RunTypes'
    BY <1>28, UnregisterType DEF Finish
  <2> QED
    BY <2>1, <2>2 DEF TypeOK
<1>29. ASSUME NEW r \in Runners, CatchFails(r) PROVE TypeOK'
  <2>1. RowTypes' /\ RequestTypes'
    BY <1>29 DEF CatchFails, RowTypes, RequestTypes, rows
  <2>2. LoopTypes'
    <3>1. run[r].loop \in Loops
      BY <1>29 DEF CatchFails, RunTypes
    <3> QED
      BY <1>29, <3>1, LoopStatesNamed, ResumeLoopType DEF CatchFails, LoopTypes
  <2>3. RunTypes'
    BY <1>29, UnregisterType DEF CatchFails
  <2>4. ScalarTypes'
    <3>1. run[r].loop \in Loops
      BY <1>29 DEF CatchFails, RunTypes
    <3>2. isProcessing' \in BOOLEAN
      BY <1>29, <3>1, LoopStatesNamed, ResumeLoopType DEF CatchFails, ScalarTypes
    <3>3. /\ faults' = faults + 1
          /\ UNCHANGED <<up, paused, cancelAll, requests, crashes, history>>
      BY <1>29 DEF CatchFails
    <3> QED
      BY <3>2, <3>3 DEF ScalarTypes, history
  <2> QED
    BY <2>1, <2>2, <2>3, <2>4 DEF TypeOK
<1>30. ASSUME NEW a \in Admins, CancelAllStart(a) \/ PurgeCancels(a) PROVE TypeOK'
  <2>0. PICK next \in AdminPcs : CancelAll(a, next)
    BY <1>30 DEF CancelAllStart, PurgeCancels, AdminPcs
  <2>1. RowTypes' /\ LoopTypes'
    BY <2>0 DEF CancelAll, RowTypes, LoopTypes, rows
  <2>2. RunTypes'
    BY <2>0, AbortType DEF CancelAll
  <2>3. RequestTypes'
    BY <2>0 DEF CancelAll, RequestTypes
  <2>4. ScalarTypes'
    BY <2>0 DEF CancelAll, ScalarTypes, flags, bounds, history
  <2> QED
    BY <2>1, <2>2, <2>3, <2>4 DEF TypeOK
<1>31. ASSUME NEW a \in Admins, CancelAllEnd(a) PROVE TypeOK'
  <2>1. RowTypes' /\ LoopTypes' /\ RunTypes'
    BY <1>31 DEF CancelAllEnd, RowTypes, LoopTypes, RunTypes, rows
  <2>2. RequestTypes'
    BY <1>31 DEF CancelAllEnd, RequestTypes, AdminPcs, AdminIdle, ReaperIdle
  <2>3. ScalarTypes'
    BY <1>31 DEF CancelAllEnd, ScalarTypes, flags, bounds, history
  <2> QED
    BY <2>1, <2>2, <2>3 DEF TypeOK
<1>32. ASSUME NEW a \in Admins, MineSelect(a) PROVE TypeOK'
  <2>1. RowTypes' /\ LoopTypes' /\ RunTypes' /\ ScalarTypes'
    BY <1>32 DEF MineSelect, RowTypes, LoopTypes, RunTypes, ScalarTypes, rows, flags, bounds, history
  <2>2. RequestTypes'
    <3> DEFINE ids == {j \in Mine : status[j] = "processing"}
    <3>1. ids \in SUBSET Jobs
      BY JobsAssumption
    <3>2. [pc |-> IF ids = {} THEN "mineDelete" ELSE "mineUpdate", ids |-> ids]
            \in [pc : AdminPcs, ids : SUBSET Jobs]
      BY <3>1 DEF AdminPcs
    <3>3. admin' = [admin EXCEPT ![a] =
                   [pc |-> IF ids = {} THEN "mineDelete" ELSE "mineUpdate", ids |-> ids]]
      BY <1>32 DEF MineSelect
    <3> HIDE DEF ids
    <3> QED
      BY <1>32, <3>2, <3>3 DEF MineSelect, RequestTypes
  <2> QED
    BY <2>1, <2>2 DEF TypeOK
<1>33. ASSUME NEW a \in Admins, MineUpdate(a) PROVE TypeOK'
  <2>1. LoopTypes' /\ RunTypes' /\ ScalarTypes'
    BY <1>33 DEF MineUpdate, LoopTypes, RunTypes, ScalarTypes, flags, bounds, history
  <2>2. RowTypes'
    BY <1>33 DEF MineUpdate, RowTypes, Statuses, rows, SetAll
  <2>3. RequestTypes'
    BY <1>33 DEF MineUpdate, RequestTypes, AdminPcs, AdminIdle, ReaperIdle
  <2> QED
    BY <2>1, <2>2, <2>3 DEF TypeOK
<1>34. ASSUME NEW a \in Admins, MineAbort(a) PROVE TypeOK'
  <2>1. RowTypes' /\ LoopTypes' /\ ScalarTypes'
    BY <1>34 DEF MineAbort, RowTypes, LoopTypes, ScalarTypes, rows, flags, bounds, history
  <2>2. RunTypes'
    <3>1. admin[a].ids \in SUBSET Jobs
      BY DEF RequestTypes
    <3> QED
      BY <1>34, <3>1, AbortType DEF MineAbort
  <2>3. RequestTypes'
    BY <1>34 DEF MineAbort, RequestTypes, AdminPcs, AdminIdle, ReaperIdle
  <2> QED
    BY <2>1, <2>2, <2>3 DEF TypeOK
<1>35. ASSUME NEW a \in Admins, PurgeStart(a) \/ PurgeFails(a) PROVE TypeOK'
  <2>1. RowTypes' /\ LoopTypes' /\ RunTypes'
    BY <1>35 DEF PurgeStart, PurgeFails, RowTypes, LoopTypes, RunTypes, rows
  <2>2. RequestTypes'
    BY <1>35 DEF PurgeStart, PurgeFails, RequestTypes, AdminPcs
  <2>3. ScalarTypes'
    BY <1>35 DEF PurgeStart, PurgeFails, ScalarTypes, flags, bounds, history
  <2> QED
    BY <2>1, <2>2, <2>3 DEF TypeOK
<1>36. ASSUME NEW a \in Admins, NEW filter \in Filters, MineDelete(a, filter) PROVE TypeOK'
  <2>1. LoopTypes' /\ RunTypes' /\ ScalarTypes'
    BY <1>36 DEF MineDelete, LoopTypes, RunTypes, ScalarTypes, flags, bounds, history
  <2>2. RowTypes'
    BY <1>36 DEF MineDelete, RowTypes, Statuses, rows, SetAll
  <2>3. RequestTypes'
    BY <1>36 DEF MineDelete, RequestTypes, AdminPcs, AdminIdle, ReaperIdle
  <2> QED
    BY <2>1, <2>2, <2>3 DEF TypeOK
<1>37. ASSUME Pause PROVE TypeOK'
  <2>1. RowTypes' /\ LoopTypes' /\ RunTypes' /\ RequestTypes'
    BY <1>37 DEF Pause, RowTypes, LoopTypes, RunTypes, RequestTypes, rows
  <2>2. ScalarTypes'
    BY <1>37 DEF Pause, ScalarTypes, flags, bounds, history, Request
  <2> QED
    BY <2>1, <2>2 DEF TypeOK
<1>38. ASSUME Resume PROVE TypeOK'
  <2>1. RowTypes' /\ RunTypes' /\ RequestTypes'
    BY <1>38 DEF Resume, RowTypes, RunTypes, RequestTypes, rows
  <2>2. LoopTypes'
    <3>1. "starting" \in LoopPcs
      BY DEF LoopPcs
    <3> QED
      BY <1>38, <3>1, StartingType DEF Resume, ResumeQueue, LoopTypes
  <2>3. ScalarTypes'
    <3>1. paused' = FALSE /\ requests' = requests + 1
      BY <1>38 DEF Resume, ResumeQueue, Request
    <3>2. UNCHANGED <<up, isProcessing, cancelAll, faults, crashes, history>>
      BY <1>38 DEF Resume
    <3>3. requests' \in Nat
      <4>1. requests \in Nat
        BY Zenon DEF ScalarTypes
      <4> QED
        BY <3>1, <4>1
    <3>6. paused' \in BOOLEAN
      BY <3>1, Zenon
    <3>4. /\ up' \in BOOLEAN /\ isProcessing' \in BOOLEAN /\ cancelAll' \in BOOLEAN
          /\ faults' \in Nat /\ crashes' \in Nat
      BY <3>2 DEF ScalarTypes
    <3>5. starts' \in [Jobs -> Nat] /\ overlapped' \in BOOLEAN /\ blind' \in BOOLEAN
      BY <3>2, Zenon DEF ScalarTypes, history
    <3> QED
      BY <3>3, <3>4, <3>5, <3>6 DEF ScalarTypes
  <2> QED
    BY <2>1, <2>2, <2>3 DEF TypeOK
<1>39. ASSUME DispatchEntryHooks PROVE TypeOK'
  <2>1. RowTypes' /\ LoopTypes' /\ RunTypes'
    BY <1>39 DEF DispatchEntryHooks, RowTypes, LoopTypes, RunTypes, rows
  <2>2. RequestTypes'
    BY <1>39 DEF DispatchEntryHooks, RequestTypes, AdminPcs, AdminIdle, ReaperIdle
  <2>3. ScalarTypes'
    BY <1>39 DEF DispatchEntryHooks, ScalarTypes, flags, bounds, history, Request
  <2> QED
    BY <2>1, <2>2, <2>3 DEF TypeOK
<1>40. ASSUME SweepStart PROVE TypeOK'
  <2>1. RowTypes' /\ LoopTypes' /\ RunTypes' /\ ScalarTypes'
    BY <1>40 DEF SweepStart, RowTypes, LoopTypes, RunTypes, ScalarTypes, rows, flags, bounds, history
  <2>2. RequestTypes'
    BY <1>40 DEF SweepStart, RequestTypes, AdminPcs, AdminIdle, ReaperIdle
  <2> QED
    BY <2>1, <2>2 DEF TypeOK
<1>41. ASSUME SweepCeiling PROVE TypeOK'
  <2>1. LoopTypes' /\ RunTypes' /\ ScalarTypes'
    BY <1>41 DEF SweepCeiling, LoopTypes, RunTypes, ScalarTypes, flags, bounds, history
  <2>2. RowTypes'
    BY <1>41 DEF SweepCeiling, RowTypes, Statuses, rows, SetAll
  <2>3. RequestTypes'
    BY <1>41 DEF SweepCeiling, RequestTypes, AdminPcs, AdminIdle, ReaperIdle
  <2> QED
    BY <2>1, <2>2, <2>3 DEF TypeOK
<1>42. ASSUME SweepChat PROVE TypeOK'
  <2>1. LoopTypes' /\ RunTypes' /\ ScalarTypes'
    BY <1>42 DEF SweepChat, LoopTypes, RunTypes, ScalarTypes, flags, bounds, history
  <2>2. RowTypes'
    BY <1>42 DEF SweepChat, RowTypes, Statuses, rows, SetAll
  <2>3. RequestTypes'
    BY <1>42 DEF SweepChat, RequestTypes, AdminPcs, AdminIdle, ReaperIdle
  <2> QED
    BY <2>1, <2>2, <2>3 DEF TypeOK
<1>43. ASSUME SweepRequeue PROVE TypeOK'
  <2>1. LoopTypes' /\ RunTypes' /\ ScalarTypes'
    BY <1>43 DEF SweepRequeue, LoopTypes, RunTypes, ScalarTypes, flags, bounds, history
  <2>2. RowTypes'
    BY <1>43 DEF SweepRequeue, RowTypes, Statuses, rows, SetAll, RequeueRows
  <2>3. RequestTypes'
    BY <1>43 DEF SweepRequeue, RequestTypes, AdminPcs, AdminIdle, ReaperIdle
  <2> QED
    BY <2>1, <2>2, <2>3 DEF TypeOK
<1>44. ASSUME Crash PROVE TypeOK'
  <2>1. RowTypes'
    BY <1>44 DEF Crash, RowTypes, rows
  <2>2. LoopTypes'
    BY <1>44, LoopStatesNamed DEF Crash, LoopTypes
  <2>3. RunTypes'
    <3>1. Idle \in RunStates /\ Idle.pc = "idle" /\ Idle.job = None
      BY DEF Idle, RunStates, RunPcs
    <3> QED
      BY <1>44, <3>1 DEF Crash, RunTypes
  <2>4. RequestTypes'
    BY <1>44 DEF Crash, RequestTypes, AdminPcs, AdminIdle, ReaperIdle
  <2>5. ScalarTypes'
    <3>1. /\ up' = FALSE /\ isProcessing' = FALSE /\ paused' = FALSE
          /\ cancelAll' = FALSE /\ crashes' = crashes + 1
          /\ UNCHANGED <<requests, faults, history>>
      BY <1>44 DEF Crash
    <3>2. requests' \in Nat /\ faults' \in Nat /\ crashes' \in Nat
      <4>1. requests \in Nat /\ faults \in Nat /\ crashes \in Nat
        BY Zenon DEF ScalarTypes
      <4> QED
        BY <3>1, <4>1
    <3>3. starts' \in [Jobs -> Nat] /\ overlapped' \in BOOLEAN /\ blind' \in BOOLEAN
      BY <3>1, Zenon DEF ScalarTypes, history
    <3> QED
      BY <3>1, <3>2, <3>3 DEF ScalarTypes
  <2> QED
    BY <2>1, <2>2, <2>3, <2>4, <2>5 DEF TypeOK
<1>45. ASSUME Boot PROVE TypeOK'
  <2>1. LoopTypes' /\ RunTypes' /\ RequestTypes'
    BY <1>45 DEF Boot, LoopTypes, RunTypes, RequestTypes
  <2>2. RowTypes'
    BY <1>45 DEF Boot, RowTypes, Statuses, rows
  <2>3. ScalarTypes'
    BY <1>45 DEF Boot, ScalarTypes, flags, bounds, history
  <2> QED
    BY <2>1, <2>2, <2>3 DEF TypeOK
<1>46. ASSUME NEW a \in Admins, NEW target \in Targets, NEW filter \in Filters,
              PurgeRead(a, filter, target)
       PROVE  TypeOK'
  <2>1. RowTypes' /\ LoopTypes' /\ RunTypes' /\ ScalarTypes'
    BY <1>46 DEF PurgeRead, RowTypes, LoopTypes, RunTypes, ScalarTypes, rows, flags, bounds, history
  <2>2. [pc |-> "purgeRows", ids |-> target \cap Purged(filter)] \in [pc : AdminPcs, ids : SUBSET Jobs]
    BY TargetsAreJobs DEF AdminPcs
  <2>3. RequestTypes'
    BY <1>46, <2>2 DEF PurgeRead, RequestTypes
  <2> QED
    BY <2>1, <2>3 DEF TypeOK
<1>47. ASSUME NEW a \in Admins, NEW j \in Jobs, PurgeRow(a, j) PROVE TypeOK'
  <2>1. LoopTypes' /\ RunTypes' /\ ScalarTypes'
    BY <1>47 DEF PurgeRow, LoopTypes, RunTypes, ScalarTypes, flags, bounds, history
  <2>2. RowTypes'
    BY <1>47 DEF PurgeRow, RowTypes, Statuses, SetStatus
  <2>3. RequestTypes'
    BY <1>47 DEF PurgeRow, RequestTypes
  <2> QED
    BY <2>1, <2>2, <2>3 DEF TypeOK
<1>48. ASSUME NEW a \in Admins, NEW target \in Targets, PurgeFail(a, target) PROVE TypeOK'
  <2>1. LoopTypes' /\ RunTypes' /\ ScalarTypes'
    BY <1>48 DEF PurgeFail, LoopTypes, RunTypes, ScalarTypes, flags, bounds, history
  <2>2. RowTypes'
    BY <1>48 DEF PurgeFail, RowTypes, Statuses, SetAll
  <2>3. RequestTypes'
    BY <1>48, TargetsAreJobs DEF PurgeFail, RequestTypes, AdminPcs
  <2> QED
    BY <2>1, <2>2, <2>3 DEF TypeOK
<1>49. ASSUME NEW a \in Admins, PurgeAll(a) PROVE TypeOK'
  <2>1. LoopTypes' /\ RunTypes' /\ ScalarTypes'
    BY <1>49 DEF PurgeAll, LoopTypes, RunTypes, ScalarTypes, flags, bounds, history
  <2>2. RowTypes'
    BY <1>49 DEF PurgeAll, RowTypes, Statuses, SetAll
  <2>3. RequestTypes'
    BY <1>49 DEF PurgeAll, RequestTypes, AdminPcs
  <2> QED
    BY <2>1, <2>2, <2>3 DEF TypeOK
<1>50. ASSUME NEW a \in Admins, PurgeEnd(a) PROVE TypeOK'
  <2>1. RowTypes' /\ RunTypes'
    BY <1>50 DEF PurgeEnd, RowTypes, RunTypes, rows
  <2>2. LoopTypes'
    <3>1. "starting" \in LoopPcs
      BY DEF LoopPcs
    <3> QED
      BY <1>50, <3>1, StartingType DEF PurgeEnd, ResumeQueue, LoopTypes
  <2>3. RequestTypes'
    BY <1>50 DEF PurgeEnd, RequestTypes, AdminPcs
  <2>4. ScalarTypes'
    BY <1>50 DEF PurgeEnd, ScalarTypes, flags, bounds, history, ResumeQueue
  <2> QED
    BY <2>1, <2>2, <2>3, <2>4 DEF TypeOK
<1>51. ASSUME NEW a \in Admins, MineFail(a) PROVE TypeOK'
  <2>1. LoopTypes' /\ RunTypes' /\ ScalarTypes'
    BY <1>51 DEF MineFail, LoopTypes, RunTypes, ScalarTypes, flags, bounds, history
  <2>2. RowTypes'
    BY <1>51 DEF MineFail, RowTypes, Statuses, SetAll
  <2>3. RequestTypes'
    BY <1>51 DEF MineFail, RequestTypes, AdminPcs
  <2> QED
    BY <2>1, <2>2, <2>3 DEF TypeOK
<1>52. ASSUME UNCHANGED vars PROVE TypeOK'
  BY <1>52 DEF vars, rows, flags, bounds, history, TypeOK, RowTypes, LoopTypes,
               RunTypes, RequestTypes, ScalarTypes
<1> QED
  BY <1>1, <1>2, <1>3, <1>4, <1>5, <1>6, <1>7, <1>8, <1>9, <1>10, <1>11, <1>12, <1>13, <1>14, <1>15, <1>16, <1>17, <1>18, <1>19, <1>20, <1>21, <1>22, <1>23, <1>24, <1>25, <1>26, <1>27, <1>28, <1>29, <1>30, <1>31, <1>32, <1>33, <1>34, <1>35, <1>36, <1>37, <1>38, <1>39, <1>40, <1>41, <1>42, <1>43, <1>44, <1>45, <1>46, <1>47, <1>48, <1>49, <1>50, <1>51, <1>52
     DEF Next, AddStep, LoopStep, RunStep, CancelStep, AdminStep, PurgeStep, MineStep,
         SweepStep

(* The initial state is well typed.                                        *)
LEMMA TypeInit == Init => TypeOK
<1> SUFFICES ASSUME Init PROVE TypeOK
  OBVIOUS
<1>1. RowTypes
  BY DEF Init, RowTypes, Statuses
<1>2. LoopTypes
  BY LoopStatesNamed DEF Init, LoopTypes
<1>3. RunTypes
  <2>1. Idle \in RunStates /\ Idle.pc = "idle" /\ Idle.job = None
    BY DEF Idle, RunStates, RunPcs
  <2> QED
    BY <2>1 DEF Init, RunTypes
<1>4. RequestTypes
  BY DEF Init, RequestTypes, AdminPcs, AdminIdle, ReaperIdle
<1>5. ScalarTypes
  BY DEF Init, ScalarTypes
<1> QED
  BY <1>1, <1>2, <1>3, <1>4, <1>5 DEF TypeOK

(* TypeOK is an invariant: for any number of jobs, loops, runners and      *)
(* requests the rows, flags and activations of the queue keep their types. *)
THEOREM TypeCorrect == Spec => []TypeOK
<1>1. Init => TypeOK
  BY TypeInit
<1>2. TypeOK /\ [Next]_vars => TypeOK'
  BY TypeStep
<1> QED
  BY <1>1, <1>2, PTL DEF Spec
=============================================================================

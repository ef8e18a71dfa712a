------------------------- MODULE JobQueueLoopProofs -------------------------
(***************************************************************************)
(* The processing loops of the job queue, for any number of loops that     *)
(* start and die.                                                          *)
(*                                                                         *)
(* isProcessing is raised and lowered by loops that do not know of each    *)
(* other (runProcessingLoop and its finally block).  Until two of them     *)
(* have overlapped it is exact: at most one is active, so the one that     *)
(* lowers the flag is the one that raised it.  That same loop is then the  *)
(* only one that claims rows, and the count it has read can only have      *)
(* shrunk by the time it claims: the class limits hold.                    *)
(***************************************************************************)
EXTENDS JobQueueProofs

AtMostOne == \A l, m \in Loops : Active(l) /\ Active(m) => l = m

(* ProcessingFlag alone is not inductive: with two active loops the first  *)
(* to leave would lower the flag under the second.                         *)
FlagInv == /\ TypeOK
           /\ overlapped \/ (AtMostOne /\ (isProcessing <=> \E l \in Loops : Active(l)))

(* What a step may do to the loops: nothing that shows, move one active    *)
(* loop, enter one, or lose them all.                                      *)
ActiveSame(S) == \A l \in S : Active(l)' = Active(l)
Quiet  == /\ ActiveSame(Loops) /\ isProcessing' = isProcessing
          /\ overlapped' = overlapped
Moves(l) == /\ Active(l) /\ ActiveSame(Loops \ {l})
            /\ isProcessing' = (isProcessing /\ Active(l)') /\ overlapped' = overlapped
Enters(l) == /\ ~Active(l) /\ ActiveSame(Loops \ {l})
             /\ isProcessing' = Active(l)'
             /\ overlapped' = (overlapped \/ \E m \in Loops : Active(m))
Dies == /\ \A l \in Loops : ~Active(l)'
        /\ isProcessing' = FALSE /\ overlapped' = overlapped

(* The step a loop resumes at decides whether it is active.                *)
LEMMA NextClassActive ==
    ASSUME NEW i, NEW S PROVE NextClass(i, S).pc \notin {"off", "starting"}
  BY DEF NextClass, LoopOff

(* A step that leaves the loops and the flag alone is quiet.               *)
LEMMA QuietUnchanged ==
    ASSUME UNCHANGED <<loop, isProcessing, overlapped>> PROVE Quiet
  BY DEF Quiet, ActiveSame, Active

(* A loop that is off and becomes "starting" does not show.                *)
LEMMA QuietStarting ==
    ASSUME LoopTypes, UNCHANGED <<isProcessing, overlapped>>,
           NEW l \in Loops, loop[l].pc = "off",
           loop' = [loop EXCEPT ![l].pc = "starting"]
    PROVE  Quiet
<1>1. \A m \in Loops : loop'[m].pc = IF m = l THEN "starting" ELSE loop[m].pc
  BY DEF LoopTypes, LoopStates
<1> QED
  BY <1>1 DEF Quiet, ActiveSame, Active

(* An active loop that goes on to an active step does not show.            *)
LEMMA QuietGoesOn ==
    ASSUME LoopTypes, UNCHANGED <<isProcessing, overlapped>>,
           NEW l \in Loops, Active(l), NEW x,
           loop' = [loop EXCEPT ![l] = x], x.pc \notin {"off", "starting"}
    PROVE  Quiet
<1>1. \A m \in Loops : loop'[m] = IF m = l THEN x ELSE loop[m]
  BY DEF LoopTypes
<1> QED
  BY <1>1 DEF Quiet, ActiveSame, Active

(* ResumeLoop clears the flag when the loop it resumes ends.               *)
LEMMA ResumeActive ==
    ASSUME LoopTypes, NEW l \in Loops, NEW x, ResumeLoop(l, x), x.pc # "starting"
    PROVE  ActiveSame(Loops \ {l}) /\ isProcessing' = (isProcessing /\ Active(l)')
<1>1. \A m \in Loops : loop'[m] = IF m = l THEN x ELSE loop[m]
  BY DEF ResumeLoop, LoopTypes
<1>2. isProcessing' = (isProcessing /\ x.pc # "off")
  BY DEF ResumeLoop
<1> QED
  BY <1>1, <1>2 DEF ActiveSame, Active

(* Counting the rows of a class keeps the loop active.                     *)
LEMMA CountedQuiet ==
    ASSUME LoopTypes, UNCHANGED <<isProcessing, overlapped>>,
           NEW l \in Loops, loop[l].pc = "count", NEW n, Counted(l, n)
    PROVE  Quiet
<1> DEFINE i == loop[l].class
           slots == Slots(Limit[ClassOrder[i]], n)
           x == IF slots = 0 THEN NextClass(i, InFlight(l))
                ELSE [LoopOff EXCEPT !.pc = "claim", !.class = i, !.slots = slots]
<1>1. loop' = [loop EXCEPT ![l] = x]
  BY DEF Counted
<1>2. x.pc \notin {"off", "starting"}
  BY NextClassActive DEF LoopOff
<1> HIDE DEF x
<1> QED
  BY <1>1, <1>2, QuietGoesOn DEF Active

(* What each step of a loop does to the loops.                             *)
LEMMA LoopStepFlags ==
    ASSUME LoopTypes, NEW l \in Loops, LoopStep(l)
    PROVE  Quiet \/ Moves(l) \/ Enters(l)
<1>1. ASSUME Enter(l) PROVE Enters(l)
  <2>1. AtTop(l).pc # "starting"
    BY DEF AtTop, LoopOff
  <2>2. \A m \in Loops : loop'[m] = IF m = l THEN AtTop(l) ELSE loop[m]
    BY <1>1 DEF Enter, LoopTypes
  <2> QED
    BY <1>1, <2>1, <2>2 DEF Enter, Enters, ActiveSame, Active
<1>2. ASSUME CountProcessing(l) PROVE Quiet
  BY <1>2, CountedQuiet DEF CountProcessing, flags, history
<1>3. ASSUME CountFails(l) PROVE Quiet
  BY <1>3, CountedQuiet DEF CountFails, flags
<1>4. ASSUME Claim(l) PROVE Quiet
  <2>1. PICK S :
          loop' = [loop EXCEPT ![l] =
                     IF S = {} THEN NextClass(loop[l].class, InFlight(l))
                     ELSE [LoopOff EXCEPT !.pc = "launch", !.class = loop[l].class,
                                          !.todo = S]]
    BY <1>4 DEF Claim
  <2> DEFINE x == IF S = {} THEN NextClass(loop[l].class, InFlight(l))
                  ELSE [LoopOff EXCEPT !.pc = "launch", !.class = loop[l].class,
                                       !.todo = S]
  <2>2. x.pc \notin {"off", "starting"}
    BY NextClassActive DEF LoopOff
  <2>3. loop' = [loop EXCEPT ![l] = x]
    BY <2>1
  <2>4. Active(l) /\ UNCHANGED <<isProcessing, overlapped>>
    BY <1>4 DEF Claim, Active, flags, history
  <2> HIDE DEF x
  <2> QED
    BY <2>2, <2>3, <2>4, QuietGoesOn
<1>5. ASSUME Launch(l) PROVE Quiet
  <2>1. PICK rest, r :
          loop' = [loop EXCEPT ![l] = IF rest = {} THEN NextClass(@.class, {r})
                                      ELSE [@ EXCEPT !.todo = rest]]
    BY <1>5 DEF Launch
  <2> DEFINE x == IF rest = {} THEN NextClass(loop[l].class, {r})
                  ELSE [loop[l] EXCEPT !.todo = rest]
  <2>2. x.pc \notin {"off", "starting"}
    BY <1>5, NextClassActive DEF Launch, LoopTypes, LoopStates
  <2>3. loop' = [loop EXCEPT ![l] = x]
    BY <2>1 DEF LoopTypes
  <2>4. Active(l) /\ UNCHANGED <<isProcessing, overlapped>>
    BY <1>5 DEF Launch, Active, flags, history
  <2> HIDE DEF x
  <2> QED
    BY <2>2, <2>3, <2>4, QuietGoesOn
<1>6. ASSUME AskPending(l) PROVE Quiet
  <2>1. PICK p \in {"nap", "leave"} : loop' = [loop EXCEPT ![l].pc = p]
    BY <1>6 DEF AskPending
  <2>2. [loop[l] EXCEPT !.pc = p].pc \notin {"off", "starting"}
    BY DEF LoopTypes, LoopStates
  <2>3. loop' = [loop EXCEPT ![l] = [loop[l] EXCEPT !.pc = p]]
    BY <2>1 DEF LoopTypes
  <2>4. Active(l) /\ UNCHANGED <<isProcessing, overlapped>>
    BY <1>6 DEF AskPending, Active, flags, history
  <2> QED
    BY <2>2, <2>3, <2>4, QuietGoesOn
<1>7. ASSUME Leave(l) \/ LoopDies(l) PROVE Moves(l)
  <2>1. LoopOff.pc # "starting"
    BY DEF LoopOff
  <2>2. ResumeLoop(l, LoopOff) /\ Active(l) /\ overlapped' = overlapped
    BY <1>7 DEF Leave, LoopDies, Active, history
  <2> QED
    BY <2>1, <2>2, ResumeActive DEF Moves
<1>8. ASSUME Wake(l) PROVE Moves(l)
  <2>1. AtTop(l).pc # "starting"
    BY DEF AtTop, LoopOff
  <2>2. ResumeLoop(l, AtTop(l)) /\ Active(l) /\ overlapped' = overlapped
    BY <1>8 DEF Wake, Active, history
  <2> QED
    BY <2>1, <2>2, ResumeActive DEF Moves
<1> QED
  BY <1>1, <1>2, <1>3, <1>4, <1>5, <1>6, <1>7, <1>8 DEF LoopStep

(* No other step shows, but a crash.                                       *)
LEMMA StepFlags ==
    ASSUME LoopTypes, RunTypes, [Next]_vars
    PROVE  Quiet \/ Dies \/ \E l \in Loops : Moves(l) \/ Enters(l)
<1>1. ASSUME NEW j \in Jobs, AddStep(j) PROVE Quiet
  <2>1. ASSUME Kick(j) PROVE Quiet
    <3>1. CASE CanStart
      BY <2>1, <3>1, QuietStarting DEF Kick, ProcessJobs, flags, history
    <3>2. CASE ~CanStart
      BY <2>1, <3>2, QuietUnchanged DEF Kick, ProcessJobs, flags, history
    <3> QED
      BY <3>1, <3>2
  <2>2. ASSUME Admit(j) \/ Insert(j) \/ KickLost(j) PROVE Quiet
    BY <2>2, QuietUnchanged DEF Admit, Insert, KickLost, flags, history
  <2> QED
    BY <1>1, <2>1, <2>2 DEF AddStep
<1>2. ASSUME NEW j \in Jobs, CancelStep(j) \/ DeleteRow(j) \/ Age(j) PROVE Quiet
  BY <1>2, QuietUnchanged DEF CancelStep, CancelWrite, CancelAbort, CancelFails,
                              DeleteRow, Age, flags, history
<1>3. ASSUME NEW r \in Runners, RunStep(r) PROVE Quiet \/ \E l \in Loops : Moves(l)
  <2>1. ASSUME CatchFails(r) PROVE Quiet \/ \E l \in Loops : Moves(l)
    <3>0. PICK l \in Loops : l = run[r].loop
      BY <2>1 DEF CatchFails, RunTypes
    <3>1. overlapped' = overlapped
      BY <2>1 DEF CatchFails, history
    <3>2. CASE loop[l].pc = "wait"
      <4>1. LoopOff.pc # "starting"
        BY DEF LoopOff
      <4>2. ResumeLoop(l, LoopOff) /\ Active(l)
        BY <2>1, <3>0, <3>2 DEF CatchFails, Active
      <4>3. Moves(l)
        BY <3>1, <4>1, <4>2, ResumeActive DEF Moves
      <4> QED
        BY <4>3
    <3>3. CASE loop[l].pc # "wait"
      BY <2>1, <3>0, <3>1, <3>3, QuietUnchanged DEF CatchFails
    <3> QED
      BY <3>2, <3>3
  <2>2. ASSUME NEW err \in Errors, ExecThrows(r, err) \/ TryFails(r, err) PROVE Quiet
    BY <2>2, QuietUnchanged DEF ExecThrows, TryFails, flags, history
  <2>3. ASSUME ReadStatus(r) \/ Register(r) \/ ExecReturns(r) \/ Complete(r)
               \/ Requeue(r) \/ Stop(r) \/ Fail(r) \/ Finish(r)
        PROVE  Quiet
    BY <2>3, QuietUnchanged DEF ReadStatus, Register, ExecReturns, Complete, Requeue,
                                Stop, Fail, Finish, flags, history
  <2> QED
    BY <1>3, <2>1, <2>2, <2>3 DEF RunStep
<1>4. ASSUME NEW a \in Admins, AdminStep(a) PROVE Quiet
  <2>1. ASSUME PurgeEnd(a) PROVE Quiet
    BY <2>1, QuietUnchanged, QuietStarting DEF PurgeEnd, ResumeQueue, history
  <2>2. ASSUME CancelAllStart(a) \/ CancelAllEnd(a) \/ PurgeStart(a) \/ PurgeCancels(a)
        PROVE  Quiet
    BY <2>2, QuietUnchanged DEF CancelAllStart, CancelAllEnd, CancelAll, PurgeStart,
                                PurgeCancels, history
  <2>3. ASSUME NEW target \in Targets, NEW filter \in Filters,
               \/ PurgeRead(a, filter, target) \/ PurgeFail(a, target) \/ PurgeAll(a)
               \/ PurgeFails(a) \/ \E j \in Jobs : PurgeRow(a, j)
        PROVE  Quiet
    BY <2>3, QuietUnchanged DEF PurgeRead, PurgeFail, PurgeAll, PurgeFails, PurgeRow,
                                flags, history
  <2>4. ASSUME NEW filter \in Filters,
               \/ MineSelect(a) \/ MineUpdate(a) \/ MineAbort(a) \/ MineFail(a)
               \/ MineDelete(a, filter)
        PROVE  Quiet
    BY <2>4, QuietUnchanged DEF MineSelect, MineUpdate, MineAbort, MineFail, MineDelete,
                                flags, history
  <2>5. "all" \in Filters /\ Jobs \in Targets
    BY DEF Filters, Targets
  <2> QED
    BY <1>4, <2>1, <2>2, <2>3, <2>4, <2>5 DEF AdminStep, PurgeStep, MineStep
<1>5. ASSUME Resume PROVE Quiet
  BY <1>5, QuietUnchanged, QuietStarting DEF Resume, ResumeQueue, history
<1>6. ASSUME Pause \/ DispatchEntryHooks \/ SweepStep \/ Boot PROVE Quiet
  BY <1>6, QuietUnchanged DEF Pause, DispatchEntryHooks, SweepStep, SweepStart,
        SweepCeiling, SweepChat, SweepRequeue, Boot, flags, history
<1>7. ASSUME Crash PROVE Dies
  BY <1>7 DEF Crash, Dies, Active, LoopOff, history
<1>8. ASSUME UNCHANGED vars PROVE Quiet
  BY <1>8, QuietUnchanged DEF vars, flags, history
<1> QED
  BY <1>1, <1>2, <1>3, <1>4, <1>5, <1>6, <1>7, <1>8, LoopStepFlags DEF Next

(* FlagInv holds initially, and every step keeps it.                       *)
LEMMA FlagInit == Init => FlagInv
  BY TypeInit DEF Init, FlagInv, AtMostOne, Active, LoopOff

LEMMA FlagStep == ASSUME FlagInv, [Next]_vars PROVE FlagInv'
<1>0. TypeOK' /\ LoopTypes /\ RunTypes /\ isProcessing \in BOOLEAN /\ overlapped \in BOOLEAN
  BY TypeStep DEF FlagInv, TypeOK, ScalarTypes
<1>1. CASE Quiet
  BY <1>0, <1>1 DEF FlagInv, Quiet, ActiveSame, AtMostOne
<1>2. CASE Dies
  BY <1>0, <1>2 DEF FlagInv, Dies, AtMostOne
<1>3. ASSUME NEW l \in Loops, Moves(l) PROVE FlagInv'
  BY <1>0, <1>3 DEF FlagInv, Moves, ActiveSame, AtMostOne
<1>4. ASSUME NEW l \in Loops, Enters(l) PROVE FlagInv'
  BY <1>0, <1>4 DEF FlagInv, Enters, ActiveSame, AtMostOne
<1> QED
  BY <1>0, <1>1, <1>2, <1>3, <1>4, StepFlags

(* isProcessing says whether a loop is alive, on every path out of         *)
(* runProcessingLoop: only two overlapping loops can make it lie.          *)
THEOREM ProcessingFlagCorrect == Spec => []ProcessingFlag
<1>1. FlagInv => ProcessingFlag
  BY DEF FlagInv, ProcessingFlag
<1> QED
  BY <1>1, FlagInit, FlagStep, PTL DEF Spec

-----------------------------------------------------------------------------
(* The class limits                                                        *)

(* A loop about to claim has room for the slots it has computed.           *)
SlotsFit ==
    \A l \in Loops : loop[l].pc = "claim" =>
        LET c == ClassOrder[loop[l].class]
        IN Cardinality(ProcessingIn(c)) + loop[l].slots <= Limit[c]

(* LimitKept alone is not inductive: it says nothing of the slots.         *)
LimitInv == FlagInv /\ (overlapped \/ blind \/ (ConcurrencyLimit /\ SlotsFit))

(* No step but a claim makes a row "processing", and none but a count      *)
(* makes a loop ready to claim.                                            *)
NoNewRow == \A j \in Jobs : status'[j] = "processing" => status[j] = "processing"
NoNewClaim == \A l \in Loops : loop'[l].pc = "claim" => loop'[l] = loop[l]
Tame == NoNewRow /\ NoNewClaim

(* The limit of a class in the order is a number.                          *)
LEMMA ClassLimit == \A i \in 1..Len(ClassOrder) : Limit[ClassOrder[i]] \in Nat
  BY ClassAssumption

(* The processing rows of a class are a finite set.                        *)
LEMMA ProcessingFinite == \A c : IsFiniteSet(ProcessingIn(c))
<1> TAKE c
<1>1. ProcessingIn(c) \subseteq Jobs
  BY DEF ProcessingIn
<1> QED
  BY <1>1, FS_Subset, JobsAssumption

(* A keyed update to another status makes no row "processing".             *)
LEMMA SetStatusTame ==
    ASSUME RowTypes, NEW j \in Jobs, NEW st, st # "processing", SetStatus(j, st)
    PROVE  NoNewRow
  BY DEF RowTypes, SetStatus, NoNewRow

(* Nor does a bulk update to another status.                               *)
LEMMA SetAllTame ==
    ASSUME NEW S, NEW st, st # "processing", SetAll(S, st)
    PROVE  NoNewRow
  BY DEF SetAll, NoNewRow

(* A loop that goes elsewhere than to a claim is not ready to claim.       *)
LEMMA GoesElsewhere ==
    ASSUME LoopTypes, NEW l \in Loops, NEW x, x.pc # "claim",
           loop' = [loop EXCEPT ![l] = x]
    PROVE  NoNewClaim
  BY DEF LoopTypes, NoNewClaim

(* Nor is one whose step becomes another.                                  *)
LEMMA PcElsewhere ==
    ASSUME LoopTypes, NEW l \in Loops, NEW p, p # "claim",
           loop' = [loop EXCEPT ![l].pc = p]
    PROVE  NoNewClaim
  BY DEF LoopTypes, LoopStates, NoNewClaim

(* resumeQueue makes no loop ready to claim.                               *)
LEMMA ResumeQueueTame == ASSUME LoopTypes, ResumeQueue PROVE NoNewClaim
<1>1. CASE isProcessing
  BY <1>1 DEF ResumeQueue, NoNewClaim
<1>2. CASE ~isProcessing
  <2>1. PICK l \in Loops : loop' = [loop EXCEPT ![l].pc = "starting"]
    BY <1>2 DEF ResumeQueue
  <2> QED
    BY <2>1, PcElsewhere
<1> QED
  BY <1>1, <1>2

(* A step that leaves rows and loops alone is tame.                        *)
LEMMA TameUnchanged == ASSUME UNCHANGED <<status, loop>> PROVE Tame
  BY DEF Tame, NoNewRow, NoNewClaim

(* The steps of a loop other than the counts and the claim are tame.       *)
LEMMA LoopStepTame ==
    ASSUME LoopTypes, NEW l \in Loops, LoopStep(l)
    PROVE  Tame \/ CountProcessing(l) \/ CountFails(l) \/ Claim(l)
<1>1. ASSUME status' = status PROVE NoNewRow
  BY <1>1 DEF NoNewRow
<1>2. AtTop(l).pc # "claim" /\ LoopOff.pc # "claim"
  BY DEF AtTop, LoopOff
<1>3. ASSUME Enter(l) \/ Wake(l) PROVE Tame
  <2>1. loop' = [loop EXCEPT ![l] = AtTop(l)] /\ status' = status
    BY <1>3 DEF Enter, Wake, ResumeLoop, rows
  <2> QED
    BY <1>1, <1>2, <2>1, GoesElsewhere DEF Tame
<1>4. ASSUME Leave(l) \/ LoopDies(l) PROVE Tame
  <2>1. loop' = [loop EXCEPT ![l] = LoopOff] /\ status' = status
    BY <1>4 DEF Leave, LoopDies, ResumeLoop, rows
  <2> QED
    BY <1>1, <1>2, <2>1, GoesElsewhere DEF Tame
<1>5. ASSUME AskPending(l) PROVE Tame
  <2>1. PICK p \in {"nap", "leave"} : loop' = [loop EXCEPT ![l].pc = p]
    BY <1>5 DEF AskPending
  <2>2. status' = status
    BY <1>5 DEF AskPending, rows
  <2> QED
    BY <1>1, <2>1, <2>2, PcElsewhere DEF Tame
<1>6. ASSUME Launch(l) PROVE Tame
  <2>1. PICK rest, r :
          loop' = [loop EXCEPT ![l] = IF rest = {} THEN NextClass(@.class, {r})
                                      ELSE [@ EXCEPT !.todo = rest]]
    BY <1>6 DEF Launch
  <2> DEFINE x == IF rest = {} THEN NextClass(loop[l].class, {r})
                  ELSE [loop[l] EXCEPT !.todo = rest]
  <2>2. x.pc # "claim"
    BY <1>6 DEF Launch, LoopTypes, LoopStates, NextClass, LoopOff
  <2>3. loop' = [loop EXCEPT ![l] = x]
    BY <2>1 DEF LoopTypes
  <2>4. status' = status
    BY <1>6 DEF Launch, rows
  <2> HIDE DEF x
  <2> QED
    BY <1>1, <2>2, <2>3, <2>4, GoesElsewhere DEF Tame
<1> QED
  BY <1>3, <1>4, <1>5, <1>6 DEF LoopStep

(* So are the steps of everyone else, the sweeps, a crash and a boot.      *)
LEMMA StepTame ==
    ASSUME RowTypes, LoopTypes, RunTypes, [Next]_vars
    PROVE  Tame \/ \E l \in Loops : CountProcessing(l) \/ CountFails(l) \/ Claim(l)
<1>1. ASSUME NEW j \in Jobs, AddStep(j) PROVE Tame
  <2>1. ASSUME Kick(j) PROVE Tame
    <3>1. NoNewRow
      BY <2>1 DEF Kick, NoNewRow, rows
    <3>2. CASE CanStart
      <4>1. PICK l \in Loops : loop' = [loop EXCEPT ![l].pc = "starting"]
        BY <2>1, <3>2 DEF Kick, ProcessJobs
      <4> QED
        BY <3>1, <4>1, PcElsewhere DEF Tame
    <3>3. CASE ~CanStart
      BY <2>1, <3>3, TameUnchanged DEF Kick, ProcessJobs, rows
    <3> QED
      BY <3>2, <3>3
  <2>2. ASSUME Insert(j) PROVE Tame
    BY <2>2 DEF Insert, RowTypes, Tame, NoNewRow, NoNewClaim
  <2>3. ASSUME Admit(j) \/ KickLost(j) PROVE Tame
    BY <2>3, TameUnchanged DEF Admit, KickLost, rows
  <2> QED
    BY <1>1, <2>1, <2>2, <2>3 DEF AddStep
<1>2. ASSUME NEW j \in Jobs, CancelWrite(j) \/ DeleteRow(j) PROVE Tame
  BY <1>2, SetStatusTame DEF CancelWrite, DeleteRow, Tame, NoNewClaim
<1>3. ASSUME NEW j \in Jobs, CancelAbort(j) \/ CancelFails(j) \/ Age(j) PROVE Tame
  BY <1>3, TameUnchanged DEF CancelAbort, CancelFails, Age, rows
<1>4. ASSUME NEW r \in Runners, RunStep(r) PROVE Tame
  <2>1. ASSUME CatchFails(r) PROVE Tame
    <3>0. PICK l \in Loops : l = run[r].loop
      BY <2>1 DEF CatchFails, RunTypes
    <3>1. NoNewRow
      BY <2>1 DEF CatchFails, NoNewRow, rows
    <3>2. CASE loop[l].pc = "wait"
      <4>1. loop' = [loop EXCEPT ![l] = LoopOff]
        BY <2>1, <3>0, <3>2 DEF CatchFails, ResumeLoop
      <4>2. LoopOff.pc # "claim"
        BY DEF LoopOff
      <4> QED
        BY <3>1, <4>1, <4>2, GoesElsewhere DEF Tame
    <3>3. CASE loop[l].pc # "wait"
      BY <2>1, <3>0, <3>3, TameUnchanged DEF CatchFails, rows
    <3> QED
      BY <3>2, <3>3
  <2>2. ASSUME NEW err \in Errors, ExecThrows(r, err) \/ TryFails(r, err) PROVE Tame
    BY <2>2, TameUnchanged DEF ExecThrows, TryFails, rows
  <2>3. ASSUME ReadStatus(r) \/ Register(r) \/ ExecReturns(r) \/ Finish(r) PROVE Tame
    BY <2>3, TameUnchanged DEF ReadStatus, Register, ExecReturns, Finish, rows
  <2>4. ASSUME Complete(r) \/ Requeue(r) \/ Stop(r) \/ Fail(r) PROVE Tame
    <3>1. run[r].job \in Jobs
      BY <2>4 DEF Complete, Requeue, Stop, Fail, RunTypes
    <3> QED
      BY <2>4, <3>1, SetStatusTame DEF Complete, Requeue, Stop, Fail, Tame, NoNewClaim
  <2> QED
    BY <1>4, <2>1, <2>2, <2>3, <2>4 DEF RunStep
<1>5. ASSUME NEW a \in Admins, AdminStep(a) PROVE Tame
  <2>1. ASSUME PurgeEnd(a) PROVE Tame
    BY <2>1, ResumeQueueTame DEF PurgeEnd, Tame, NoNewRow, rows
  <2>2. ASSUME NEW filter \in Filters, NEW target \in Targets,
               \/ PurgeFail(a, target) \/ PurgeAll(a)
               \/ MineUpdate(a) \/ MineFail(a) \/ MineDelete(a, filter)
        PROVE  Tame
    BY <2>2, SetAllTame DEF PurgeFail, PurgeAll, MineUpdate, MineFail, MineDelete, Tame,
                            NoNewClaim
  <2>3. ASSUME NEW j \in Jobs, PurgeRow(a, j) PROVE Tame
    BY <2>3, SetStatusTame DEF PurgeRow, Tame, NoNewClaim
  <2>4. ASSUME NEW filter \in Filters, NEW target \in Targets,
               \/ CancelAllStart(a) \/ CancelAllEnd(a) \/ PurgeStart(a) \/ PurgeCancels(a)
               \/ PurgeRead(a, filter, target) \/ PurgeFails(a)
               \/ MineSelect(a) \/ MineAbort(a)
        PROVE  Tame
    BY <2>4, TameUnchanged DEF CancelAllStart, CancelAllEnd, CancelAll, PurgeStart,
                               PurgeCancels, PurgeRead, PurgeFails, MineSelect, MineAbort, rows
  <2>5. "all" \in Filters /\ Jobs \in Targets
    BY DEF Filters, Targets
  <2> QED
    BY <1>5, <2>1, <2>2, <2>3, <2>4, <2>5 DEF AdminStep, PurgeStep, MineStep
<1>6. ASSUME Resume PROVE Tame
  BY <1>6, ResumeQueueTame DEF Resume, Tame, NoNewRow, rows
<1>7. ASSUME Pause \/ DispatchEntryHooks \/ SweepStart PROVE Tame
  BY <1>7, TameUnchanged DEF Pause, DispatchEntryHooks, SweepStart, rows
<1>8. ASSUME SweepCeiling \/ SweepChat \/ SweepRequeue PROVE Tame
  BY <1>8, SetAllTame DEF SweepCeiling, SweepChat, SweepRequeue, RequeueRows, Tame, NoNewClaim
<1>9. ASSUME Crash PROVE Tame
  BY <1>9 DEF Crash, Tame, NoNewRow, NoNewClaim, LoopOff, rows
<1>10. ASSUME Boot PROVE Tame
  BY <1>10 DEF Boot, Tame, NoNewRow, NoNewClaim
<1>11. ASSUME UNCHANGED vars PROVE Tame
  BY <1>11, TameUnchanged DEF vars, rows
<1> QED
  BY <1>1, <1>2, <1>3, <1>4, <1>5, <1>6, <1>7, <1>8, <1>9, <1>10, <1>11, LoopStepTame
  DEF Next, CancelStep, SweepStep

(* A count that could not be read stays so.                                *)
LEMMA BlindStays == ASSUME [Next]_vars, blind PROVE blind'
<1>1. ASSUME NEW j \in Jobs, AddStep(j) \/ CancelStep(j) \/ DeleteRow(j) \/ Age(j)
      PROVE  blind'
  BY <1>1 DEF AddStep, Admit, Insert, Kick, KickLost, CancelStep, CancelWrite, CancelAbort,
              CancelFails, DeleteRow, Age, history
<1>2. ASSUME NEW l \in Loops, LoopStep(l) PROVE blind'
  BY <1>2 DEF LoopStep, Enter, CountProcessing, CountFails, Claim, Launch, AskPending,
              Leave, Wake, LoopDies, history
<1>3. ASSUME NEW r \in Runners, RunStep(r) PROVE blind'
  BY <1>3 DEF RunStep, ReadStatus, Register, ExecReturns, ExecThrows, TryFails, Complete,
              Requeue, Stop, Fail, Finish, CatchFails, history
<1>4. ASSUME NEW a \in Admins, AdminStep(a) PROVE blind'
  BY <1>4 DEF AdminStep, PurgeStep, MineStep, CancelAll, CancelAllStart, CancelAllEnd,
              PurgeStart, PurgeCancels, PurgeRead, PurgeRow, PurgeFail, PurgeAll, PurgeFails,
              PurgeEnd, MineSelect, MineUpdate, MineAbort, MineFail, MineDelete, history
<1>5. ASSUME Pause \/ Resume \/ DispatchEntryHooks \/ SweepStep \/ Crash \/ Boot
             \/ UNCHANGED vars
      PROVE  blind'
  BY <1>5 DEF Pause, Resume, DispatchEntryHooks, SweepStep, SweepStart, SweepCeiling,
              SweepChat, SweepRequeue, Crash, Boot, vars, history
<1> QED
  BY <1>1, <1>2, <1>3, <1>4, <1>5 DEF Next

(* Two loops that have overlapped have done so for good.                   *)
LEMMA OverlapStays == ASSUME LoopTypes, RunTypes, [Next]_vars, overlapped PROVE overlapped'
  BY StepFlags DEF Quiet, Dies, Moves, Enters

(* A tame step can only empty the classes.                                 *)
LEMMA TameKeepsLimits ==
    ASSUME LoopTypes, ConcurrencyLimit, SlotsFit, Tame
    PROVE  ConcurrencyLimit' /\ SlotsFit'
<1>1. \A c : /\ Cardinality(ProcessingIn(c))' <= Cardinality(ProcessingIn(c))
             /\ Cardinality(ProcessingIn(c)) \in Nat
             /\ Cardinality(ProcessingIn(c))' \in Nat
  <2> TAKE c
  <2>1. ProcessingIn(c)' \subseteq ProcessingIn(c)
    BY DEF Tame, NoNewRow, ProcessingIn
  <2>2. IsFiniteSet(ProcessingIn(c)) /\ IsFiniteSet(ProcessingIn(c)')
    BY <2>1, ProcessingFinite, FS_Subset
  <2>3. Cardinality(ProcessingIn(c)') <= Cardinality(ProcessingIn(c))
    BY <2>1, ProcessingFinite, FS_Subset
  <2> QED
    BY <2>2, <2>3, FS_CardinalityType
<1>2. ConcurrencyLimit'
  BY <1>1, ClassLimit DEF ConcurrencyLimit
<1>3. SlotsFit'
  <2> SUFFICES ASSUME NEW l \in Loops, loop'[l].pc = "claim",
                      NEW c, c = ClassOrder[loop'[l].class]
               PROVE  Cardinality(ProcessingIn(c))' + loop'[l].slots <= Limit[c]
    BY DEF SlotsFit
  <2>1. loop'[l] = loop[l]
    BY DEF Tame, NoNewClaim
  <2>2. loop[l].slots \in Nat /\ loop[l].class \in 1..Len(ClassOrder)
    BY DEF LoopTypes, LoopStates
  <2>3. Cardinality(ProcessingIn(c)) + loop[l].slots <= Limit[c]
    BY <2>1 DEF SlotsFit
  <2>4. Limit[c] \in Nat
    BY <2>1, <2>2, ClassLimit
  <2> QED
    BY <1>1, <2>1, <2>2, <2>3, <2>4
<1> QED
  BY <1>2, <1>3

(* A count leaves the rows alone and sets slots that fit.                  *)
LEMMA CountKeepsLimits ==
    ASSUME LoopTypes, ConcurrencyLimit, SlotsFit, NEW l \in Loops, CountProcessing(l)
    PROVE  ConcurrencyLimit' /\ SlotsFit'
<1> DEFINE i == loop[l].class
           c == ClassOrder[i]
           n == Cardinality(ProcessingIn(c))
           slots == Slots(Limit[c], n)
           x == IF slots = 0 THEN NextClass(i, InFlight(l))
                ELSE [LoopOff EXCEPT !.pc = "claim", !.class = i, !.slots = slots]
<1>1. loop' = [loop EXCEPT ![l] = x] /\ UNCHANGED status
  BY DEF CountProcessing, Counted, rows
<1>2. i \in 1..Len(ClassOrder) /\ n \in Nat /\ Limit[c] \in Nat
  BY ClassLimit, ProcessingCount DEF LoopTypes, LoopStates
<1>3. \A d : ProcessingIn(d)' = ProcessingIn(d)
  BY <1>1 DEF ProcessingIn
<1>4. x.pc = "claim" => x.class = i /\ n + x.slots <= Limit[c]
  <2>1. CASE slots = 0
    BY <2>1 DEF NextClass, LoopOff
  <2>2. CASE slots # 0
    <3>1. n + slots <= Limit[c]
      BY <1>2, <2>2 DEF Slots
    <3>2. x.class = i /\ x.slots = slots
      BY <2>2 DEF LoopOff
    <3> QED
      BY <3>1, <3>2
  <2> QED
    BY <2>1, <2>2
<1>5. \A m \in Loops : loop'[m] = IF m = l THEN x ELSE loop[m]
  BY <1>1 DEF LoopTypes
<1> HIDE DEF x
<1>6. SlotsFit'
  <2> SUFFICES ASSUME NEW m \in Loops, loop'[m].pc = "claim"
               PROVE  Cardinality(ProcessingIn(ClassOrder[loop'[m].class]))
                        + loop'[m].slots <= Limit[ClassOrder[loop'[m].class]]
    BY <1>3 DEF SlotsFit
  <2>1. CASE m = l
    BY <1>4, <1>5, <2>1
  <2>2. CASE m # l
    BY <1>5, <2>2 DEF SlotsFit
  <2> QED
    BY <2>1, <2>2
<1>7. ConcurrencyLimit'
  BY <1>3 DEF ConcurrencyLimit
<1> QED
  BY <1>6, <1>7

(* The claim of the only active loop fills its class up to the limit.      *)
LEMMA ClaimKeepsLimits ==
    ASSUME LoopTypes, AtMostOne, ConcurrencyLimit, SlotsFit, NEW l \in Loops, Claim(l)
    PROVE  ConcurrencyLimit' /\ SlotsFit'
<1>0. PICK i, c : i = loop[l].class /\ c = ClassOrder[i]
  OBVIOUS
<1>1. i \in 1..Len(ClassOrder) /\ loop[l].slots \in Nat /\ Limit[c] \in Nat
  BY <1>0, ClassLimit DEF LoopTypes, LoopStates
<1>2. PICK S \in SUBSET {j \in Jobs : status[j] = "pending" /\ Class(j) = c} :
        /\ Cardinality(S) <= loop[l].slots
        /\ SetAll(S, "processing")
        /\ loop' = [loop EXCEPT ![l] =
                      IF S = {} THEN NextClass(i, InFlight(l))
                      ELSE [LoopOff EXCEPT !.pc = "launch", !.class = i, !.todo = S]]
  BY <1>0 DEF Claim
<1>3. IsFiniteSet(S) /\ Cardinality(S) \in Nat
  BY FS_Subset, FS_CardinalityType, JobsAssumption
<1>4. ConcurrencyLimit'
  <2> SUFFICES ASSUME NEW k \in 1..Len(ClassOrder), NEW d, d = ClassOrder[k]
               PROVE  Cardinality(ProcessingIn(d))' <= Limit[d]
    BY DEF ConcurrencyLimit
  <2>1. CASE d = c
    <3>1. ProcessingIn(c)' = ProcessingIn(c) \cup S
      BY <1>2 DEF ProcessingIn, SetAll
    <3>2. Cardinality(ProcessingIn(c) \cup S)
            = Cardinality(ProcessingIn(c)) + Cardinality(S)
              - Cardinality(ProcessingIn(c) \cap S)
      BY <1>3, ProcessingFinite, FS_Union
    <3>3. Cardinality(ProcessingIn(c) \cap S) \in Nat
      <4>1. ProcessingIn(c) \cap S \in SUBSET S
        OBVIOUS
      <4> QED
        BY <1>3, <4>1, FS_Subset, FS_CardinalityType
    <3>4. Cardinality(ProcessingIn(c)) + loop[l].slots <= Limit[c]
      BY <1>0 DEF Claim, SlotsFit
    <3>5. Cardinality(ProcessingIn(c)) \in Nat
      BY ProcessingCount
    <3>6. Cardinality(ProcessingIn(c) \cup S) <= Limit[c]
      BY <1>1, <1>2, <1>3, <3>2, <3>3, <3>4, <3>5
    <3> QED
      BY <2>1, <3>1, <3>6
  <2>2. CASE d # c
    <3>1. ProcessingIn(d)' = ProcessingIn(d)
      BY <1>2, <2>2 DEF ProcessingIn, SetAll
    <3> QED
      BY <3>1 DEF ConcurrencyLimit
  <2> QED
    BY <2>1, <2>2
<1>5. SlotsFit'
  <2>1. \A m \in Loops : loop'[m].pc # "claim"
    <3> TAKE m \in Loops
    <3>1. CASE m = l
      BY <1>2, <3>1 DEF LoopTypes, NextClass, LoopOff
    <3>2. CASE m # l
      BY <1>2, <3>2 DEF LoopTypes, AtMostOne, Active, Claim
    <3> QED
      BY <3>1, <3>2
  <2> QED
    BY <2>1 DEF SlotsFit
<1> QED
  BY <1>4, <1>5

(* The class limits bound the rows being processed (runProcessingLoop,     *)
(* claimPendingJobsForType), unless two loops have overlapped or a count   *)
(* could not be read.                                                      *)
THEOREM LimitKeptCorrect == Spec => []LimitKept
<1>1. Init => LimitInv
  <2> SUFFICES ASSUME Init PROVE LimitInv
    OBVIOUS
  <2>1. \A c : Cardinality(ProcessingIn(c)) = 0
    <3> TAKE c
    <3>1. ProcessingIn(c) = {}
      BY DEF Init, ProcessingIn
    <3> QED
      BY <3>1, FS_EmptySet
  <2>2. ConcurrencyLimit
    BY <2>1, ClassLimit DEF ConcurrencyLimit
  <2>3. SlotsFit
    BY DEF Init, SlotsFit, LoopOff
  <2> QED
    BY <2>2, <2>3, FlagInit DEF LimitInv
<1>2. LimitInv /\ [Next]_vars => LimitInv'
  <2> SUFFICES ASSUME LimitInv, [Next]_vars PROVE LimitInv'
    OBVIOUS
  <2>1. FlagInv' /\ RowTypes /\ LoopTypes /\ RunTypes
    BY FlagStep DEF LimitInv, FlagInv, TypeOK
  <2>2. CASE overlapped \/ blind
    BY <2>1, <2>2, OverlapStays, BlindStays DEF LimitInv
  <2>3. CASE ~overlapped /\ ~blind
    <3>1. AtMostOne /\ ConcurrencyLimit /\ SlotsFit
      BY <2>3 DEF LimitInv, FlagInv
    <3>2. ASSUME NEW l \in Loops, CountFails(l) PROVE blind'
      BY <3>2 DEF CountFails
    <3>3. blind' \/ (ConcurrencyLimit' /\ SlotsFit')
      BY <2>1, <3>1, <3>2, StepTame, TameKeepsLimits, CountKeepsLimits, ClaimKeepsLimits
    <3> QED
      BY <2>1, <3>3 DEF LimitInv
  <2> QED
    BY <2>2, <2>3
<1>3. LimitInv => LimitKept
  BY DEF LimitInv, LimitKept
<1> QED
  BY <1>1, <1>2, <1>3, PTL DEF Spec
=============================================================================

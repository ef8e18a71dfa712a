------------------------------- MODULE Outbox -------------------------------
(***************************************************************************)
(* The transactional outbox: OutboxWriter.append numbers the events of an  *)
(* aggregate inside the caller's transaction, OutboxDispatcher claims the  *)
(* pending rows and publishes them on the event bus.                       *)
(*                                                                         *)
(* A dispatch sweep is started by a notification or by a timer, in any     *)
(* replica, while others are under way; a step of it is one statement.     *)
(***************************************************************************)
EXTENDS Naturals, FiniteSets

CONSTANTS
    Events,       \* one append each
    Aggregate,    \* the aggregate of an event, a number in their sort order
    Sweeps,       \* sweeps that can be under way at the same time
    BatchSize, MaxAttempts,
    MaxFaults,    \* bound: publishes and statements that fail
    MaxDeaths,    \* bound: sweeps that die with their process, or on an error
    None

ASSUME EventsAssumption ==
    /\ IsFiniteSet(Events)
    /\ Aggregate \in [Events -> Nat]
    /\ None \notin Events
ASSUME SweepsAssumption == IsFiniteSet(Sweeps)
ASSUME LimitsAssumption ==
    /\ BatchSize \in Nat /\ MaxAttempts \in Nat \ {0}
    /\ MaxFaults \in Nat /\ MaxDeaths \in Nat

VARIABLES
    \* control.event_outbox
    status, seq, attempts,
    stale,        \* processing, and claimed_at older than staleMinutes
    \* the transactions that append, and their advisory locks
    writer, lock,
    \* the sweeps: step, blockedSet, and the attempts of the rows claimed and
    \* not yet handled (0 when there is none)
    pc, blocked, claimed,
    current,      \* the row whose publish has returned
    faults, deaths,
    \* history: no guard reads it
    tries,        \* calls of publish, per event
    late          \* per failed row, the sweeps that had read the failures before

table  == <<status, seq, attempts, stale>>
writes == <<writer, lock>>
sweep  == <<pc, blocked, claimed, current>>
bounds == <<faults, deaths>>
vars   == <<table, writes, sweep, bounds, tries, late>>

Aggregates == {Aggregate[e] : e \in Events}
Rows == {e \in Events : status[e] # "absent"}
NoClaim == [e \in Events |-> 0]
Of(a) == {e \in Rows : Aggregate[e] = a}

Init ==
    /\ status = [e \in Events |-> "absent"]
    /\ seq = NoClaim
    /\ attempts = NoClaim
    /\ stale = [e \in Events |-> FALSE]
    /\ writer = [e \in Events |-> "idle"]
    /\ lock = [a \in Aggregates |-> None]
    /\ pc = [s \in Sweeps |-> "off"]
    /\ blocked = [s \in Sweeps |-> {}]
    /\ claimed = [s \in Sweeps |-> NoClaim]
    /\ current = [s \in Sweeps |-> None]
    /\ faults = 0 /\ deaths = 0
    /\ tries = NoClaim
    /\ late = [e \in Events |-> {}]

-----------------------------------------------------------------------------
(* OutboxWriter.append                                                     *)

(* pg_advisory_xact_lock, held until the caller's transaction ends.        *)
LockFreeAlways(e) == TRUE
LockFree(e) == lock[Aggregate[e]] = None
Lock(e) ==
    /\ writer[e] = "idle" /\ LockFree(e)
    /\ writer' = [writer EXCEPT ![e] = "locked"]
    /\ lock' = [lock EXCEPT ![Aggregate[e]] = e]
    /\ UNCHANGED <<table, sweep, bounds, tries, late>>

(* MAX(seq) over the committed rows; the row stays invisible until the     *)
(* commit.                                                                 *)
ReadMax(e) ==
    /\ writer[e] = "locked"
    /\ writer' = [writer EXCEPT ![e] = "numbered"]
    /\ seq' = [seq EXCEPT ![e] = 1 + CHOOSE n \in 0..Cardinality(Events) :
                   /\ n = 0 \/ \E f \in Of(Aggregate[e]) : seq[f] = n
                   /\ \A f \in Of(Aggregate[e]) : seq[f] <= n]
    /\ UNCHANGED <<status, attempts, stale, lock, sweep, bounds, tries, late>>

EndWrite(e, end) ==
    /\ writer' = [writer EXCEPT ![e] = end]
    /\ lock' = [lock EXCEPT ![Aggregate[e]] = None]

Commit(e) ==
    /\ writer[e] = "numbered"
    /\ EndWrite(e, "done")
    /\ status' = [status EXCEPT ![e] = "pending"]
    /\ UNCHANGED <<seq, attempts, stale, sweep, bounds, tries, late>>

(* The caller's transaction fails: neither its change nor the event stays. *)
Rollback(e) ==
    /\ writer[e] \in {"locked", "numbered"} /\ faults < MaxFaults
    /\ faults' = faults + 1
    /\ EndWrite(e, "done")
    /\ seq' = [seq EXCEPT ![e] = 0]
    /\ UNCHANGED <<status, attempts, stale, sweep, deaths, tries, late>>

-----------------------------------------------------------------------------
(* OutboxDispatcher.runDispatchSweep                                       *)

Goto(s, step) == pc' = [pc EXCEPT ![s] = step]

StartSweep(s) ==
    /\ pc[s] = "off"
    /\ Goto(s, "ceiling")
    /\ UNCHANGED <<table, writes, blocked, claimed, current, bounds, tries, late>>

(* The sweeps that have read the failed aggregates.                        *)
HasRead(s) == pc[s] \in {"claim", "rows", "mark", "caught"}

(* History: a row that fails does so too late for those that have read,    *)
(* except for the sweep that fails it.                                     *)
Noted(s, S, st) ==
    late' = [e \in Events |->
                IF e \notin S THEN late[e]
                ELSE IF st # "failed" THEN {}
                ELSE (IF status[e] = "failed" THEN late[e]
                      ELSE {t \in Sweeps : HasRead(t)}) \ {s}]

(* An UPDATE of the rows S by sweep s.                                     *)
WriteAtClaim(s, S, st) ==
    /\ status' = [e \in Events |-> IF e \notin S THEN status[e]
                                  ELSE IF st = "processing" THEN "dispatched" ELSE st]
    /\ stale' = [e \in Events |-> e \notin S /\ stale[e]]
    /\ Noted(s, S, st)
Write(s, S, st) ==
    /\ status' = [e \in Events |-> IF e \in S THEN st ELSE status[e]]
    /\ stale' = [e \in Events |-> e \notin S /\ stale[e]]
    /\ Noted(s, S, st)

StaleForgotten == {}
Stale == {e \in Events : stale[e]}
Spent == {e \in Events : attempts[e] >= MaxAttempts}

FailSpent(s) ==
    /\ pc[s] = "ceiling"
    /\ Goto(s, "reclaim")
    /\ Write(s, Stale \cap Spent, "failed")
    /\ UNCHANGED <<seq, attempts, writes, blocked, claimed, current, bounds, tries>>

ReclaimResets(e) == 0
ReclaimCount(e) == attempts[e] + 1
Reclaim(s) ==
    /\ pc[s] = "reclaim"
    /\ Goto(s, "blocked")
    /\ Write(s, Stale \ Spent, "pending")
    /\ attempts' = [e \in Events |-> IF e \in Stale \ Spent THEN ReclaimCount(e)
                                                            ELSE attempts[e]]
    /\ UNCHANGED <<seq, writes, blocked, claimed, current, bounds, tries>>

(* The aggregates with a failed row, read once before the claim.           *)
FailedNotRead == {}
FailedAggregates == {Aggregate[e] : e \in {f \in Events : status[f] = "failed"}}
ReadBlocked(s) ==
    /\ pc[s] = "blocked"
    /\ Goto(s, "claim")
    /\ blocked' = [blocked EXCEPT ![s] = FailedAggregates]
    /\ late' = [e \in Events |-> late[e] \ {s}]
    /\ UNCHANGED <<table, writes, claimed, current, bounds, tries>>

Before(e, f) == \/ Aggregate[e] < Aggregate[f]
                \/ Aggregate[e] = Aggregate[f] /\ seq[e] < seq[f]
Pending == {e \in Events : status[e] = "pending"}
Batch == {e \in Pending : Cardinality({f \in Pending : Before(f, e)}) < BatchSize}

(* The first BatchSize pending rows, blocked or not.                       *)
ClaimCountedOnce(e) == IF attempts[e] = 0 THEN 1 ELSE attempts[e]
ClaimCount(e) == attempts[e] + 1
Claim(s) ==
    LET count == [e \in Events |-> IF e \in Batch THEN ClaimCount(e) ELSE attempts[e]]
    IN /\ pc[s] = "claim"
       /\ Goto(s, IF Batch = {} THEN "off" ELSE "rows")
       /\ Write(s, Batch, "processing")
       /\ attempts' = count
       /\ claimed' = [claimed EXCEPT ![s] = [e \in Events |-> IF e \in Batch THEN count[e] ELSE 0]]
       /\ blocked' = IF Batch = {} THEN [blocked EXCEPT ![s] = {}] ELSE blocked
       /\ UNCHANGED <<seq, writes, current, bounds, tries>>

(* The rows of the batch, one after the other in the order in which the    *)
(* UPDATE happened to return them.                                         *)
Mine(s, e) == pc[s] = "rows" /\ claimed[s][e] > 0
Handled(s, e) ==
    /\ claimed' = [claimed EXCEPT ![s][e] = 0]
    /\ current' = [current EXCEPT ![s] = None]

(* After row e: the next one, or the end of the sweep.                     *)
Go(s, e, block) ==
    LET last == \A f \in Events \ {e} : claimed[s][f] = 0
    IN /\ Goto(s, IF last THEN "off" ELSE "rows")
       /\ blocked' = [blocked EXCEPT ![s] = IF last THEN {} ELSE @ \cup block]

(* A row of a blocked aggregate goes back, and its claim is not counted.   *)
Release(s, e) ==
    /\ Mine(s, e) /\ Aggregate[e] \in blocked[s]
    /\ Handled(s, e) /\ Go(s, e, {})
    /\ Write(s, {e}, "pending")
    /\ attempts' = [attempts EXCEPT ![e] = @ - 1]
    /\ UNCHANGED <<seq, writes, bounds, tries>>

TooMany(s, e) == claimed[s][e] > MaxAttempts
GiveUp(s, e) ==
    /\ Mine(s, e) /\ Aggregate[e] \notin blocked[s] /\ TooMany(s, e)
    /\ Handled(s, e) /\ Go(s, e, {Aggregate[e]})
    /\ Write(s, {e}, "failed")
    /\ UNCHANGED <<seq, attempts, writes, bounds, tries>>

Call(s, e, step) ==
    /\ Mine(s, e) /\ Aggregate[e] \notin blocked[s] /\ ~TooMany(s, e)
    /\ Goto(s, step)
    /\ current' = [current EXCEPT ![s] = e]
    /\ tries' = [tries EXCEPT ![e] = @ + 1]
    /\ UNCHANGED <<table, writes, blocked, claimed, deaths, late>>

(* PgEventBus swallows the error of the NOTIFY: the event is lost, and     *)
(* nothing tells ...                                                       *)
Publish(s, e) ==
    /\ Call(s, e, "mark")
    /\ UNCHANGED faults

(* ... but it throws the error of the connection.                          *)
PublishThrows(s, e) ==
    /\ Call(s, e, "caught") /\ faults < MaxFaults
    /\ faults' = faults + 1

MarkDispatched(s) ==
    LET e == current[s] IN
    /\ pc[s] = "mark"
    /\ Handled(s, e) /\ Go(s, e, {})
    /\ Write(s, {e}, "dispatched")
    /\ UNCHANGED <<seq, attempts, writes, bounds, tries>>

(* This UPDATE is inside the try block too.                                *)
MarkFails(s) ==
    /\ pc[s] = "mark" /\ faults < MaxFaults
    /\ faults' = faults + 1
    /\ Goto(s, "caught")
    /\ UNCHANGED <<table, writes, blocked, claimed, current, deaths, tries, late>>

(* The catch block: the row fails at the ceiling, and blocks its aggregate *)
(* for the rest of the batch, or goes back to pending.                     *)
BlockOf(s, e) == IF claimed[s][e] >= MaxAttempts THEN {Aggregate[e]} ELSE {}
Caught(s) ==
    LET e == current[s] IN
    /\ pc[s] = "caught"
    /\ Handled(s, e) /\ Go(s, e, BlockOf(s, e))
    /\ Write(s, {e}, IF claimed[s][e] >= MaxAttempts THEN "failed" ELSE "pending")
    /\ UNCHANGED <<seq, attempts, writes, bounds, tries>>

(* The process dies, or a statement outside the try block throws: the rows *)
(* of the batch stay "processing".                                         *)
SweepDies(s) ==
    /\ pc[s] # "off" /\ deaths < MaxDeaths
    /\ deaths' = deaths + 1
    /\ Goto(s, "off")
    /\ blocked' = [blocked EXCEPT ![s] = {}]
    /\ claimed' = [claimed EXCEPT ![s] = NoClaim]
    /\ current' = [current EXCEPT ![s] = None]
    /\ UNCHANGED <<table, writes, faults, tries, late>>

(* Five minutes pass after a claim.  Nothing bounds a publish, which waits *)
(* for a pooled connection: the sweep of the claim may still be alive.     *)
Age(e) ==
    /\ status[e] = "processing" /\ ~stale[e]
    /\ stale' = [stale EXCEPT ![e] = TRUE]
    /\ UNCHANGED <<status, seq, attempts, writes, sweep, bounds, tries, late>>

-----------------------------------------------------------------------------
WriteStep(e) == Lock(e) \/ ReadMax(e) \/ Commit(e) \/ Rollback(e)

SweepProgress(s) ==
    \/ StartSweep(s) \/ FailSpent(s) \/ Reclaim(s) \/ ReadBlocked(s) \/ Claim(s)
    \/ \E e \in Events : Release(s, e) \/ GiveUp(s, e) \/ Publish(s, e)
    \/ MarkDispatched(s) \/ Caught(s)

SweepFault(s) ==
    \/ \E e \in Events : PublishThrows(s, e)
    \/ MarkFails(s) \/ SweepDies(s)

Next ==
    \/ \E e \in Events : WriteStep(e) \/ Age(e)
    \/ \E s \in Sweeps : SweepProgress(s) \/ SweepFault(s)

Spec == Init /\ [][Next]_vars

(* The interval timer starts a sweep again and again, the statements of a  *)
(* sweep return, and time passes.                                          *)
Fairness ==
    /\ \A s \in Sweeps : WF_vars(SweepProgress(s))
    /\ \A e \in Events : WF_vars(Age(e))

FairSpec == Spec /\ Fairness

-----------------------------------------------------------------------------
(* Properties                                                              *)

(* Every variable holds a value of its type; the attempts column never     *)
(* goes below zero, although a release subtracts one from whatever it is.  *)
TypeOK ==
    /\ status \in [Events -> {"absent", "pending", "processing", "dispatched", "failed"}]
    /\ seq \in [Events -> Nat]
    /\ attempts \in [Events -> Nat]
    /\ stale \in [Events -> BOOLEAN]
    /\ writer \in [Events -> {"idle", "locked", "numbered", "done"}]
    /\ lock \in [Aggregates -> Events \cup {None}]
    /\ pc \in [Sweeps -> {"off", "ceiling", "reclaim", "blocked", "claim", "rows",
                          "mark", "caught"}]
    /\ blocked \in [Sweeps -> SUBSET Aggregates]
    /\ claimed \in [Sweeps -> [Events -> Nat]]
    /\ current \in [Sweeps -> Events \cup {None}]
    /\ faults \in Nat /\ deaths \in Nat
    /\ tries \in [Events -> Nat]
    /\ late \in [Events -> SUBSET Sweeps]

(* The rows of an aggregate are numbered 1, 2, 3... without a gap or a     *)
(* double, at any moment, whatever transactions run or roll back: a reader *)
(* never sees event n + 1 before event n.                                  *)
SeqsAreDense ==
    \A a \in Aggregates :
        {seq[e] : e \in Of(a)} = 1..Cardinality(Of(a))

(* An event is handed to the bus at most MaxAttempts times, by all sweeps  *)
(* of all replicas together, also when they hold stale claims of the row   *)
(* or give its claim back.                                                 *)
DeliveryBudget == \A e \in Events : tries[e] <= MaxAttempts

(* An aggregate with a failed event publishes nothing more, whatever died, *)
(* was reclaimed or failed in the batch, but for a sweep that had read the *)
(* failed aggregates before that failure and did not fail the row itself:  *)
(* nobody else is late.  With sweeps that do not overlap, nobody is.       *)
FailureBlocks ==
    [][\A s \in Sweeps, e \in Events :
          current[s] # e /\ current'[s] = e
            => \A f \in Of(Aggregate[e]) : status[f] = "failed" => s \in late[f]]_vars

(* Every event that was committed is dispatched or given up, or an earlier *)
(* failure blocks its aggregate.                                           *)
Blocked(a) == \E e \in Of(a) : status[e] = "failed"
EventsSettle ==
    \A e \in Events : status[e] = "pending"
        ~> status[e] = "dispatched" \/ Blocked(Aggregate[e])

(* The outbox is an event log with bounded delivery: the committed rows of *)
(* an aggregate, in the order of their numbers, only ever grow at the end; *)
(* what is published is committed; and what is marked was published.       *)
Numbered(a, n) == CHOOSE e \in Of(a) : seq[e] = n
Log == [a \in Aggregates |-> [n \in 1..Cardinality(Of(a)) |-> Numbered(a, n)]]
Outcome(e) ==
    CASE status[e] = "dispatched" -> "sent"
      [] status[e] = "failed" -> "failed"
      [] OTHER -> "open"

Promise == INSTANCE EventLog WITH
        MaxDeliveries <- MaxAttempts,
        log <- Log,
        deliveries <- tries,
        outcome <- [e \in Events |-> Outcome(e)]
BoundedDelivery == Promise!Spec

=============================================================================

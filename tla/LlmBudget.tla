----------------------------- MODULE LlmBudget ------------------------------
(***************************************************************************)
(* LLM metering: a request reserves its liability in every budget bucket   *)
(* that applies to it, marks its hold before the provider is called, and   *)
(* settles once; the reaper expires the holds that nobody settled.         *)
(*                                                                         *)
(* Requests are routed by the gateway (packages/llm-gateway) or, those of  *)
(* Decisions, made by the decision service (packages/llm-mesh).  Both use  *)
(* the tables of api/src/services/llm-metering.  A transaction is one      *)
(* step: it locks the hold and the buckets it changes.                     *)
(***************************************************************************)
EXTENDS LlmPricing, FiniteSets, Functions

CONSTANTS
    Requests, Decisions,
    Buckets, Cap,
    Applies,      \* the buckets of a request
    Quote,
    Margin,       \* percent added to an estimated input
    UsageReports, \* what a provider may report
    Observed,     \* requests whose id an observer row may carry
    MaxFaults,    \* bound: transactions that fail, or whose answer is lost
    MaxMonths,    \* bound: ends of a month
    MaxCrashes

ASSUME RequestsAssumption ==
    /\ IsFiniteSet(Requests)
    /\ Decisions \subseteq Requests /\ Observed \subseteq Requests \ Decisions
ASSUME BucketsAssumption ==
    /\ IsFiniteSet(Buckets) /\ Cap \in [Buckets -> Nat]
    /\ Applies \in [Requests -> (SUBSET Buckets) \ {{}}]
ASSUME QuoteAssumption ==
    /\ Quote \in [Requests -> Quotes]
    /\ \A r \in Requests : Quote[r].candidates # {} /\ IsFiniteSet(Quote[r].candidates)
    /\ \A d \in Decisions : Quote[d].maxAttempts = 1
    /\ UsageReports \subseteq Usages /\ Margin \in Nat
ASSUME BoundsAssumption == {MaxFaults, MaxMonths, MaxCrashes} \subseteq Nat

VARIABLES
    \* control.budgets
    spent, reserved, resetDue,
    \* control.budget_holds: status, dispatch_started_at is set, deadline_at is past
    hold, marked, expired,
    row,          \* the row of control.cost_ledger whose idempotency key is the request
    disabled,     \* control.decision_evaluator_state of the one evaluator
    \* the request in its gateway process: step, attempts used, the cost of
    \* their usage, some attempt is in admission.dispatched, cost is uncertain
    pc, used, bill, sent, unsure,
    faults, months, crashes,
    \* history
    called,       \* the provider may have been called
    exceeded,     \* the provider reported more than an attempt was allowed
    epoch,        \* resets of a bucket
    chargedIn,    \* the epochs of the buckets when the request was charged
    correctedIn   \* and when its charge was corrected

budget == <<spent, reserved, resetDue, epoch>>
holds == <<hold, marked>>
request == <<used, bill, sent, unsure>>
bounds == <<faults, months, crashes>>
history == <<called, exceeded>>
booked == <<chargedIn, correctedIn>>
vars == <<budget, holds, expired, row, disabled, pc, request, bounds, history, booked>>

Liability(r) == QuoteLiability(Quote[r], IF r \in Decisions THEN 0 ELSE Margin)
NotReleased(r) == hold[r] \notin {"none", "released"}
Open(r) == hold[r] \in {"held", "dispatched"}
NoRow == [by |-> "none", cost |-> 0, state |-> "none"]
OwnRow(cost, state) == [by |-> "own", cost |-> cost, state |-> state]
ObserverRow == [by |-> "observer", cost |-> 0, state |-> "none"]

Init ==
    /\ spent = [b \in Buckets |-> 0] /\ reserved = [b \in Buckets |-> 0]
    /\ resetDue = {} /\ epoch = [b \in Buckets |-> 0]
    /\ hold = [r \in Requests |-> "none"]
    /\ marked = [r \in Requests |-> FALSE]
    /\ expired = [r \in Requests |-> FALSE]
    /\ row = [r \in Requests |-> NoRow]
    /\ disabled \in BOOLEAN      \* by an earlier call
    /\ pc = [r \in Requests |-> "new"]
    /\ used = [r \in Requests |-> 0] /\ bill = [r \in Requests |-> 0]
    /\ sent = [r \in Requests |-> FALSE] /\ unsure = [r \in Requests |-> FALSE]
    /\ faults = 0 /\ months = 0 /\ crashes = 0
    /\ called = [r \in Requests |-> FALSE] /\ exceeded = [r \in Requests |-> FALSE]
    /\ chargedIn = [r \in Requests |-> epoch] /\ correctedIn = [r \in Requests |-> epoch]

-----------------------------------------------------------------------------
(* Statements on the tables                                                *)

Goto(r, step) == pc' = [pc EXCEPT ![r] = step]
Fault == faults < MaxFaults /\ faults' = faults + 1 /\ UNCHANGED <<months, crashes>>

(* The buckets of r get `back` off their reserve and `charge` on their     *)
(* spend, neither below zero.                                              *)
PayUnclamped(r, back, charge) ==
    /\ reserved' = [b \in Buckets |-> IF b \in Applies[r] THEN reserved[b] - back ELSE reserved[b]]
    /\ spent' = [b \in Buckets |-> IF b \in Applies[r] THEN spent[b] + charge ELSE spent[b]]
    /\ UNCHANGED <<resetDue, epoch>>
Pay(r, back, charge) ==
    /\ reserved' = [b \in Buckets |->
                      IF b \in Applies[r] THEN Larger(0, reserved[b] - back) ELSE reserved[b]]
    /\ spent' = [b \in Buckets |->
                      IF b \in Applies[r] THEN Larger(0, spent[b] + charge) ELSE spent[b]]
    /\ UNCHANGED <<resetDue, epoch>>

Charge(r, back, charge) ==
    /\ Pay(r, back, charge)
    /\ chargedIn' = [chargedIn EXCEPT ![r] = epoch] /\ UNCHANGED correctedIn
Correct(r, delta) ==
    /\ Pay(r, 0, delta)
    /\ correctedIn' = [correctedIn EXCEPT ![r] = epoch] /\ UNCHANGED chargedIn

SetHold(r, status) == hold' = [hold EXCEPT ![r] = status]
SetRow(r, new) == row' = [row EXCEPT ![r] = new]

FreeHold(r) ==
    /\ SetHold(r, "released")
    /\ Pay(r, Liability(r), 0)
    /\ UNCHANGED <<row, booked>>

-----------------------------------------------------------------------------
(* createBudgetAdmission.admit: due buckets are reset, then the caps are   *)
(* tested and the liability is reserved.  A refusal keeps the resets.      *)

Due(r) == Applies[r] \cap resetDue
SpentNow(r) == [b \in Buckets |-> IF b \in Due(r) THEN 0 ELSE spent[b]]
FitsSpent(r) == \A b \in Applies[r] : SpentNow(r)[b] + Liability(r) <= Cap[b]
Fits(r) == \A b \in Applies[r] : SpentNow(r)[b] + reserved[b] + Liability(r) <= Cap[b]

ResetDue(r) ==
    /\ spent' = SpentNow(r)
    /\ epoch' = [b \in Buckets |-> IF b \in Due(r) THEN epoch[b] + 1 ELSE epoch[b]]
    /\ resetDue' = resetDue \ Due(r)

Idle(r) == pc[r] = "new" /\ (r \in Decisions => ~disabled)

Admit(r) ==
    /\ Idle(r) /\ Fits(r)
    /\ ResetDue(r)
    /\ reserved' = [b \in Buckets |->
                      IF b \in Applies[r] THEN reserved[b] + Liability(r) ELSE reserved[b]]
    /\ SetHold(r, "held")
    /\ \/ Goto(r, "ready") /\ UNCHANGED bounds
       \/ Goto(r, "done") /\ Fault     \* the answer of the commit is lost
    /\ UNCHANGED <<marked, expired, row, disabled, request, history, booked>>

Refuse(r) ==
    /\ Idle(r) /\ ~Fits(r)
    /\ ResetDue(r)
    /\ Goto(r, "done")
    /\ UNCHANGED <<reserved, holds, expired, row, disabled, request, bounds, history, booked>>

(* lockDecisionEvaluator: the evaluator was disabled.                      *)
RefuseDisabled(r) ==
    /\ pc[r] = "new" /\ r \in Decisions /\ disabled
    /\ Goto(r, "done")
    /\ UNCHANGED <<budget, holds, expired, row, disabled, request, bounds, history, booked>>

-----------------------------------------------------------------------------
(* The routed request: attempts in turn, each marked before the provider   *)
(* is called, then one settlement.                                         *)

Attempts(r) == Quote[r].maxAttempts
Route(r, step) == r \notin Decisions /\ pc[r] = step

(* A request none of whose attempts was dispatched releases its hold.      *)
Conclude(r) == Goto(r, IF sent[r] THEN "settling" ELSE "releasing")

(* The plan is refused, the caller is gone, or no attempt is left.         *)
GiveUp(r) ==
    /\ Route(r, "ready")
    /\ Conclude(r)
    /\ UNCHANGED <<budget, holds, expired, row, disabled, request, bounds, history, booked>>

(* An attempt fails before its mark, and another one may follow.           *)
SkipAttempt(r) ==
    /\ Route(r, "ready") /\ used[r] < Attempts(r)
    /\ used' = [used EXCEPT ![r] = @ + 1]
    /\ UNCHANGED <<budget, holds, expired, row, disabled, pc, bill, sent, unsure, bounds,
                   history, booked>>

(* UPDATE ... SET status = 'dispatched', dispatch_started_at = COALESCE... *)
MayMarkLate(r) == Open(r)
MayMark(r) == Open(r) /\ ~expired[r]
WriteMark(r) ==
    /\ SetHold(r, "dispatched")
    /\ marked' = [marked EXCEPT ![r] = TRUE]

Mark(r) ==
    /\ Route(r, "ready") /\ used[r] < Attempts(r) /\ MayMark(r)
    /\ WriteMark(r)
    /\ used' = [used EXCEPT ![r] = @ + 1]
    /\ \/ /\ sent' = [sent EXCEPT ![r] = TRUE]
          /\ called' = [called EXCEPT ![r] = TRUE]
          /\ Goto(r, "calling") /\ UNCHANGED bounds
       \/ /\ UNCHANGED <<sent, called>>
          /\ Conclude(r) /\ Fault      \* the answer is lost: no call
    /\ UNCHANGED <<budget, expired, row, disabled, bill, unsure, exceeded, booked>>

MarkRefused(r) ==
    /\ Route(r, "ready") /\ used[r] < Attempts(r)
    /\ \/ ~MayMark(r) /\ UNCHANGED bounds
       \/ MayMark(r) /\ Fault
    /\ Conclude(r)
    /\ UNCHANGED <<budget, holds, expired, row, disabled, request, history, booked>>

(* The provider answers or fails; what it reports is charged.              *)
Answer(r) ==
    /\ Route(r, "calling")
    /\ \E c \in Quote[r].candidates, u \in UsageReports :
         /\ bill' = [bill EXCEPT ![r] = @ + AttemptCost(c, u)]
         /\ exceeded' = [exceeded EXCEPT ![r] = @ \/ ~WithinAllowance(c, u)]
    /\ \/ Goto(r, "settling")
       \/ used[r] < Attempts(r) /\ Goto(r, "ready")   \* it failed, and is retried
    /\ UNCHANGED <<budget, holds, expired, row, disabled, used, sent, unsure, bounds, called,
                   booked>>

(* release: a dispatch marker, even of an ambiguous failure, keeps it.     *)
FreeableTwice(r) == ~marked[r]
Freeable(r) == hold[r] = "held" /\ ~marked[r]
Release(r) ==
    /\ Route(r, "releasing")
    /\ \/ /\ IF Freeable(r) THEN FreeHold(r) ELSE UNCHANGED <<hold, row, budget, booked>>
          /\ UNCHANGED bounds
       \/ Fault /\ UNCHANGED <<hold, row, budget, booked>>    \* swallowed
    /\ Goto(r, "settling")
    /\ UNCHANGED <<marked, expired, disabled, request, history>>

-----------------------------------------------------------------------------
(* createRouteSettlement.settleRoute: one transaction, called once.  The   *)
(* row of an observer becomes the financial row of the request; a hold the *)
(* reaper has reconciled is corrected only through its own pending row.    *)

AwaitsCorrectionAlways(r) == hold[r] = "reconciled"
AwaitsCorrection(r) ==
    hold[r] = "reconciled" /\ row[r].by = "own" /\ row[r].state = "pending"

CorrectRowFreely(r, cost) ==
    /\ SetRow(r, OwnRow(cost, "reconciled"))
    /\ Correct(r, 0 - row[r].cost)
    /\ UNCHANGED hold
CorrectRow(r, cost) ==
    /\ SetRow(r, OwnRow(cost, "reconciled"))
    /\ Correct(r, cost - row[r].cost)
    /\ UNCHANGED hold

SettleRoute(r) ==
    /\ Route(r, "settling")
    /\ \/ /\ Open(r)
          /\ SetRow(r, OwnRow(bill[r], "none"))
          /\ Charge(r, Liability(r), bill[r])
          /\ SetHold(r, "settled")
       \/ AwaitsCorrection(r) /\ CorrectRow(r, bill[r])
       \/ /\ ~Open(r) /\ ~AwaitsCorrection(r)
          /\ UNCHANGED <<row, budget, hold, booked>>
    /\ Goto(r, "done")
    /\ UNCHANGED <<marked, expired, disabled, request, bounds, history>>

(* The transaction fails: it is not tried again.                           *)
SettleFails(r) ==
    /\ pc[r] = "settling"
    /\ Goto(r, "done") /\ Fault
    /\ UNCHANGED <<budget, holds, expired, row, disabled, request, history, booked>>

-----------------------------------------------------------------------------
(* The decision call: one attempt, under the lock of its evaluator         *)

Decision(r, step) == r \in Decisions /\ pc[r] = step

DecisionMark(r) ==
    /\ Decision(r, "ready") /\ ~disabled /\ hold[r] = "held" /\ ~expired[r]
    /\ WriteMark(r)
    /\ \/ Goto(r, "marked") /\ UNCHANGED bounds
       \/ Goto(r, "done") /\ Fault     \* ambiguous: the hold is kept
    /\ UNCHANGED <<budget, expired, row, disabled, request, history, booked>>

(* provenUnsent: the hold is still held.  Otherwise nothing is released.   *)
DecisionMarkRefused(r) ==
    /\ Decision(r, "ready")
    /\ \/ /\ disabled \/ expired[r] \/ hold[r] # "held"
          /\ Goto(r, IF hold[r] = "held" THEN "releasing" ELSE "done")
          /\ UNCHANGED bounds
       \/ Fault /\ Goto(r, "done")
    /\ UNCHANGED <<budget, holds, expired, row, disabled, request, history, booked>>

(* The deadline of the call, a cancellation or a lost authority, before    *)
(* the mark or after it: the provider has not been called.                 *)
DecisionInterrupted(r) ==
    /\ Decision(r, "ready") \/ Decision(r, "marked")
    /\ Goto(r, "releasing")
    /\ UNCHANGED <<budget, holds, expired, row, disabled, request, bounds, history, booked>>

DecisionDispatch(r) ==
    /\ Decision(r, "marked")
    /\ called' = [called EXCEPT ![r] = TRUE]
    /\ Goto(r, "calling")
    /\ UNCHANGED <<budget, holds, expired, row, disabled, request, bounds, exceeded, booked>>

(* priceDecisionUsage: unknown usage costs the reserve and stays pending.  *)
DecisionAnswer(r) ==
    /\ Decision(r, "calling")
    /\ \E c \in Quote[r].candidates, u \in UsageReports :
         /\ bill' = [bill EXCEPT ![r] = IF u.estimated THEN Liability(r)
                                        ELSE TokenCost(c.price, u.inputTokens, 0)]
         /\ unsure' = [unsure EXCEPT ![r] = u.estimated]
         /\ exceeded' = [exceeded EXCEPT ![r] = ~WithinAllowance(c, u)]
    /\ \/ Goto(r, "settling")
       \/ Goto(r, "done")              \* retainHold: the usage is invalid
    /\ UNCHANGED <<budget, holds, expired, row, disabled, used, sent, bounds, called, booked>>

(* The service releases only what it has not sent, so the mark is undone.  *)
DecisionRelease(r) ==
    /\ Decision(r, "releasing")
    /\ \/ /\ IF Open(r) THEN FreeHold(r) ELSE UNCHANGED <<hold, row, budget, booked>>
          /\ marked' = [marked EXCEPT ![r] = @ /\ ~Open(r)]
          /\ UNCHANGED bounds
       \/ Fault /\ UNCHANGED <<hold, marked, row, budget, booked>>
    /\ Goto(r, "done")
    /\ UNCHANGED <<expired, disabled, request, history>>

(* settleDecision: a bound that was exceeded disables the evaluator.  Of a *)
(* hold closed without a row it throws, and then that is rolled back too.  *)
SettleDecision(r) ==
    /\ Decision(r, "settling")
    /\ disabled' = (disabled \/ (bill[r] > Liability(r) /\ (Open(r) \/ row[r] # NoRow)))
    /\ \/ /\ Open(r) /\ row[r] = NoRow
          /\ SetRow(r, OwnRow(bill[r], IF unsure[r] THEN "pending" ELSE "none"))
          /\ Charge(r, Liability(r), bill[r])
          /\ SetHold(r, IF unsure[r] THEN "reconciled" ELSE "settled")
       \/ AwaitsCorrection(r) /\ ~unsure[r] /\ CorrectRow(r, bill[r])
       \/ /\ ~(Open(r) /\ row[r] = NoRow) /\ ~(AwaitsCorrection(r) /\ ~unsure[r])
          /\ UNCHANGED <<row, budget, hold, booked>>
    /\ Goto(r, "done")
    /\ UNCHANGED <<marked, expired, request, bounds, history>>

-----------------------------------------------------------------------------
(* reapExpiredHolds, one transaction per hold                              *)

ReapableHeld(r) == hold[r] = "held" /\ expired[r]
Reapable(r) == Open(r) /\ expired[r]
SparedAlways(r) == TRUE
Spared(r) == hold[r] = "held" /\ ~marked[r]
BillSoFar(r) == bill[r]
Conservative(r) == Liability(r)

ReapRelease(r) ==
    /\ Reapable(r) /\ Spared(r)
    /\ FreeHold(r)
    /\ UNCHANGED <<marked, expired, disabled, pc, request, bounds, history>>

(* Its UPDATE of the buckets clamps the reserve, and not the spend.        *)
ReapPay(r, charge) ==
    /\ reserved' = [b \in Buckets |->
                      IF b \in Applies[r] THEN Larger(0, reserved[b] - Liability(r)) ELSE reserved[b]]
    /\ spent' = [b \in Buckets |-> IF b \in Applies[r] THEN spent[b] + charge ELSE spent[b]]
    /\ chargedIn' = [chargedIn EXCEPT ![r] = epoch]
    /\ UNCHANGED <<resetDue, epoch, correctedIn>>

(* ON CONFLICT DO NOTHING: only a row of this hold means it was charged.   *)
ReapCharge(r) ==
    /\ Reapable(r) /\ ~Spared(r)
    /\ SetRow(r, IF row[r].by = "none" THEN OwnRow(Conservative(r), "pending") ELSE row[r])
    /\ ReapPay(r, IF row[r].by = "own" THEN 0 ELSE Conservative(r))
    /\ SetHold(r, "reconciled")
    /\ UNCHANGED <<marked, expired, disabled, pc, request, bounds, history>>

-----------------------------------------------------------------------------
(* The environment                                                         *)

(* recordLlmUsage with the id of the request as its call id.               *)
Observe(r) ==
    /\ r \in Observed /\ row[r] = NoRow
    /\ SetRow(r, ObserverRow)
    /\ UNCHANGED <<budget, holds, expired, disabled, pc, request, bounds, history, booked>>

(* deadline_at passes.                                                     *)
Expire(r) ==
    /\ Open(r) /\ ~expired[r]
    /\ expired' = [expired EXCEPT ![r] = TRUE]
    /\ UNCHANGED <<budget, holds, row, disabled, pc, request, bounds, history, booked>>

(* Every bucket is monthly: reset_at is the start of the next month.       *)
MonthEnds ==
    /\ months < MaxMonths /\ months' = months + 1
    /\ resetDue' = Buckets
    /\ UNCHANGED <<spent, reserved, epoch, holds, expired, row, disabled, pc, request,
                   faults, crashes, history, booked>>

(* A process dies, and with it its requests S that were under way.         *)
Crash(S) ==
    /\ S # {} /\ S \cap {r \in Requests : pc[r] \in {"new", "done"}} = {}
    /\ crashes < MaxCrashes /\ crashes' = crashes + 1
    /\ pc' = [r \in Requests |-> IF r \in S THEN "done" ELSE pc[r]]
    /\ UNCHANGED <<budget, holds, expired, row, disabled, request, faults, months, history,
                   booked>>

-----------------------------------------------------------------------------
Reap(r) == ReapRelease(r) \/ ReapCharge(r)

Next ==
    \/ \E r \in Requests :
         \/ Admit(r) \/ Refuse(r) \/ RefuseDisabled(r)
         \/ GiveUp(r) \/ SkipAttempt(r) \/ Mark(r) \/ MarkRefused(r) \/ Answer(r)
         \/ Release(r) \/ SettleRoute(r) \/ SettleFails(r)
         \/ DecisionMark(r) \/ DecisionMarkRefused(r) \/ DecisionInterrupted(r)
         \/ DecisionDispatch(r) \/ DecisionAnswer(r) \/ DecisionRelease(r) \/ SettleDecision(r)
         \/ ReapRelease(r) \/ ReapCharge(r)
         \/ Observe(r) \/ Expire(r)
    \/ MonthEnds
    \/ \E S \in SUBSET Requests : Crash(S)

Spec == Init /\ [][Next]_vars

(* The reaper sweeps at boot and on an interval; time passes.              *)
Fairness == \A r \in Requests : WF_vars(Reap(r)) /\ WF_vars(Expire(r))
FairSpec == Spec /\ Fairness

-----------------------------------------------------------------------------
(* Properties                                                              *)

TypeOK ==
    /\ spent \in [Buckets -> Nat] /\ reserved \in [Buckets -> Nat]
    /\ resetDue \subseteq Buckets /\ epoch \in [Buckets -> Nat]
    /\ hold \in [Requests -> {"none", "held", "dispatched", "released", "settled", "reconciled"}]
    /\ {marked, expired, sent, unsure, called, exceeded} \subseteq [Requests -> BOOLEAN]
    /\ row \in [Requests -> [by : {"none", "own", "observer"}, cost : Nat,
                             state : {"none", "pending", "reconciled"}]]
    /\ disabled \in BOOLEAN
    /\ pc \in [Requests -> {"new", "ready", "marked", "calling", "releasing", "settling", "done"}]
    /\ used \in [Requests -> Nat] /\ bill \in [Requests -> Nat]
    /\ {faults, months, crashes} \subseteq Nat
    /\ {chargedIn, correctedIn} \subseteq [Requests -> [Buckets -> Nat]]

(* What a request has cost the buckets: its row, or the liability that the *)
(* reaper charged behind the row of an observer.                           *)
Charged(r) ==
    CASE row[r].by = "own" -> row[r].cost
      [] row[r].by # "own" /\ hold[r] = "reconciled" -> Liability(r)
      [] OTHER -> 0

(* The sum of an amount per request over the requests of a bucket.         *)
SumOf(b, amount) == SumFunctionOnSet(amount, {r \in Requests : b \in Applies[r]})

OpenLiability == [r \in Requests |-> IF Open(r) THEN Liability(r) ELSE 0]
Charges == [r \in Requests |-> Charged(r)]
Overrun == [r \in Requests |->
              IF exceeded[r] THEN Larger(0, bill[r] - Liability(r)) ELSE 0]

(* The reserve of a bucket is the liability of its open holds, through     *)
(* every race of a settlement, a release and the reaper on one hold.       *)
ReservedIsOpen == \A b \in Buckets : reserved[b] = SumOf(b, OpenLiability)

(* Until a bucket is first reset, its spend is the sum of the charges: no  *)
(* charge without its row, none twice, whichever of settlement and reaper  *)
(* comes first.                                                            *)
SpentIsLedger ==
    \A b \in Buckets : epoch[b] = 0 => spent[b] = SumOf(b, Charges)

(* Admission keeps a bucket, as its row has it, under its cap; only a      *)
(* request whose provider reported more than its allowance can push it     *)
(* over, and by no more than that request cost above its reserve.          *)
CapKept ==
    \A b \in Buckets : spent[b] + reserved[b] <= Cap[b] + SumOf(b, Overrun)

(* What a request is billed, over all its attempts, rounding and minimum   *)
(* charges included, is within what admission reserved for it, unless its  *)
(* provider reported more than an attempt was allowed.                     *)
WithinReserve == \A r \in Requests : ~exceeded[r] => bill[r] <= Liability(r)

(* A request whose provider may have been called is never free: its hold   *)
(* stays dispatched until it is charged; settled, it costs its bill, and   *)
(* while its charge is an estimate, its whole reserve.                     *)
NoFreeCall ==
    \A r \in Requests : called[r] =>
        /\ hold[r] \in {"dispatched", "settled", "reconciled"}
        /\ hold[r] = "settled" => Charged(r) = bill[r]
        /\ hold[r] = "reconciled" /\ row[r].state = "pending" => Charged(r) >= Liability(r)

(* The ledger is append-only but for one correction: a cost is rewritten   *)
(* only in a pending row of a reconciled hold, which then is final.        *)
CorrectedOnce ==
    [][\A r \in Requests :
         row[r].by = "own" /\ row'[r] # row[r] =>
             row[r].state = "pending" /\ hold[r] = "reconciled"
               /\ row'[r].by = "own" /\ row'[r].state = "reconciled"]_vars

(* Every hold is closed, whatever its request and its process did.         *)
HoldsClose == \A r \in Requests : Open(r) ~> ~Open(r)

(* Each request keeps the promise of Reservation.                          *)
Account(r) ==
    CASE hold[r] = "none" -> "none"
      [] Open(r) -> "open"
      [] hold[r] = "released" -> "free"
      [] hold[r] = "settled" -> "final"
      [] hold[r] = "reconciled" /\ row[r].state = "reconciled" -> "final"
      [] OTHER -> "estimate"

R == INSTANCE Reservation WITH
        account <- [r \in Requests |-> Account(r)],
        committed <- [r \in Requests |-> IF Open(r) THEN Liability(r) ELSE Charged(r)]
Reservations == R!Spec

(* The cap of the month as the ledger tells it: what was charged since the *)
(* last reset of a bucket, with its open holds, stays under the cap.       *)
ChargedThisMonth(b) ==
    [r \in Requests |-> IF chargedIn[r][b] = epoch[b] THEN Charged(r) ELSE 0]
MonthlyCapKept ==
    \A b \in Buckets :
        SumOf(b, ChargedThisMonth(b)) + reserved[b] <= Cap[b] + SumOf(b, Overrun)

(* It is exceeded by no more than what the corrections of charges of       *)
(* earlier months gave back to the spend of this one.                      *)
RefundedThisMonth(b) ==
    [r \in Requests |->
        IF /\ row[r].state = "reconciled"
           /\ chargedIn[r][b] # epoch[b] /\ correctedIn[r][b] = epoch[b]
        THEN Larger(0, Liability(r) - Charged(r)) ELSE 0]
MonthlyCapBound ==
    \A b \in Buckets :
        SumOf(b, ChargedThisMonth(b)) + reserved[b]
            <= Cap[b] + SumOf(b, Overrun) + SumOf(b, RefundedThisMonth(b))

=============================================================================

---------------------------- MODULE MCLlmBudget -----------------------------
(***************************************************************************)
(* Instances of LlmBudget: a routed request and a decision call that       *)
(* share a bucket; three routed requests under a tight monthly cap.        *)
(***************************************************************************)
EXTENDS LlmBudget, TLC

CONSTANTS r1, r2, r3, d1, tenant, model

(* A rate that rounds up, reasoning dearer than output, a minimum charge.  *)
MCPrice == [input |-> 1500000, output |-> 1000000, reasoning |-> 2000000, minCharge |-> 2]
MCInputOnly == [input |-> 1500000, output |-> 0, reasoning |-> 0, minCharge |-> 2]

MCTarget(price) == [price |-> price, inputTokens |-> 3, outputTokens |-> 1, maxOutput |-> 0]
MCQuoteOf(price, attempts) == [maxAttempts |-> attempts, candidates |-> {MCTarget(price)}]

MCQuote == [r \in Requests |->
    IF r \in Decisions THEN MCQuoteOf(MCInputOnly, 1)
    ELSE MCQuoteOf(MCPrice, IF r = r1 THEN 2 ELSE 1)]

MCReport(input, output, estimated) ==
    [inputTokens |-> input, outputTokens |-> output, estimated |-> estimated]
MCReports == {MCReport(3, 1, FALSE), MCReport(5, 1, FALSE), MCReport(0, 0, TRUE)}

MCApplies == [r \in Requests |-> IF r = r1 THEN {tenant, model} ELSE {tenant}]
MCCap == [b \in Buckets |-> IF b = tenant THEN 17 ELSE 16]

(* The cap of the month is what one request reserves: at a time, only one  *)
(* fits, and another when what it cost has been given back.                *)
MCOneApplies == [r \in Requests |-> {tenant}]
MCTightCap == [b \in Buckets |-> 8]
MCOneAttempt == [r \in Requests |-> MCQuoteOf(MCPrice, 1)]
MCTrueReports == {MCReport(3, 1, FALSE), MCReport(1, 1, FALSE)}

=============================================================================

----------------------------- MODULE LlmPricing -----------------------------
(***************************************************************************)
(* The arithmetic of LLM metering, in micro-USD: what admission reserves   *)
(* for a quoted request, and what settlement charges for the usage that    *)
(* the provider reported.                                                  *)
(*                                                                         *)
(* A price is the pinned row of control.model_pricing; a candidate is one  *)
(* quoted target: its price, the token ceiling of the request, and the     *)
(* output the model may produce when its transport cannot apply that       *)
(* ceiling (0 when it can).  Image and tool units have no rate in the      *)
(* catalogue and are left out.                                             *)
(***************************************************************************)
EXTENDS Integers

Larger(m, n) == IF m > n THEN m ELSE n

Prices == [input : Nat, output : Nat, reasoning : Nat, minCharge : Nat]
Candidates == [price : Prices, inputTokens : Nat, outputTokens : Nat, maxOutput : Nat]
Quotes == [maxAttempts : Nat \ {0}, candidates : SUBSET Candidates]
Usages == [inputTokens : Nat, outputTokens : Nat, estimated : BOOLEAN]

(* A rate is per million tokens; a part of a micro-USD counts as one.      *)
PerMtok(tokens, rate) == (tokens * rate + 999999) \div 1000000

(* The quote does not say how much of the output is reasoning.             *)
OutputRate(price) == Larger(price.output, price.reasoning)

TokenCost(price, input, output) ==
    Larger(PerMtok(input, price.input) + PerMtok(output, OutputRate(price)), price.minCharge)

(* The input side of a quote is an estimate, reserved with a margin.       *)
WithMargin(tokens, percent) == (tokens * (100 + percent) + 99) \div 100

ReservedOutput(c) == Larger(c.outputTokens, c.maxOutput)

AttemptLiability(c, percent) ==
    TokenCost(c.price, WithMargin(c.inputTokens, percent), ReservedOutput(c))

(* The liability of a request: every attempt at the dearest candidate.     *)
QuoteLiabilityOnce(q, percent) ==
    CHOOSE n \in {AttemptLiability(c, percent) : c \in q.candidates} :
        \A c \in q.candidates : AttemptLiability(c, percent) <= n
QuoteLiability(q, percent) == q.maxAttempts * QuoteLiabilityOnce(q, percent)

-----------------------------------------------------------------------------
(* Settlement                                                              *)

Measured(u) == ~u.estimated /\ u.inputTokens >= 1 /\ u.outputTokens >= 1

(* An attempt that was dispatched and not measured costs its allowance.    *)
ChargedUsage(c, u) ==
    IF Measured(u) THEN u
    ELSE [inputTokens  |-> Larger(u.inputTokens, c.inputTokens),
          outputTokens |-> Larger(u.outputTokens, c.outputTokens),
          estimated    |-> TRUE]

UsageCost(price, u) ==
    IF u.inputTokens = 0 /\ u.outputTokens = 0 THEN 0
    ELSE TokenCost(price, u.inputTokens, u.outputTokens)

AttemptCost(c, u) == UsageCost(c.price, ChargedUsage(c, u))

(* The provider reports no more than the request was allowed.              *)
WithinAllowance(c, u) == u.inputTokens <= c.inputTokens /\ u.outputTokens <= c.outputTokens

=============================================================================

-------------------------------- MODULE Client --------------------------------
(***************************************************************************)
(* What agent-kit/src/client.ts and protocol/src compute for an agent that *)
(* trades a pool: the mirror of DPMMath, the quotes of the chain, and the  *)
(* sizing of an order by bankroll, by edge and by the depth of the book.   *)
(*                                                                         *)
(* `x` is a supply some call returned, which need not be the present one.  *)
(* A quote the chain or the mirror refuses is 0, which no quote is: zero   *)
(* shares are refused by every call that would be made next.               *)
(***************************************************************************)
EXTENDS Pool, Sequences

CONSTANTS
    MaxImpactBps,     \* MAX_IMPACT_BPS
    SlippageBps,      \* SLIPPAGE_BPS
    BankrollCap       \* BANKROLL_FRACTION_CAP, in wad

ASSUME ClientAssumption ==
    /\ MaxImpactBps \in 0..BPS
    /\ SlippageBps \in 0..BPS
    /\ BankrollCap \in 0..WAD

-----------------------------------------------------------------------------
(* protocol/src.                                                           *)

Probability(x, i) == MulDiv(x[i] * x[i], WAD, SumSq(x))

QAfterBuy(x, i, n) == [x EXCEPT ![i] = @ + n]

ToWad(tokens) == tokens * Scale

(* dpm.sharesForSpend, and DPMMath.sharesForSpend which it mirrors.        *)
SharesForSpend(x, i, spendWad) ==
    LET c1    == CostUp(x) + spendWad
        inner == c1 * c1 - x[1 - i] * x[1 - i]
        newQi == CHOOSE r \in 0..c1 : r * r <= inner /\ inner < (r + 1) * (r + 1)
    IN IF spendWad <= 0 \/ c1 > MaxQ \/ newQi <= x[i] THEN 0 ELSE newQi - x[i]

(* The fee within a gross amount, the fee being charged on top of the net. *)
FeeFromGross(tokens) == (tokens * FeeBps) \div (BPS + FeeBps)

-----------------------------------------------------------------------------
(* The quotes.                                                             *)

QuoteBuySpend(i, tokens) == SharesForSpend(q, i, ToWad(tokens - FeeFromGross(tokens)))

NetCost(i, n) == CeilDiv(CostUp(QAfterBuy(q, i, n)) - poolWad, Scale)

QuoteBuy(i, n) == NetCost(i, n) + Fee(NetCost(i, n))

Gross(i, n) == (poolWad - CostUp([q EXCEPT ![i] = @ - n])) \div Scale

QuoteSell(i, n) == Gross(i, n) - Fee(Gross(i, n))

-----------------------------------------------------------------------------
(* examples/trade.ts: the side whose probability is below the belief, the  *)
(* Kelly fraction of the bankroll, and the move it may cause.              *)

BeliefOn(belief, i) == IF i = YES THEN belief ELSE WAD - belief

CheapSide(x, belief) == IF belief > Probability(x, YES) THEN YES ELSE NO

Edge(x, i, belief) == BeliefOn(belief, i) - Probability(x, i)

KellyTokens(x, i, belief, free) ==
    (free * Min({MulDiv(Edge(x, i, belief), WAD, WAD - Probability(x, i)), BankrollCap})) \div WAD

(* Mutant: the standing limit alone, blind to how much edge is left.       *)
ImpactCapStanding(x, i, belief) == MaxImpactBps

ImpactCap(x, i, belief) == Min({(Edge(x, i, belief) * BPS) \div WAD, MaxImpactBps})

(* The probability a spend would move the market to; past the limits of    *)
(* the curve, certainty.                                                   *)
ImpactOf(x, i, tokens) ==
    LET n == SharesForSpend(x, i, ToWad(tokens))
    IN IF tokens <= 0 THEN Probability(x, i)
       ELSE IF n = 0 THEN WAD
       ELSE Probability(QAfterBuy(x, i, n), i)

(* client.sizeWithinImpact: the whole budget, or what bisection leaves.    *)
SizeWithinImpact(x, i, budget, capBps) ==
    LET ceiling == Probability(x, i) + (WAD * capBps) \div BPS
        search[w \in (0..budget) \X (0..budget)] ==
            LET mid == (w[1] + w[2]) \div 2
            IN IF w[2] - w[1] <= 1 THEN w[1]
               ELSE IF ImpactOf(x, i, mid) <= ceiling THEN search[<<mid, w[2]>>]
               ELSE search[<<w[1], mid>>]
    IN IF ImpactOf(x, i, budget) <= ceiling THEN budget ELSE search[<<0, budget>>]

MaxTokensIn(quoted) == quoted + (quoted * SlippageBps) \div BPS

MinTokensOut(quoted) == quoted - (quoted * SlippageBps) \div BPS
=============================================================================

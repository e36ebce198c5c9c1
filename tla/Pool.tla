-------------------------------- MODULE Pool --------------------------------
(***************************************************************************)
(* The pool of core/Market.sol: a dynamic parimutuel maker priced by       *)
(* math/DPMMath.sol, with its trades, its liquidity, the rates snapshotted *)
(* at the terminal transition and the exits, composed with the lifecycle   *)
(* of MarketStatus for one market.                                         *)
(*                                                                         *)
(* Supplies, pool and payouts are in wad, money is in token units of Scale *)
(* wad, and every rounding is the code's.  Left out: the pause and the     *)
(* registered-trader gate, which only refuse calls that here may as well   *)
(* never come, and slippage limits, which callers choose as they please.   *)
(* `fail` and `settle` are called by a module that may do so whenever the  *)
(* market lets it.                                                         *)
(***************************************************************************)
EXTENDS MarketStatus, FiniteSetsExt

CONSTANTS
    Market,
    Holders, Creator,
    WAD,              \* one, in wad
    Scale,            \* wad in a token unit
    MaxQ,             \* MAX_Q
    FeeBps, MinTradeTokens,
    SeedTokens,       \* the creator's
    SweepAfter,       \* SWEEP_UNCLAIMED_AFTER
    TradeSizes,       \* shares a caller trades or transfers
    Offers,           \* tokens a caller adds as liquidity
    Lambdas,          \* fractions, in wad, a caller withdraws
    MaxHeld           \* bound on the collateral trades may bring in

ASSUME PoolAssumption ==
    /\ Markets = {Market}
    /\ FeesAtClose = {0}
    /\ IsFiniteSet(Holders)
    /\ Creator \in Holders
    /\ {WAD, Scale, SeedTokens} \subseteq Nat \ {0}
    /\ MaxQ \in Nat
    /\ FeeBps \in 0..BPS
    /\ MinTradeTokens \in Nat \ {0}
    /\ SweepAfter \in Nat
    /\ TradeSizes \subseteq Nat \ {0}
    /\ Offers \subseteq Nat \ {0}
    /\ Lambdas \subseteq 1..WAD
    /\ MaxHeld \in Nat

VARIABLES
    q,                \* _q, the supply of each side
    seedSupply,       \* _seedSupply
    creatorSeed,      \* _creatorSeed
    seedShares,       \* _seedShares
    shares,           \* OutcomeShares.balanceOf, of this market's ids
    poolWad,
    payoutPerShare,   \* payoutPerShareWad
    liqPerShare,      \* _liqPerShareWad
    resolvedAt,
    swept,            \* sweptAt # 0
    held,             \* collateral.balanceOf(market)
    exits             \* auxiliary: redemptions and liquidations so far

supplyVars == <<q, seedSupply, creatorSeed, seedShares, shares>>
rateVars   == <<payoutPerShare, liqPerShare, resolvedAt>>

poolVars == <<now, marketVars, supplyVars, rateVars, poolWad, swept, held, exits>>

Sides == {NO, YES}

-----------------------------------------------------------------------------
(* DPMMath.                                                                *)

SumSq(x) == x[0] * x[0] + x[1] * x[1]

(* C(q) = sqrt(q0^2 + q1^2), which is at most q0 + q1, rounded each way.   *)
Cost(x) ==
    CHOOSE r \in 0..(x[0] + x[1]) : r * r <= SumSq(x) /\ SumSq(x) < (r + 1) * (r + 1)

CostUp(x) ==
    CHOOSE r \in 0..(x[0] + x[1]) :
        r * r >= SumSq(x) /\ (r = 0 \/ (r - 1) * (r - 1) < SumSq(x))

MulDiv(a, b, c) == (a * b) \div c

(* Mutant: token amounts always rounded down.                              *)
FloorDiv(a, b) == a \div b

CeilDiv(a, b) == (a + b - 1) \div b

Price(x, i) == MulDiv(x[i], WAD, Cost(x))

(* The largest symmetric supply a seed pays for.                           *)
SeedSharesFor(wad) ==
    CHOOSE r \in 0..wad :
        r * r <= (wad * wad) \div 2 /\ (wad * wad) \div 2 < (r + 1) * (r + 1)

-----------------------------------------------------------------------------
Init ==
    LET s == SeedSharesFor(SeedTokens * Scale)
    IN /\ ChainInit
       /\ now < TradingEnd
       /\ MarketInit
       /\ s > 0
       /\ q = [i \in Sides |-> s]
       /\ seedSupply = [i \in Sides |-> s]
       /\ creatorSeed = [i \in Sides |-> s]
       /\ seedShares = [h \in Holders |-> [i \in Sides |-> IF h = Creator THEN s ELSE 0]]
       /\ shares = [h \in Holders |-> [i \in Sides |-> 0]]
       /\ poolWad = CostUp([i \in Sides |-> s])
       /\ payoutPerShare = 0
       /\ liqPerShare = [i \in Sides |-> 0]
       /\ resolvedAt = 0
       /\ swept = FALSE
       /\ held = SeedTokens + Deposit
       /\ exits = 0

TradingOpen == status[Market] = "Open" /\ now < TradingEnd

Accrue(fee) == feeAccrued' = [feeAccrued EXCEPT ![Market] = @ + fee]

Fee(tokens) == (tokens * FeeBps) \div BPS

-----------------------------------------------------------------------------
(* Trades.                                                                 *)

Buy(h, side, n) ==
    LET next   == [q EXCEPT ![side] = @ + n]
        target == CostUp(next)
        cost   == CeilDiv(target - poolWad, Scale)
    IN /\ TradingOpen
       /\ next[side] <= MaxQ
       /\ cost >= MinTradeTokens
       /\ q' = next
       /\ poolWad' = target
       /\ Accrue(Fee(cost))
       /\ held' = held + cost + Fee(cost)
       /\ held' <= MaxHeld
       /\ shares' = [shares EXCEPT ![h][side] = @ + n]
       /\ UNCHANGED <<now, status, winningOutcome, settlementDeposit, seedSupply,
                      creatorSeed, seedShares, rateVars, swept, exits>>

(* What may be sold is what was bought: seed shares are not for sale.      *)
Sell(h, side, n) ==
    LET next   == [q EXCEPT ![side] = @ - n]
        target == CostUp(next)
        gross  == (poolWad - target) \div Scale
    IN /\ TradingOpen
       /\ n <= q[side]
       /\ next[side] >= seedSupply[side]
       /\ gross >= MinTradeTokens
       /\ n <= shares[h][side]
       /\ held >= gross - Fee(gross)
       /\ q' = next
       /\ poolWad' = target
       /\ Accrue(Fee(gross))
       /\ held' = held - (gross - Fee(gross))
       /\ shares' = [shares EXCEPT ![h][side] = @ - n]
       /\ UNCHANGED <<now, status, winningOutcome, settlementDeposit, seedSupply,
                      creatorSeed, seedShares, rateVars, swept, exits>>

(* The ERC-1155 transfer, open at any time.                                *)
Transfer(h, to, side, n) ==
    /\ h # to
    /\ n <= shares[h][side]
    /\ shares' = [shares EXCEPT ![h][side] = @ - n, ![to][side] = @ + n]
    /\ UNCHANGED <<now, marketVars, q, seedSupply, creatorSeed, seedShares, rateVars,
                   poolWad, swept, held, exits>>

-----------------------------------------------------------------------------
(* Liquidity: a scaling of the whole market, without a fee.                *)

Lambda(tokens) == MulDiv(tokens * Scale, WAD, poolWad)

(* Mutant: minted shares rounded up.                                       *)
MintedUp(tokens) == [i \in Sides |-> CeilDiv(q[i] * Lambda(tokens), WAD)]

Minted(tokens) == [i \in Sides |-> MulDiv(q[i], Lambda(tokens), WAD)]

(* Mutant: both sides grown by what was minted of the first.               *)
GrownAlike(tokens) == [i \in Sides |-> q[i] + Minted(tokens)[NO]]

Grown(tokens) == [i \in Sides |-> q[i] + Minted(tokens)[i]]

(* What an offer of `tokens` is charged.                                   *)
Charge(tokens) == CeilDiv(CostUp(Grown(tokens)) - poolWad, Scale)

AddLiquidity(h, tokens) ==
    LET minted == Minted(tokens)
    IN /\ TradingOpen
       /\ \A i \in Sides : minted[i] > 0 /\ Grown(tokens)[i] <= MaxQ
       /\ Charge(tokens) <= tokens
       /\ q' = Grown(tokens)
       /\ seedSupply' = [i \in Sides |-> seedSupply[i] + minted[i]]
       /\ seedShares' = [seedShares EXCEPT ![h] = [i \in Sides |-> @[i] + minted[i]]]
       /\ poolWad' = CostUp(Grown(tokens))
       /\ held' = held + Charge(tokens)
       /\ held' <= MaxHeld
       /\ UNCHANGED <<now, marketVars, creatorSeed, shares, rateVars, swept, exits>>

(* Mutant: only the caller's own shares limit a withdrawal.                *)
NoFloor(taken) == TRUE

(* The floor is on the total of seed shares, whoever holds them.           *)
AboveFloor(taken) == \A i \in Sides : seedSupply[i] - taken[i] >= creatorSeed[i]

RemoveLiquidity(h, lambda) ==
    LET taken  == [i \in Sides |-> MulDiv(q[i], lambda, WAD)]
        next   == [i \in Sides |-> q[i] - taken[i]]
        target == CostUp(next)
        out    == (poolWad - target) \div Scale
    IN /\ TradingOpen
       /\ \A i \in Sides : taken[i] > 0 /\ taken[i] <= seedShares[h][i]
       /\ AboveFloor(taken)
       /\ held >= out
       /\ q' = next
       /\ seedSupply' = [i \in Sides |-> seedSupply[i] - taken[i]]
       /\ seedShares' = [seedShares EXCEPT ![h] = [i \in Sides |-> @[i] - taken[i]]]
       /\ poolWad' = target
       /\ held' = held - out
       /\ UNCHANGED <<now, marketVars, creatorSeed, shares, rateVars, swept, exits>>

Provision ==
    \E h \in Holders :
       \/ \E tokens \in Offers : AddLiquidity(h, tokens)
       \/ \E lambda \in Lambdas : RemoveLiquidity(h, lambda)

-----------------------------------------------------------------------------
(* The lifecycle, as it touches the pool.                                  *)

(* Fees and deposit leave, split among creator, resolvers and treasury.    *)
PayFees ==
    /\ held >= feeAccrued[Market] + settlementDeposit[Market]
    /\ held' = held - feeAccrued[Market] - settlementDeposit[Market]

Advance ==
    /\ \/ CloseMarket(Market)
       \/ MarkMarketProposed(Market)
       \/ MarkMarketDisputed(Market)
    /\ UNCHANGED <<now, supplyVars, rateVars, poolWad, swept, held, exits>>

(* Mutant: the rate rounded up.                                            *)
RateUp(outcome) == CeilDiv(WAD * poolWad, q[outcome])

(* Mutant: the rate of the losing side.                                    *)
RateOfLoser(outcome) == MulDiv(WAD, poolWad, q[1 - outcome])

Rate(outcome) == MulDiv(WAD, poolWad, q[outcome])

Settle(outcome) ==
    /\ SettleMarket(Market, outcome)
    /\ payoutPerShare' = Rate(outcome)
    /\ resolvedAt' = now
    /\ PayFees
    /\ UNCHANGED <<now, supplyVars, liqPerShare, poolWad, swept, exits>>

SnapshotLiquidation ==
    /\ resolvedAt' = now
    /\ liqPerShare' = [i \in Sides |-> Price(q, i)]
    /\ UNCHANGED payoutPerShare

Abandon ==
    /\ VoidMarket(Market) \/ \E byModule \in BOOLEAN : FailMarket(Market, byModule)
    /\ SnapshotLiquidation
    /\ PayFees
    /\ UNCHANGED <<now, supplyVars, poolWad, swept, exits>>

-----------------------------------------------------------------------------
(* Exits.                                                                  *)

Claimable(h, i) == shares[h][i] + seedShares[h][i]

Payout(h) == MulDiv(Claimable(h, winningOutcome[Market]), payoutPerShare, WAD)

(* Losing seed is written off; losing tradable shares stay, worthless.     *)
Redeem(h) ==
    LET w == winningOutcome[Market]
    IN /\ status[Market] = "Settled"
       /\ ~swept
       /\ Claimable(h, w) > 0
       /\ Payout(h) <= poolWad
       /\ held >= Payout(h) \div Scale
       /\ seedShares' = [seedShares EXCEPT ![h] = [i \in Sides |-> 0]]
       /\ shares' = [shares EXCEPT ![h][w] = 0]
       /\ poolWad' = poolWad - Payout(h)
       /\ held' = held - Payout(h) \div Scale
       /\ exits' = exits + 1
       /\ UNCHANGED <<now, marketVars, q, seedSupply, creatorSeed, rateVars, swept>>

Liquidation(h) ==
    MulDiv(Claimable(h, 0), liqPerShare[0], WAD) + MulDiv(Claimable(h, 1), liqPerShare[1], WAD)

(* Trimmed to what the pool still has.                                     *)
Trimmed(h) == IF Liquidation(h) > poolWad THEN poolWad ELSE Liquidation(h)

Liquidate(h) ==
    /\ status[Market] \in {"Failed", "Voided"}
    /\ ~swept
    /\ \E i \in Sides : Claimable(h, i) > 0
    /\ held >= Trimmed(h) \div Scale
    /\ seedShares' = [seedShares EXCEPT ![h] = [i \in Sides |-> 0]]
    /\ shares' = [shares EXCEPT ![h] = [i \in Sides |-> 0]]
    /\ poolWad' = poolWad - Trimmed(h)
    /\ held' = held - Trimmed(h) \div Scale
    /\ exits' = exits + 1
    /\ UNCHANGED <<now, marketVars, q, seedSupply, creatorSeed, rateVars, swept>>

SweepUnclaimed ==
    /\ Terminal(Market)
    /\ ~swept
    /\ now >= resolvedAt + SweepAfter
    /\ held # 0
    /\ swept' = TRUE
    /\ poolWad' = 0
    /\ held' = 0
    /\ UNCHANGED <<now, marketVars, supplyVars, rateVars, exits>>

PassTime == Tick /\ UNCHANGED <<marketVars, supplyVars, rateVars, poolWad, swept, held, exits>>

(* The bounded clock has run out on a market that has ended.               *)
Finished == now = MaxTime /\ Terminal(Market) /\ UNCHANGED poolVars

Next ==
    \/ PassTime
    \/ \E h \in Holders, side \in Sides, n \in TradeSizes :
          \/ Buy(h, side, n)
          \/ Sell(h, side, n)
          \/ \E to \in Holders : Transfer(h, to, side, n)
    \/ Provision
    \/ \E h \in Holders : Redeem(h) \/ Liquidate(h)
    \/ Advance
    \/ \E outcome \in Sides : Settle(outcome)
    \/ Abandon
    \/ SweepUnclaimed
    \/ Finished

Spec == Init /\ [][Next]_poolVars
=============================================================================

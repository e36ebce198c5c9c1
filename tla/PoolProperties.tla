--------------------------- MODULE PoolProperties ---------------------------
(***************************************************************************)
(* What a market's pool must guarantee, stated over Pool.                  *)
(***************************************************************************)
EXTENDS Pool

(* What the holders have between them.                                     *)
SumOver(amount) == MapThenSumSet(LAMBDA h : amount[h], Holders)

Claims(i) == [h \in Holders |-> Claimable(h, i)]
Seeds(i)  == [h \in Holders |-> seedShares[h][i]]

(* The market holds what it owes to positions, fees and deposit, through   *)
(* every rounding of every trade, withdrawal and exit (`collateralOwed`).  *)
Solvent ==
    (held - feeAccrued[Market] - settlementDeposit[Market]) * Scale >= poolWad

(* While shares move, each side's supply is exactly what its holders have, *)
(* and the pool is worth exactly what the cost function says of it.        *)
SupplyIsHeld ==
    ~Terminal(Market) =>
        /\ \A i \in Sides :
             /\ q[i] = SumOver(Claims(i))
             /\ seedSupply[i] = SumOver(Seeds(i))
        /\ poolWad = CostUp(q)

(* No sequence of trades and withdrawals takes a side's supply below the   *)
(* seed in it, nor the seed below what the creator put in: `settle`        *)
(* divides by the supply of the winning side.                              *)
SeedFloor ==
    \A i \in Sides : q[i] >= seedSupply[i] /\ seedSupply[i] >= creatorSeed[i]

(* Everybody can leave, in any order: after settlement what is still       *)
(* claimable is in the pool, and after a refund all but the wei that the   *)
(* two roundings of the cost may add, which the last to leave forgoes.     *)
ClaimsAreCovered ==
    ~swept =>
        /\ status[Market] = "Settled" =>
             SumOver([h \in Holders |-> Payout(h)]) <= poolWad
        /\ status[Market] \in {"Failed", "Voided"} =>
             SumOver([h \in Holders |-> Liquidation(h)]) <= poolWad + 1

(* Nothing is stranded: once nobody has a claim left, what remains is the  *)
(* fraction of a wei lost in each rate for each share, less than a wei for *)
(* each side an exit was paid for, and the wei by which the pool exceeds   *)
(* the cost rounded down.                                                  *)
OnlyDustRemains ==
    ~swept =>
        /\ (status[Market] = "Settled" /\ \A h \in Holders : Claimable(h, winningOutcome[Market]) = 0)
              => poolWad * WAD < q[winningOutcome[Market]] + exits * WAD
        /\ (status[Market] \in {"Failed", "Voided"} /\ \A h \in Holders, i \in Sides : Claimable(h, i) = 0)
              => poolWad * WAD < q[0] + q[1] + (1 + 2 * exits) * WAD

(* The charge for added liquidity never exceeds the offer, so the guard in *)
(* `addLiquidity` (Market.sol:417, "Proven") never refuses one.            *)
OfferCoversCharge ==
    TradingOpen => \A tokens \in Offers : Charge(tokens) <= tokens
=============================================================================

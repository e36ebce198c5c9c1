----------------------------- MODULE PoolProofs -----------------------------
(***************************************************************************)
(* Theorems of Pool for every number of holders, every size of trade,      *)
(* offer and withdrawal, every scale, fee and seed.                        *)
(***************************************************************************)
EXTENDS PoolProperties, TotalProofs

-----------------------------------------------------------------------------
(* The inductive invariant.                                                *)

PoolTypeOK ==
    /\ now \in Nat
    /\ MarketTypeOK
    /\ q \in [Sides -> Nat]
    /\ seedSupply \in [Sides -> Nat]
    /\ creatorSeed \in [Sides -> Nat]
    /\ seedShares \in [Holders -> [Sides -> Nat]]
    /\ shares \in [Holders -> [Sides -> Nat]]
    /\ poolWad \in Nat
    /\ payoutPerShare \in Nat
    /\ liqPerShare \in [Sides -> Nat]
    /\ resolvedAt \in Nat
    /\ swept \in BOOLEAN
    /\ held \in Int
    /\ exits \in Nat

(* No side can be emptied, so no rate divides by zero.                     *)
Floored ==
    \A i \in Sides : /\ q[i] >= seedSupply[i]
                     /\ seedSupply[i] >= creatorSeed[i]
                     /\ creatorSeed[i] > 0

(* Fees and deposit leave with the market's end.                           *)
PaidOut ==
    Terminal(Market) => feeAccrued[Market] = 0 /\ settlementDeposit[Market] = 0

Running ==
    ~Terminal(Market) =>
        /\ exits = 0
        /\ ~swept
        /\ poolWad = CostUp(q)
        /\ \A i \in Sides : /\ q[i] = SumOver(Claims(i))
                            /\ seedSupply[i] = SumOver(Seeds(i))

(* What the winners can claim, before any rounding, is in the pool, and    *)
(* little more is.                                                         *)
Winners ==
    status[Market] = "Settled" /\ ~swept =>
        LET w    == winningOutcome[Market]
            owed == SumOver(Claims(w)) * payoutPerShare
        IN /\ owed <= poolWad * WAD
           /\ poolWad * WAD < owed + q[w] + exits * WAD

(* The same of a refund, with a wei to either side of the cost.            *)
Refunds ==
    status[Market] \in {"Failed", "Voided"} /\ ~swept =>
        LET owed == SumOver(Claims(0)) * liqPerShare[0]
                      + SumOver(Claims(1)) * liqPerShare[1]
        IN /\ owed <= (poolWad + 1) * WAD
           /\ poolWad * WAD < owed + q[0] + q[1] + (1 + 2 * exits) * WAD

PoolInv ==
    /\ PoolTypeOK
    /\ Floored
    /\ PaidOut
    /\ Solvent
    /\ Running
    /\ Winners
    /\ Refunds

-----------------------------------------------------------------------------
(* Arithmetic the provers need in pieces.                                  *)

(* Products of naturals follow their factors.                              *)
LEMMA MulMono ==
    /\ \A a, b \in Nat : a * b \in Nat
    /\ \A a, b, c \in Nat : a <= b => a * c <= b * c
    /\ \A a, b, c \in Nat : a * c < b * c => a < b
    /\ \A a, b, c \in Nat : c > 0 /\ a * c <= b * c => a <= b
OBVIOUS

(* A quotient is the largest that fits.                                    *)
LEMMA DivFits ==
    \A a \in Int, b \in Nat \ {0} :
        /\ a \div b \in Int
        /\ (a \div b) * b <= a
        /\ a < (a \div b) * b + b
OBVIOUS

(* A quotient of naturals is one.                                          *)
LEMMA DivIsNat == \A a \in Nat, b \in Nat \ {0} : a \div b \in Nat
OBVIOUS

(* A quotient rounded up is enough, and no more than what is enough.       *)
LEMMA CeilSuffices ==
    ASSUME NEW a \in Int, NEW b \in Nat \ {0}
    PROVE  /\ CeilDiv(a, b) \in Int
           /\ CeilDiv(a, b) * b >= a
           /\ \A k \in Nat : a <= k * b => CeilDiv(a, b) <= k
<1> DEFINE r == CeilDiv(a, b)
<1>1. r \in Int /\ r * b <= a + b - 1 /\ a + b - 1 < r * b + b
  BY DivFits DEF CeilDiv
<1> HIDE DEF r
<1>2. r * b >= a
  BY <1>1
<1>3. ASSUME NEW k \in Nat, a <= k * b, r > k
      PROVE  FALSE
  <2>1. r - 1 >= k
    BY <1>1, <1>3
  <2>2. (r - 1) * b >= k * b
    <3>1. \A x, y \in Int, c \in Nat : x >= y => x * c >= y * c
      OBVIOUS
    <3> QED
      BY <1>1, <2>1, <3>1
  <2>3. (r - 1) * b = r * b - b
    BY <1>1
  <2>4. r * b \in Int /\ k * b \in Int
    BY <1>1
  <2> QED
    BY <1>1, <1>3, <2>2, <2>3, <2>4
<1> QED
  BY <1>1, <1>2, <1>3 DEF r

(* Squares order as what is squared.                                       *)
LEMMA SquareOrder ==
    /\ \A a, b \in Nat : a * a < b * b => a < b
    /\ \A a, b \in Nat : a <= b => a * a <= b * b
OBVIOUS

(* Every number has a root rounded up.                                     *)
LEMMA RootUp ==
    ASSUME NEW v \in Nat, NEW bound \in Nat, bound * bound >= v
    PROVE  \E r \in 0..bound : /\ r * r >= v
                               /\ r = 0 \/ (r - 1) * (r - 1) < v
<1> DEFINE N == {x \in Nat : x * x >= v}
<1>1. N \in SUBSET Nat /\ bound \in N
  OBVIOUS
<1>2. \E x \in N : \A y \in N : x <= y
  <2> HIDE DEF N
  <2> QED
    BY <1>1, LeastNatural
<1>3. PICK r \in N : \A y \in N : r <= y
  BY <1>2
<1>4. r \in Nat /\ r * r >= v /\ r <= bound
  BY <1>1, <1>3
<1>5. ASSUME r # 0
      PROVE  (r - 1) * (r - 1) < v
  <2>1. r - 1 \in Nat /\ ~(r <= r - 1)
    BY <1>4, <1>5
  <2>2. ~((r - 1) * (r - 1) >= v)
    BY <1>3, <2>1
  <2>3. (r - 1) * (r - 1) \in Nat
    BY <2>1
  <2> QED
    BY <2>2, <2>3
<1> QED
  BY <1>4, <1>5

(* And one rounded down.                                                   *)
LEMMA RootDown ==
    ASSUME NEW v \in Nat, NEW bound \in Nat, bound * bound >= v
    PROVE  \E r \in 0..bound : r * r <= v /\ v < (r + 1) * (r + 1)
<1>1. PICK r \in 0..bound : r * r >= v /\ (r = 0 \/ (r - 1) * (r - 1) < v)
  BY RootUp
<1>2. CASE r * r = v
  <2>1. r * r < (r + 1) * (r + 1)
    BY <1>1
  <2> QED
    BY <1>1, <1>2, <2>1
<1>3. CASE r * r # v
  <2>1. r # 0 /\ r \in Nat
    BY <1>1, <1>3
  <2>2. r - 1 \in 0..bound /\ (r - 1) + 1 = r
    BY <1>1, <2>1
  <2>3. (r - 1) * (r - 1) <= v /\ v < r * r
    <3>1. r * r \in Nat /\ (r - 1) * (r - 1) \in Nat
      BY <2>1
    <3> QED
      BY <1>1, <1>3, <2>1, <3>1
  <2> QED
    BY <2>2, <2>3
<1> QED
  BY <1>2, <1>3

-----------------------------------------------------------------------------
(* The cost function.                                                      *)

(* So is the sum of squares under the cost function.                       *)
LEMMA SumSqType ==
    ASSUME NEW x \in [Sides -> Nat]
    PROVE  /\ x[0] \in Nat /\ x[1] \in Nat
           /\ SumSq(x) \in Nat
           /\ x[0] + x[1] \in Nat
           /\ (x[0] + x[1]) * (x[0] + x[1]) >= SumSq(x)
<1>1. x[0] \in Nat /\ x[1] \in Nat
  BY DEF Sides, NO, YES
<1>2. \A a, b \in Nat : /\ a * a + b * b \in Nat
                        /\ (a + b) * (a + b) >= a * a + b * b
  <2>1. \A a, b \in Nat : (a + b) * (a + b) = a * a + b * b + 2 * (a * b)
    OBVIOUS
  <2>2. \A a, b \in Nat : a * a \in Nat /\ b * b \in Nat /\ a * b \in Nat
    OBVIOUS
  <2> QED
    BY <2>1, <2>2
<1> QED
  BY <1>1, <1>2 DEF SumSq

(* The cost rounded up is the least number whose square reaches the sum.   *)
LEMMA CostUpIs ==
    ASSUME NEW x \in [Sides -> Nat]
    PROVE  /\ CostUp(x) \in Nat
           /\ CostUp(x) * CostUp(x) >= SumSq(x)
           /\ CostUp(x) = 0 \/ (CostUp(x) - 1) * (CostUp(x) - 1) < SumSq(x)
           /\ \A r \in Nat : r * r >= SumSq(x) => CostUp(x) <= r
<1> DEFINE c == CostUp(x)
           v == SumSq(x)
<1>1. /\ c \in 0..(x[0] + x[1])
      /\ c * c >= v
      /\ c = 0 \/ (c - 1) * (c - 1) < v
  BY SumSqType, RootUp DEF CostUp
<1>2. c \in Nat /\ v \in Nat
  BY <1>1, SumSqType
<1> HIDE DEF c, v
<1>3. ASSUME NEW r \in Nat, r * r >= v, c > r
      PROVE  FALSE
  <2>1. c - 1 \in Nat /\ r <= c - 1 /\ c # 0
    BY <1>2, <1>3
  <2>2. r * r <= (c - 1) * (c - 1)
    BY <2>1, SquareOrder
  <2>3. r * r \in Nat /\ (c - 1) * (c - 1) \in Nat
    BY <2>1
  <2> QED
    BY <1>1, <1>2, <1>3, <2>1, <2>2, <2>3
<1> QED
  BY <1>1, <1>2, <1>3 DEF c, v

(* The cost is the root of that sum, rounded down.                         *)
LEMMA CostIs ==
    ASSUME NEW x \in [Sides -> Nat]
    PROVE  /\ Cost(x) \in Nat
           /\ Cost(x) * Cost(x) <= SumSq(x)
           /\ SumSq(x) < (Cost(x) + 1) * (Cost(x) + 1)
<1> DEFINE c == Cost(x)
<1>1. /\ c \in 0..(x[0] + x[1])
      /\ c * c <= SumSq(x)
      /\ SumSq(x) < (c + 1) * (c + 1)
  BY SumSqType, RootDown DEF Cost
<1> QED
  BY <1>1, SumSqType

(* The two roundings of the cost are a wei apart at most.                  *)
LEMMA CostsAreClose ==
    ASSUME NEW x \in [Sides -> Nat]
    PROVE  /\ CostUp(x) <= Cost(x) + 1
           /\ Cost(x) * Cost(x) = SumSq(x) \/ CostUp(x) = Cost(x) + 1
<1> DEFINE c == Cost(x)
           u == CostUp(x)
           v == SumSq(x)
<1>1. /\ c \in Nat /\ c * c <= v /\ v < (c + 1) * (c + 1)
      /\ u \in Nat /\ u * u >= v /\ \A r \in Nat : r * r >= v => u <= r
      /\ v \in Nat
  BY CostIs, CostUpIs, SumSqType
<1> HIDE DEF c, u, v
<1>2. u <= c + 1
  <2>1. c + 1 \in Nat /\ (c + 1) * (c + 1) \in Nat
    BY <1>1
  <2> QED
    BY <1>1, <2>1
<1>3. ASSUME c * c # v
      PROVE  u > c
  <2>1. c * c \in Nat /\ u * u \in Nat
    BY <1>1
  <2>2. c * c < u * u
    BY <1>1, <1>3, <2>1
  <2> QED
    BY <1>1, <2>2, SquareOrder
<1>4. c * c = v \/ u = c + 1
  BY <1>1, <1>2, <1>3
<1> QED
  BY <1>2, <1>4 DEF c, u, v

-----------------------------------------------------------------------------
(* What the holders have between them.                                     *)

(* The sum over holders is the total of the lemmas of TotalProofs.         *)
LEMMA SumIsTotal == \A amount : SumOver(amount) = Total(amount, Holders)
BY DEF SumOver, Total

(* Claims and seeds are amounts, and so are their sums.                    *)
LEMMA ClaimsType ==
    ASSUME PoolTypeOK, NEW i \in Sides
    PROVE  /\ \A h \in Holders : /\ Claims(i)[h] = Claimable(h, i)
                                 /\ Claims(i)[h] \in Nat
                                 /\ Seeds(i)[h] = seedShares[h][i]
                                 /\ Seeds(i)[h] \in Nat
                                 /\ Claims(i)[h] >= Seeds(i)[h]
           /\ SumOver(Claims(i)) \in Nat
           /\ SumOver(Seeds(i)) \in Nat
<1>1. \A h \in Holders : /\ Claims(i)[h] = Claimable(h, i)
                         /\ Claims(i)[h] \in Nat
                         /\ Seeds(i)[h] = seedShares[h][i]
                         /\ Seeds(i)[h] \in Nat
                         /\ Claims(i)[h] >= Seeds(i)[h]
  BY DEF PoolTypeOK, Claims, Seeds, Claimable
<1> QED
  BY <1>1, SumIsTotal, TotalBoundsMembers, PoolAssumption

(* A change of one holder's amount is the change of the sum.               *)
LEMMA SumOfOne ==
    ASSUME NEW f, NEW g, NEW h \in Holders, \A x \in Holders : f[x] \in Int,
           g[h] \in Int, \A x \in Holders \ {h} : g[x] = f[x]
    PROVE  SumOver(g) = SumOver(f) - f[h] + g[h]
BY SumIsTotal, TotalOfChanged, PoolAssumption

(* What one holder's positions gain, the sums gain.                        *)
LEMMA PositionsChange ==
    ASSUME PoolTypeOK, NEW h \in Holders,
           NEW bought \in [Sides -> Int], NEW seeded \in [Sides -> Int],
           \A x \in Holders, i \in Sides :
               /\ shares'[x][i] = shares[x][i] + (IF x = h THEN bought[i] ELSE 0)
               /\ seedShares'[x][i] = seedShares[x][i] + (IF x = h THEN seeded[i] ELSE 0)
    PROVE  \A i \in Sides :
               /\ SumOver(Claims(i)') = SumOver(Claims(i)) + (bought[i] + seeded[i])
               /\ SumOver(Seeds(i)') = SumOver(Seeds(i)) + seeded[i]
<1> SUFFICES ASSUME NEW i \in Sides
             PROVE  /\ SumOver(Claims(i)') = SumOver(Claims(i)) + (bought[i] + seeded[i])
                    /\ SumOver(Seeds(i)') = SumOver(Seeds(i)) + seeded[i]
  OBVIOUS
<1>1. /\ \A x \in Holders : Claims(i)[x] \in Int /\ Seeds(i)[x] \in Int
      /\ SumOver(Claims(i)) \in Int /\ SumOver(Seeds(i)) \in Int
      /\ bought[i] \in Int /\ seeded[i] \in Int
  BY ClaimsType
<1>2. \A x \in Holders : /\ shares[x][i] \in Int /\ seedShares[x][i] \in Int
                         /\ Claims(i)[x] = shares[x][i] + seedShares[x][i]
                         /\ Claims(i)'[x] = shares'[x][i] + seedShares'[x][i]
                         /\ Seeds(i)[x] = seedShares[x][i]
                         /\ Seeds(i)'[x] = seedShares'[x][i]
  BY DEF PoolTypeOK, Claims, Seeds, Claimable
<1>3. /\ \A x \in Holders \ {h} : Claims(i)'[x] = Claims(i)[x] /\ Seeds(i)'[x] = Seeds(i)[x]
      /\ Claims(i)'[h] = Claims(i)[h] + (bought[i] + seeded[i])
      /\ Seeds(i)'[h] = Seeds(i)[h] + seeded[i]
  BY <1>1, <1>2
<1>3a. Claims(i)'[h] \in Int /\ Seeds(i)'[h] \in Int
  BY <1>1, <1>3
<1>4. ASSUME NEW f, NEW g, \A x \in Holders : f[x] \in Int,
             g[h] \in Int, \A x \in Holders \ {h} : g[x] = f[x]
      PROVE  SumOver(g) = SumOver(f) - f[h] + g[h]
  BY SumIsTotal, TotalOfChanged, PoolAssumption, <1>4
<1>5. SumOver(Claims(i)') = SumOver(Claims(i)) - Claims(i)[h] + Claims(i)'[h]
  BY <1>1, <1>3, <1>3a, <1>4
<1>6. SumOver(Seeds(i)') = SumOver(Seeds(i)) - Seeds(i)[h] + Seeds(i)'[h]
  BY <1>1, <1>3, <1>3a, <1>4
<1> QED
  BY <1>1, <1>3, <1>5, <1>6

(* While trading is open only supplies, shares, fees and money change.     *)
LEMMA OpenKeeps ==
    ASSUME PoolInv, TradingOpen,
           UNCHANGED <<now, status, winningOutcome, settlementDeposit, creatorSeed,
                       rateVars, swept, exits>>,
           q' \in [Sides -> Nat], seedSupply' \in [Sides -> Nat],
           seedShares' \in [Holders -> [Sides -> Nat]],
           shares' \in [Holders -> [Sides -> Nat]],
           poolWad' = CostUp(q'), feeAccrued' \in [Markets -> Nat], held' \in Int,
           \A i \in Sides : q'[i] >= seedSupply'[i] /\ seedSupply'[i] >= creatorSeed[i],
           \A i \in Sides : /\ q'[i] = SumOver(Claims(i)')
                            /\ seedSupply'[i] = SumOver(Seeds(i)'),
           Solvent'
    PROVE  PoolInv'
<1>1. ~Terminal(Market) /\ status'[Market] = "Open" /\ ~Terminal(Market)'
  BY DEF TradingOpen, Terminal, TerminalStatuses
<1>2. PoolTypeOK'
  BY CostUpIs DEF PoolInv, PoolTypeOK, MarketTypeOK, rateVars
<1>3. Floored'
  BY DEF PoolInv, Floored
<1>4. PaidOut' /\ Winners' /\ Refunds'
  BY <1>1 DEF PaidOut, Winners, Refunds
<1>5. Running'
  BY <1>1 DEF PoolInv, Running
<1> QED
  BY <1>2, <1>3, <1>4, <1>5 DEF PoolInv

(* Where trading is open, the parts of the invariant a trade starts from.  *)
LEMMA OpenState ==
    ASSUME PoolInv, TradingOpen
    PROVE  /\ PoolTypeOK /\ Solvent
           /\ Market \in Markets
           /\ feeAccrued \in [Markets -> Nat]
           /\ settlementDeposit[Market] \in Nat
           /\ Scale \in Nat \ {0} /\ WAD \in Nat \ {0}
           /\ poolWad = CostUp(q)
           /\ \A i \in Sides : /\ q[i] = SumOver(Claims(i))
                               /\ seedSupply[i] = SumOver(Seeds(i))
                               /\ q[i] >= seedSupply[i]
                               /\ seedSupply[i] >= creatorSeed[i]
                               /\ creatorSeed[i] > 0
<1>1. ~Terminal(Market)
  BY DEF TradingOpen, Terminal, TerminalStatuses
<1> QED
  BY <1>1, PoolAssumption DEF PoolInv, Running, Floored, PoolTypeOK, MarketTypeOK

(* A fee is an amount.                                                     *)
LEMMA FeeType == \A tokens \in Nat : Fee(tokens) \in Nat
<1>1. BPS \in Nat \ {0} /\ FeeBps \in Nat
  BY PoolAssumption DEF BPS
<1>2. \A tokens \in Nat : tokens * FeeBps \in Nat
  BY <1>1
<1> QED
  BY <1>1, <1>2, DivIsNat DEF Fee

(* Money in that covers what the pool grew by.                             *)
LEMMA PaysForGrowth ==
    ASSUME NEW net \in Int, NEW pool \in Nat, NEW target \in Nat, NEW change \in Int,
           NEW scale \in Nat, net * scale >= pool, change * scale >= target - pool
    PROVE  (net + change) * scale >= target
<1>1. (net + change) * scale = net * scale + change * scale
  OBVIOUS
<1>2. net * scale \in Int /\ change * scale \in Int
  OBVIOUS
<1> QED
  BY <1>1, <1>2

(* A purchase: the pool grows by the cost the code charges.                *)
LEMMA BuyKeeps ==
    ASSUME PoolInv, NEW h \in Holders, NEW side \in Sides, NEW n \in Nat \ {0},
           Buy(h, side, n)
    PROVE  PoolInv'
<1> DEFINE next   == [q EXCEPT ![side] = q[side] + n]
           target == CostUp(next)
           cost   == CeilDiv(target - poolWad, Scale)
<1>1. /\ TradingOpen
      /\ cost >= MinTradeTokens
      /\ q' = next
      /\ poolWad' = target
      /\ feeAccrued' = [feeAccrued EXCEPT ![Market] = feeAccrued[Market] + Fee(cost)]
      /\ held' = held + cost + Fee(cost)
      /\ shares' = [shares EXCEPT ![h][side] = shares[h][side] + n]
      /\ UNCHANGED <<now, status, winningOutcome, settlementDeposit, seedSupply,
                      creatorSeed, seedShares, rateVars, swept, exits>>
  BY DEF Buy, Accrue
<1>2. /\ PoolTypeOK /\ Solvent /\ Market \in Markets
      /\ feeAccrued \in [Markets -> Nat] /\ settlementDeposit[Market] \in Nat
      /\ Scale \in Nat \ {0}
      /\ \A i \in Sides : /\ q[i] = SumOver(Claims(i))
                          /\ seedSupply[i] = SumOver(Seeds(i))
                          /\ q[i] >= seedSupply[i]
                          /\ seedSupply[i] >= creatorSeed[i]
  BY <1>1, OpenState
<1>3. n \in Nat /\ MinTradeTokens \in Nat
  BY PoolAssumption
<1>4. /\ q \in [Sides -> Nat] /\ poolWad \in Nat /\ held \in Int
      /\ shares \in [Holders -> [Sides -> Nat]]
      /\ seedShares \in [Holders -> [Sides -> Nat]]
      /\ seedSupply \in [Sides -> Nat] /\ creatorSeed \in [Sides -> Nat]
  BY <1>2 DEF PoolTypeOK
<1>5. next \in [Sides -> Nat]
  BY <1>3, <1>4
<1>6. target \in Nat
  BY <1>5, CostUpIs
<1>7. cost \in Int /\ cost * Scale >= target - poolWad
  <2> HIDE DEF target
  <2> QED
    BY <1>2, <1>4, <1>6, CeilSuffices
<1> HIDE DEF next, target, cost
<1>8. cost \in Nat /\ Fee(cost) \in Nat
  BY <1>1, <1>3, <1>7, FeeType
<1>9. Solvent'
  <2> DEFINE net == held - feeAccrued[Market] - settlementDeposit[Market]
  <2>1. net \in Int /\ net * Scale >= poolWad
    BY <1>2, <1>4 DEF Solvent
  <2>2. (net + cost) * Scale >= target
    BY <1>2, <1>4, <1>6, <1>7, <2>1, PaysForGrowth
  <2>3. held' - feeAccrued'[Market] - settlementDeposit'[Market] = net + cost
    BY <1>1, <1>2, <1>4, <1>8
  <2> QED
    BY <1>1, <2>2, <2>3 DEF Solvent
<1>10. shares' \in [Holders -> [Sides -> Nat]]
  BY <1>1, <1>3, <1>4
<1>11. \A i \in Sides : /\ q'[i] = SumOver(Claims(i)')
                       /\ seedSupply[i] = SumOver(Seeds(i)')
                       /\ q'[i] >= q[i]
  <2> DEFINE bought == [i \in Sides |-> IF i = side THEN n ELSE 0]
             seeded == [i \in Sides |-> 0]
  <2>1. bought \in [Sides -> Int] /\ seeded \in [Sides -> Int]
    BY <1>3
  <2>2. \A x \in Holders, i \in Sides :
            /\ shares'[x][i] = shares[x][i] + (IF x = h THEN bought[i] ELSE 0)
            /\ seedShares'[x][i] = seedShares[x][i] + (IF x = h THEN seeded[i] ELSE 0)
    BY <1>1, <1>3, <1>4
  <2>3. \A i \in Sides :
            /\ q'[i] = q[i] + bought[i]
            /\ q[i] \in Nat /\ seedSupply[i] \in Nat
            /\ bought[i] \in Nat /\ seeded[i] = 0
    BY <1>1, <1>3, <1>4 DEF next
  <2> HIDE DEF bought, seeded
  <2>4. \A i \in Sides :
            /\ SumOver(Claims(i)') = SumOver(Claims(i)) + (bought[i] + seeded[i])
            /\ SumOver(Seeds(i)') = SumOver(Seeds(i)) + seeded[i]
    BY <1>2, <2>1, <2>2, PositionsChange
  <2> QED
    BY <1>2, <2>3, <2>4
<1>12. \A i \in Sides : /\ q'[i] >= seedSupply'[i]
                       /\ seedSupply'[i] >= creatorSeed[i]
                       /\ q'[i] = SumOver(Claims(i)')
                       /\ seedSupply'[i] = SumOver(Seeds(i)')
  <2>1. \A i \in Sides : q'[i] \in Nat /\ q[i] \in Nat /\ seedSupply[i] \in Nat
    BY <1>1, <1>4, <1>5
  <2> QED
    BY <1>1, <1>2, <1>11, <2>1
<1>13. feeAccrued' \in [Markets -> Nat]
  BY <1>1, <1>2, <1>8
<1>14. held' \in Int
  BY <1>1, <1>4, <1>8
<1>15. poolWad' = CostUp(q')
  BY <1>1 DEF target
<1> QED
  BY <1>1, <1>4, <1>5, <1>9, <1>10, <1>12, <1>13, <1>14, <1>15, OpenKeeps

(* A sale: no more leaves than the cost function lets go.                  *)
LEMMA SellKeeps ==
    ASSUME PoolInv, NEW h \in Holders, NEW side \in Sides, NEW n \in Nat \ {0},
           Sell(h, side, n)
    PROVE  PoolInv'
<1> DEFINE next   == [q EXCEPT ![side] = q[side] - n]
           target == CostUp(next)
           gross  == (poolWad - target) \div Scale
<1>1. /\ TradingOpen
      /\ n <= q[side]
      /\ next[side] >= seedSupply[side]
      /\ gross >= MinTradeTokens
      /\ n <= shares[h][side]
      /\ q' = next
      /\ poolWad' = target
      /\ feeAccrued' = [feeAccrued EXCEPT ![Market] = feeAccrued[Market] + Fee(gross)]
      /\ held' = held - (gross - Fee(gross))
      /\ shares' = [shares EXCEPT ![h][side] = shares[h][side] - n]
      /\ UNCHANGED <<now, status, winningOutcome, settlementDeposit, seedSupply,
                      creatorSeed, seedShares, rateVars, swept, exits>>
  BY DEF Sell, Accrue
<1>2. /\ PoolTypeOK /\ Solvent /\ Market \in Markets
      /\ feeAccrued \in [Markets -> Nat] /\ settlementDeposit[Market] \in Nat
      /\ Scale \in Nat \ {0}
      /\ \A i \in Sides : /\ q[i] = SumOver(Claims(i))
                          /\ seedSupply[i] = SumOver(Seeds(i))
                          /\ q[i] >= seedSupply[i]
                          /\ seedSupply[i] >= creatorSeed[i]
  BY <1>1, OpenState
<1>3. n \in Nat /\ MinTradeTokens \in Nat
  BY PoolAssumption
<1>4. /\ q \in [Sides -> Nat] /\ poolWad \in Nat /\ held \in Int
      /\ shares \in [Holders -> [Sides -> Nat]]
      /\ seedShares \in [Holders -> [Sides -> Nat]]
      /\ seedSupply \in [Sides -> Nat] /\ creatorSeed \in [Sides -> Nat]
  BY <1>2 DEF PoolTypeOK
<1>5. next \in [Sides -> Nat]
  BY <1>1, <1>3, <1>4
<1>6. target \in Nat
  BY <1>5, CostUpIs
<1>7. gross \in Int /\ gross * Scale <= poolWad - target
  <2> HIDE DEF target
  <2> QED
    BY <1>2, <1>4, <1>6, DivFits
<1>8. \A i \in Sides : next[i] = q[i] - (IF i = side THEN n ELSE 0)
  BY <1>3, <1>4
<1> HIDE DEF next, target, gross
<1>9. gross \in Nat /\ Fee(gross) \in Nat
  BY <1>1, <1>3, <1>7, FeeType
<1>10. Solvent'
  <2> DEFINE net == held - feeAccrued[Market] - settlementDeposit[Market]
  <2>1. net \in Int /\ net * Scale >= poolWad
    BY <1>2, <1>4 DEF Solvent
  <2>2. -gross \in Int /\ (-gross) * Scale >= target - poolWad
    <3>1. (-gross) * Scale = -(gross * Scale) /\ gross * Scale \in Int
      BY <1>2, <1>7
    <3> QED
      BY <1>4, <1>6, <1>7, <3>1
  <2>3. (net + (-gross)) * Scale >= target
    BY <1>2, <1>4, <1>6, <2>1, <2>2, PaysForGrowth
  <2>4. held' - feeAccrued'[Market] - settlementDeposit'[Market] = net + (-gross)
    BY <1>1, <1>2, <1>4, <1>9
  <2> QED
    BY <1>1, <2>3, <2>4 DEF Solvent
<1>11. shares' \in [Holders -> [Sides -> Nat]]
  BY <1>1, <1>3, <1>4
<1>12. \A i \in Sides : /\ q'[i] = SumOver(Claims(i)')
                       /\ seedSupply[i] = SumOver(Seeds(i)')
  <2> DEFINE bought == [i \in Sides |-> IF i = side THEN -n ELSE 0]
             seeded == [i \in Sides |-> 0]
  <2>1. bought \in [Sides -> Int] /\ seeded \in [Sides -> Int]
    BY <1>3
  <2>2. \A x \in Holders, i \in Sides :
            /\ shares'[x][i] = shares[x][i] + (IF x = h THEN bought[i] ELSE 0)
            /\ seedShares'[x][i] = seedShares[x][i] + (IF x = h THEN seeded[i] ELSE 0)
    BY <1>1, <1>3, <1>4
  <2>3. \A i \in Sides :
            /\ q'[i] = q[i] + bought[i]
            /\ q[i] \in Nat /\ seedSupply[i] \in Nat
            /\ bought[i] \in Int /\ seeded[i] = 0
    BY <1>1, <1>3, <1>4, <1>8
  <2> HIDE DEF bought, seeded
  <2>4. \A i \in Sides :
            /\ SumOver(Claims(i)') = SumOver(Claims(i)) + (bought[i] + seeded[i])
            /\ SumOver(Seeds(i)') = SumOver(Seeds(i)) + seeded[i]
    BY <1>2, <2>1, <2>2, PositionsChange
  <2> QED
    BY <1>2, <2>3, <2>4
<1>13. \A i \in Sides : /\ q'[i] >= seedSupply'[i]
                       /\ seedSupply'[i] >= creatorSeed[i]
                       /\ q'[i] = SumOver(Claims(i)')
                       /\ seedSupply'[i] = SumOver(Seeds(i)')
  BY <1>1, <1>2, <1>3, <1>4, <1>8, <1>12
<1>14. feeAccrued' \in [Markets -> Nat]
  BY <1>1, <1>2, <1>9
<1>15. held' \in Int
  BY <1>1, <1>4, <1>9
<1>16. poolWad' = CostUp(q')
  BY <1>1 DEF target
<1> QED
  BY <1>1, <1>4, <1>5, <1>10, <1>11, <1>13, <1>14, <1>15, <1>16, OpenKeeps

(* Shares change hands and their sum stays.                                *)
LEMMA TransferKeeps ==
    ASSUME PoolInv, NEW h \in Holders, NEW to \in Holders, NEW side \in Sides,
           NEW n \in TradeSizes, Transfer(h, to, side, n)
    PROVE  PoolInv'
<1>1. /\ h # to
      /\ n <= shares[h][side]
      /\ shares' = [shares EXCEPT ![h][side] = shares[h][side] - n,
                                  ![to][side] = shares[to][side] + n]
      /\ UNCHANGED <<now, marketVars, q, seedSupply, creatorSeed, seedShares, rateVars,
                      poolWad, swept, held, exits>>
  BY DEF Transfer
<1>2. /\ n \in Nat
      /\ PoolTypeOK
      /\ shares \in [Holders -> [Sides -> Nat]]
  BY PoolAssumption DEF PoolInv, PoolTypeOK
<1>3. shares' \in [Holders -> [Sides -> Nat]]
  <2> DEFINE less == [shares EXCEPT ![h][side] = shares[h][side] - n]
  <2>1. less \in [Holders -> [Sides -> Nat]] /\ shares[to][side] + n \in Nat
    BY <1>1, <1>2
  <2>2. shares' = [less EXCEPT ![to][side] = shares[to][side] + n]
    BY <1>1
  <2> HIDE DEF less
  <2> QED
    BY <2>1, <2>2
<1>4. PoolTypeOK'
  BY <1>1, <1>2, <1>3 DEF PoolTypeOK, MarketTypeOK, marketVars, rateVars
<1>5. ASSUME NEW i \in Sides
      PROVE  SumOver(Claims(i)') = SumOver(Claims(i)) /\ Seeds(i)' = Seeds(i)
  <2> DEFINE moved == IF i = side THEN n ELSE 0
  <2>1. \A x \in Holders : Claims(i)[x] \in Int
    BY <1>2, ClaimsType
  <2>2. /\ Claims(i)'[h] = Claims(i)[h] - moved
        /\ Claims(i)'[to] = Claims(i)[to] + moved
        /\ \A x \in Holders \ {h, to} : Claims(i)'[x] = Claims(i)[x]
        /\ Seeds(i)' = Seeds(i)
    BY <1>1, <1>2 DEF Claims, Claimable, Seeds, PoolTypeOK
  <2>3. moved \in Int
    BY <1>2
  <2> HIDE DEF moved
  <2>4. Total(Claims(i)', Holders) = Total(Claims(i), Holders)
    BY <1>1, <2>1, <2>2, <2>3, TotalOfMoved, PoolAssumption
  <2> QED
    BY <2>2, <2>4, SumIsTotal
<1>6. Floored' /\ PaidOut' /\ Solvent'
  BY <1>1 DEF PoolInv, Floored, PaidOut, Solvent, Terminal, marketVars
<1>7. Running'
  BY <1>1, <1>5 DEF PoolInv, Running, Terminal, marketVars
<1>8. Winners'
  <2>1. winningOutcome[Market] \in Sides
    BY <1>2, PoolAssumption DEF PoolTypeOK, MarketTypeOK, Sides
  <2> QED
    BY <1>1, <1>5, <2>1 DEF PoolInv, Winners, marketVars, rateVars
<1>9. Refunds'
  <2>1. 0 \in Sides /\ 1 \in Sides
    BY DEF Sides, NO, YES
  <2> QED
    BY <1>1, <1>5, <2>1 DEF PoolInv, Refunds, marketVars, rateVars
<1> QED
  BY <1>4, <1>6, <1>7, <1>8, <1>9 DEF PoolInv

(* A pool with supply on both sides is worth something, rounded either way.*)
LEMMA CostIsPositive ==
    ASSUME NEW x \in [Sides -> Nat], x[0] > 0
    PROVE  CostUp(x) > 0 /\ Cost(x) > 0
<1>1. x[0] \in Nat /\ x[1] \in Nat /\ SumSq(x) = x[0] * x[0] + x[1] * x[1]
  BY SumSqType DEF SumSq
<1>2. SumSq(x) >= 1
  <2>1. \A a, b \in Nat : a > 0 => a * a + b * b >= 1
    OBVIOUS
  <2> QED
    BY <1>1, <2>1
<1>3. CostUp(x) # 0
  <2>1. CostUp(x) * CostUp(x) >= SumSq(x) /\ SumSq(x) \in Nat /\ CostUp(x) \in Nat
    BY CostUpIs, SumSqType
  <2>2. ASSUME CostUp(x) = 0
        PROVE  FALSE
    <3>1. CostUp(x) * CostUp(x) = 0
      BY <2>2
    <3> QED
      BY <1>2, <2>1, <3>1
  <2> QED
    BY <2>2
<1>4. Cost(x) # 0
  <2>1. SumSq(x) < (Cost(x) + 1) * (Cost(x) + 1)
    BY CostIs
  <2>2. ASSUME Cost(x) = 0
        PROVE  FALSE
    <3>1. (Cost(x) + 1) * (Cost(x) + 1) = 1
      BY <2>2
    <3> QED
      BY <1>2, <2>1, <3>1, SumSqType
  <2> QED
    BY <2>2
<1> QED
  BY <1>3, <1>4, CostUpIs, CostIs

(* What an offer mints.                                                    *)
LEMMA MintedType ==
    ASSUME PoolInv, TradingOpen, NEW tokens \in Offers
    PROVE  /\ Lambda(tokens) \in Nat
           /\ Lambda(tokens) * poolWad <= (tokens * Scale) * WAD
           /\ \A i \in Sides :
                /\ Minted(tokens)[i] \in Nat
                /\ Minted(tokens)[i] * WAD <= q[i] * Lambda(tokens)
                /\ Grown(tokens)[i] = q[i] + Minted(tokens)[i]
           /\ Grown(tokens) \in [Sides -> Nat]
           /\ poolWad \in Nat \ {0}
<1>1. /\ PoolTypeOK /\ poolWad = CostUp(q) /\ WAD \in Nat \ {0} /\ Scale \in Nat
      /\ \A i \in Sides : q[i] >= seedSupply[i] /\ seedSupply[i] >= creatorSeed[i]
                          /\ creatorSeed[i] > 0
  BY OpenState
<1>2. q \in [Sides -> Nat] /\ seedSupply \in [Sides -> Nat] /\ creatorSeed \in [Sides -> Nat]
  BY <1>1 DEF PoolTypeOK
<1>3. 0 \in Sides /\ 1 \in Sides
  BY DEF Sides, NO, YES
<1>4. poolWad \in Nat \ {0}
  <2>1. q[0] > 0
    BY <1>1, <1>2, <1>3
  <2> QED
    BY <1>1, <1>2, <2>1, CostIsPositive, CostUpIs
<1>5. tokens \in Nat
  BY PoolAssumption
<1>6. (tokens * Scale) * WAD \in Nat
  BY <1>1, <1>5, MulMono
<1>7. Lambda(tokens) \in Nat /\ Lambda(tokens) * poolWad <= (tokens * Scale) * WAD
  BY <1>4, <1>6, DivIsNat, DivFits DEF Lambda, MulDiv
<1>8. ASSUME NEW i \in Sides
      PROVE  /\ Minted(tokens)[i] \in Nat
             /\ Minted(tokens)[i] * WAD <= q[i] * Lambda(tokens)
             /\ Grown(tokens)[i] = q[i] + Minted(tokens)[i]
  <2>1. Minted(tokens)[i] = (q[i] * Lambda(tokens)) \div WAD
    BY DEF Minted, MulDiv
  <2>2. q[i] * Lambda(tokens) \in Nat
    BY <1>2, <1>7, MulMono
  <2>3. Grown(tokens)[i] = q[i] + Minted(tokens)[i]
    BY DEF Grown
  <2> QED
    BY <1>1, <2>1, <2>2, <2>3, DivIsNat, DivFits
<1>9. Grown(tokens) \in [Sides -> Nat]
  BY <1>2, <1>8 DEF Grown
<1> QED
  BY <1>4, <1>7, <1>8, <1>9

(* Both supplies grow in proportion, and the seed with them.               *)
LEMMA AddLiquidityKeeps ==
    ASSUME PoolInv, NEW h \in Holders, NEW tokens \in Offers, AddLiquidity(h, tokens)
    PROVE  PoolInv'
<1> DEFINE minted == Minted(tokens)
           target == CostUp(Grown(tokens))
           charge == Charge(tokens)
<1>1. /\ TradingOpen
      /\ q' = Grown(tokens)
      /\ seedSupply' = [i \in Sides |-> seedSupply[i] + minted[i]]
      /\ seedShares' = [seedShares EXCEPT ![h] = [i \in Sides |-> seedShares[h][i] + minted[i]]]
      /\ poolWad' = target
      /\ held' = held + charge
      /\ UNCHANGED <<now, marketVars, creatorSeed, shares, rateVars, swept, exits>>
  BY DEF AddLiquidity
<1>2. /\ PoolTypeOK /\ Solvent /\ Market \in Markets
      /\ feeAccrued \in [Markets -> Nat] /\ settlementDeposit[Market] \in Nat
      /\ Scale \in Nat \ {0}
      /\ \A i \in Sides : /\ q[i] = SumOver(Claims(i))
                          /\ seedSupply[i] = SumOver(Seeds(i))
                          /\ q[i] >= seedSupply[i]
                          /\ seedSupply[i] >= creatorSeed[i]
  BY <1>1, OpenState
<1>3. /\ q \in [Sides -> Nat] /\ poolWad \in Nat /\ held \in Int
      /\ shares \in [Holders -> [Sides -> Nat]]
      /\ seedShares \in [Holders -> [Sides -> Nat]]
      /\ seedSupply \in [Sides -> Nat] /\ creatorSeed \in [Sides -> Nat]
  BY <1>2 DEF PoolTypeOK
<1>4. /\ Grown(tokens) \in [Sides -> Nat]
      /\ \A i \in Sides : minted[i] \in Nat /\ Grown(tokens)[i] = q[i] + minted[i]
  BY <1>1, MintedType
<1>5. target \in Nat
  BY <1>4, CostUpIs
<1>6. charge \in Int /\ charge * Scale >= target - poolWad
  <2>1. charge = CeilDiv(target - poolWad, Scale)
    BY DEF Charge
  <2> HIDE DEF target, charge
  <2> QED
    BY <1>2, <1>3, <1>5, <2>1, CeilSuffices
<1> HIDE DEF minted, target, charge
<1>7. Solvent'
  <2> DEFINE net == held - feeAccrued[Market] - settlementDeposit[Market]
  <2>1. net \in Int /\ net * Scale >= poolWad
    BY <1>2, <1>3 DEF Solvent
  <2>2. (net + charge) * Scale >= target
    BY <1>2, <1>3, <1>5, <1>6, <2>1, PaysForGrowth
  <2>3. held' - feeAccrued'[Market] - settlementDeposit'[Market] = net + charge
    BY <1>1, <1>2, <1>3, <1>6 DEF marketVars
  <2> QED
    BY <1>1, <2>2, <2>3 DEF Solvent
<1>8. seedShares' \in [Holders -> [Sides -> Nat]]
  BY <1>1, <1>3, <1>4
<1>9. \A i \in Sides : /\ q'[i] = SumOver(Claims(i)')
                      /\ seedSupply'[i] = SumOver(Seeds(i)')
  <2> DEFINE bought == [i \in Sides |-> 0]
             seeded == [i \in Sides |-> minted[i]]
  <2>1. bought \in [Sides -> Int] /\ seeded \in [Sides -> Int]
    BY <1>4
  <2>2. \A x \in Holders, i \in Sides :
            /\ shares'[x][i] = shares[x][i] + (IF x = h THEN bought[i] ELSE 0)
            /\ seedShares'[x][i] = seedShares[x][i] + (IF x = h THEN seeded[i] ELSE 0)
    BY <1>1, <1>3, <1>4
  <2>3. \A i \in Sides :
            /\ q'[i] = q[i] + seeded[i]
            /\ seedSupply'[i] = seedSupply[i] + seeded[i]
            /\ q[i] \in Nat /\ seedSupply[i] \in Nat
            /\ seeded[i] \in Int /\ bought[i] = 0
    BY <1>1, <1>3, <1>4
  <2> HIDE DEF bought, seeded
  <2>4. \A i \in Sides :
            /\ SumOver(Claims(i)') = SumOver(Claims(i)) + (bought[i] + seeded[i])
            /\ SumOver(Seeds(i)') = SumOver(Seeds(i)) + seeded[i]
    BY <1>2, <2>1, <2>2, PositionsChange
  <2> QED
    BY <1>2, <2>3, <2>4
<1>10. \A i \in Sides : q'[i] >= seedSupply'[i] /\ seedSupply'[i] >= creatorSeed[i]
  BY <1>1, <1>2, <1>3, <1>4
<1>11. held' \in Int /\ seedSupply' \in [Sides -> Nat] /\ q' \in [Sides -> Nat]
  BY <1>1, <1>3, <1>4, <1>6
<1>12. poolWad' = CostUp(q')
  BY <1>1 DEF target
<1> QED
  BY <1>1, <1>2, <1>3, <1>7, <1>8, <1>9, <1>10, <1>11, <1>12, OpenKeeps DEF marketVars

(* Part of a supply, in wad, is no more than the supply.                   *)
LEMMA PartOf ==
    ASSUME NEW supply \in Nat, NEW lambda \in Lambdas
    PROVE  MulDiv(supply, lambda, WAD) \in 0..supply
<1>1. lambda \in Nat /\ lambda <= WAD /\ WAD \in Nat \ {0}
  BY PoolAssumption
<1>2. supply * lambda \in Nat /\ supply * lambda <= supply * WAD
  <2>1. lambda * supply <= WAD * supply
    BY <1>1, MulMono
  <2> QED
    BY <1>1, <2>1
<1>3. MulDiv(supply, lambda, WAD) \in Nat
      /\ MulDiv(supply, lambda, WAD) * WAD <= supply * lambda
  BY <1>1, <1>2, DivIsNat, DivFits DEF MulDiv
<1>4. MulDiv(supply, lambda, WAD) * WAD <= supply * WAD
  <2>1. MulDiv(supply, lambda, WAD) * WAD \in Nat /\ supply * WAD \in Nat
    BY <1>1, <1>3, MulMono
  <2> QED
    BY <1>2, <1>3, <2>1
<1>5. MulDiv(supply, lambda, WAD) <= supply
  BY <1>1, <1>3, <1>4, MulMono
<1> QED
  BY <1>3, <1>5

(* A withdrawal stays above the seed.                                      *)
LEMMA RemoveLiquidityKeeps ==
    ASSUME PoolInv, NEW h \in Holders, NEW lambda \in Lambdas, RemoveLiquidity(h, lambda)
    PROVE  PoolInv'
<1> DEFINE taken  == [i \in Sides |-> MulDiv(q[i], lambda, WAD)]
           next   == [i \in Sides |-> q[i] - taken[i]]
           target == CostUp(next)
           out    == (poolWad - target) \div Scale
<1>1. /\ TradingOpen
      /\ \A i \in Sides : taken[i] > 0 /\ taken[i] <= seedShares[h][i]
      /\ \A i \in Sides : seedSupply[i] - taken[i] >= creatorSeed[i]
      /\ q' = next
      /\ seedSupply' = [i \in Sides |-> seedSupply[i] - taken[i]]
      /\ seedShares' = [seedShares EXCEPT ![h] = [i \in Sides |-> seedShares[h][i] - taken[i]]]
      /\ poolWad' = target
      /\ held' = held - out
      /\ UNCHANGED <<now, marketVars, creatorSeed, shares, rateVars, swept, exits>>
  BY DEF RemoveLiquidity, AboveFloor
<1>2. /\ PoolTypeOK /\ Solvent /\ Market \in Markets
      /\ feeAccrued \in [Markets -> Nat] /\ settlementDeposit[Market] \in Nat
      /\ Scale \in Nat \ {0}
      /\ \A i \in Sides : /\ q[i] = SumOver(Claims(i))
                          /\ seedSupply[i] = SumOver(Seeds(i))
                          /\ q[i] >= seedSupply[i]
                          /\ seedSupply[i] >= creatorSeed[i]
  BY <1>1, OpenState
<1>3. /\ q \in [Sides -> Nat] /\ poolWad \in Nat /\ held \in Int
      /\ shares \in [Holders -> [Sides -> Nat]]
      /\ seedShares \in [Holders -> [Sides -> Nat]]
      /\ seedSupply \in [Sides -> Nat] /\ creatorSeed \in [Sides -> Nat]
  BY <1>2 DEF PoolTypeOK
<1>4. \A i \in Sides : taken[i] \in 0..q[i]
  BY <1>3, PartOf
<1> HIDE DEF taken
<1>5. next \in [Sides -> Nat]
  BY <1>3, <1>4
<1>6. target \in Nat
  <2> HIDE DEF next
  <2> QED
    BY <1>5, CostUpIs
<1>7. out \in Int /\ out * Scale <= poolWad - target
  <2> HIDE DEF target
  <2> QED
    BY <1>2, <1>3, <1>6, DivFits
<1>8. \A i \in Sides : next[i] = q[i] - taken[i]
  OBVIOUS
<1> HIDE DEF next, target, out
<1>9. Solvent'
  <2> DEFINE net == held - feeAccrued[Market] - settlementDeposit[Market]
  <2>1. net \in Int /\ net * Scale >= poolWad
    BY <1>2, <1>3 DEF Solvent
  <2>2. -out \in Int /\ (-out) * Scale >= target - poolWad
    <3>1. (-out) * Scale = -(out * Scale) /\ out * Scale \in Int
      BY <1>2, <1>7
    <3> QED
      BY <1>3, <1>6, <1>7, <3>1
  <2>3. (net + (-out)) * Scale >= target
    BY <1>2, <1>3, <1>6, <2>1, <2>2, PaysForGrowth
  <2>4. held' - feeAccrued'[Market] - settlementDeposit'[Market] = net + (-out)
    BY <1>1, <1>2, <1>3, <1>7 DEF marketVars
  <2> QED
    BY <1>1, <2>3, <2>4 DEF Solvent
<1>10. seedShares' \in [Holders -> [Sides -> Nat]]
  BY <1>1, <1>3, <1>4
<1>11. \A i \in Sides : /\ q'[i] = SumOver(Claims(i)')
                       /\ seedSupply'[i] = SumOver(Seeds(i)')
  <2> DEFINE bought == [i \in Sides |-> 0]
             seeded == [i \in Sides |-> -taken[i]]
  <2>1. bought \in [Sides -> Int] /\ seeded \in [Sides -> Int]
    BY <1>3, <1>4
  <2>2. \A x \in Holders, i \in Sides :
            /\ shares'[x][i] = shares[x][i] + (IF x = h THEN bought[i] ELSE 0)
            /\ seedShares'[x][i] = seedShares[x][i] + (IF x = h THEN seeded[i] ELSE 0)
    BY <1>1, <1>3, <1>4
  <2>3. \A i \in Sides :
            /\ q'[i] = q[i] + seeded[i]
            /\ seedSupply'[i] = seedSupply[i] + seeded[i]
            /\ q[i] \in Nat /\ seedSupply[i] \in Nat
            /\ seeded[i] \in Int /\ bought[i] = 0
    <3>1. \A i \in Sides : /\ q'[i] = q[i] - taken[i]
                           /\ seedSupply'[i] = seedSupply[i] - taken[i]
                           /\ seeded[i] = -taken[i] /\ bought[i] = 0
      BY <1>1, <1>8
    <3>2. \A i \in Sides : q[i] \in Nat /\ seedSupply[i] \in Nat /\ taken[i] \in Nat
      BY <1>3, <1>4
    <3> HIDE DEF bought, seeded
    <3> QED
      BY <3>1, <3>2
  <2> HIDE DEF bought, seeded
  <2>4. \A i \in Sides :
            /\ SumOver(Claims(i)') = SumOver(Claims(i)) + (bought[i] + seeded[i])
            /\ SumOver(Seeds(i)') = SumOver(Seeds(i)) + seeded[i]
    BY <1>2, <2>1, <2>2, PositionsChange
  <2> QED
    BY <1>2, <2>3, <2>4
<1>12. \A i \in Sides : q'[i] >= seedSupply'[i] /\ seedSupply'[i] >= creatorSeed[i]
  BY <1>1, <1>2, <1>3, <1>4, <1>8
<1>13. held' \in Int /\ seedSupply' \in [Sides -> Nat] /\ q' \in [Sides -> Nat]
  BY <1>1, <1>3, <1>4, <1>5, <1>7
<1>14. poolWad' = CostUp(q')
  BY <1>1 DEF target
<1> QED
  BY <1>1, <1>2, <1>3, <1>9, <1>10, <1>11, <1>12, <1>13, <1>14, OpenKeeps DEF marketVars

-----------------------------------------------------------------------------
(* The clock, the lifecycle and the rates.                                 *)

(* A market that has not ended may move on as long as it does not end.     *)
LEMMA LifecycleKeeps ==
    ASSUME PoolInv, MarketTypeOK', ~Terminal(Market), ~Terminal(Market)',
           UNCHANGED <<now, feeAccrued, settlementDeposit, supplyVars, rateVars,
                       poolWad, swept, held, exits>>
    PROVE  PoolInv'
<1>1. PoolTypeOK' /\ Floored' /\ Solvent'
  BY DEF PoolInv, PoolTypeOK, Floored, Solvent, supplyVars, rateVars
<1>2. PaidOut' /\ Winners' /\ Refunds'
  BY DEF PaidOut, Winners, Refunds, Terminal, TerminalStatuses
<1>3. Running'
  BY DEF PoolInv, Running, Claims, Claimable, Seeds, supplyVars
<1> QED
  BY <1>1, <1>2, <1>3 DEF PoolInv

(* Closing, proposing and disputing touch no amount.                       *)
LEMMA AdvanceKeeps ==
    ASSUME PoolInv, Advance
    PROVE  PoolInv'
<1>1. Market \in Markets /\ MarketTypeOK
  BY PoolAssumption DEF PoolInv, PoolTypeOK
<1>2. /\ status[Market] \in {"Open", "Closed", "Proposed", "Disputed"}
      /\ status'[Market] \in {"Closed", "Proposed", "Disputed"}
      /\ status' \in [Markets -> Statuses]
      /\ UNCHANGED <<winningOutcome, feeAccrued, settlementDeposit>>
  BY <1>1 DEF Advance, CloseMarket, MarkMarketProposed, MarkMarketDisputed, SetStatus,
              MarketTypeOK, Statuses
<1>3. MarketTypeOK' /\ ~Terminal(Market) /\ ~Terminal(Market)'
  BY <1>1, <1>2 DEF MarketTypeOK, Terminal, TerminalStatuses
<1> QED
  BY <1>2, <1>3, LifecycleKeeps DEF Advance

(* Nothing in the invariant is about the time.                             *)
LEMMA WaitingKeeps ==
    ASSUME PoolInv, now' \in Nat,
           UNCHANGED <<marketVars, supplyVars, rateVars, poolWad, swept, held, exits>>
    PROVE  PoolInv'
<1>1. PoolTypeOK' /\ Floored' /\ Solvent' /\ PaidOut'
  BY DEF PoolInv, PoolTypeOK, MarketTypeOK, Floored, Solvent, PaidOut, Terminal,
         marketVars, supplyVars, rateVars
<1>2. Running' /\ Winners' /\ Refunds'
  BY DEF PoolInv, Running, Winners, Refunds, Claims, Claimable, Seeds, Terminal,
         marketVars, supplyVars, rateVars
<1> QED
  BY <1>1, <1>2 DEF PoolInv

(* A market ends once, solvent, with fees and deposit paid from what it    *)
(* holds beyond its pool.                                                  *)
LEMMA EndingPays ==
    ASSUME PoolInv, DistributeFees(Market), PayFees, UNCHANGED poolWad
    PROVE  Solvent' /\ PaidOut' /\ held' \in Int
<1>1. /\ Market \in Markets
      /\ feeAccrued \in [Markets -> Nat] /\ settlementDeposit \in [Markets -> Nat]
      /\ held \in Int
  BY PoolAssumption DEF PoolInv, PoolTypeOK, MarketTypeOK
<1>2. feeAccrued'[Market] = 0 /\ settlementDeposit'[Market] = 0
  BY <1>1 DEF DistributeFees
<1>3. held' = held - feeAccrued[Market] - settlementDeposit[Market] /\ held' \in Int
  BY <1>1 DEF PayFees
<1>4. held' - feeAccrued'[Market] - settlementDeposit'[Market] = held'
  BY <1>2, <1>3
<1> QED
  BY <1>2, <1>3, <1>4 DEF PoolInv, Solvent, PaidOut

(* Settling fixes a payout that the pool covers.                           *)
LEMMA SettleKeeps ==
    ASSUME PoolInv, NEW outcome \in Sides, Settle(outcome)
    PROVE  PoolInv'
<1>1. /\ Market \in Markets /\ MarketTypeOK /\ PoolTypeOK
      /\ WAD \in Nat \ {0}
  BY PoolAssumption DEF PoolInv, PoolTypeOK
<1>2. /\ status[Market] \in {"Closed", "Proposed", "Disputed"}
      /\ status'[Market] = "Settled"
      /\ winningOutcome'[Market] = outcome
      /\ DistributeFees(Market) /\ PayFees
      /\ payoutPerShare' = Rate(outcome)
      /\ resolvedAt' = now
      /\ UNCHANGED <<now, supplyVars, liqPerShare, poolWad, swept, exits>>
  BY <1>1 DEF Settle, SettleMarket, SetStatus, MarketTypeOK
<1>3. MarketTypeOK'
  BY <1>1 DEF Settle, SettleMarket, SetStatus, DistributeFees, MarketTypeOK, Statuses, Sides
<1>4. ~Terminal(Market)
  BY <1>2 DEF Terminal, TerminalStatuses
<1>5. Solvent' /\ PaidOut' /\ held' \in Int
  BY <1>2, EndingPays
<1>6. /\ q[outcome] \in Nat \ {0} /\ poolWad \in Nat
      /\ exits = 0 /\ q[outcome] = SumOver(Claims(outcome))
  BY <1>4, <1>1 DEF PoolInv, Running, Floored, PoolTypeOK
<1>7. /\ Rate(outcome) \in Nat
      /\ Rate(outcome) * q[outcome] <= WAD * poolWad
      /\ WAD * poolWad < Rate(outcome) * q[outcome] + q[outcome]
  <2>1. WAD * poolWad \in Nat
    BY <1>1, <1>6, MulMono
  <2> QED
    <3>1. Rate(outcome) = (WAD * poolWad) \div q[outcome]
      BY DEF Rate, MulDiv
    <3> HIDE DEF Rate
    <3>2. /\ Rate(outcome) \in Nat
          /\ Rate(outcome) * q[outcome] <= WAD * poolWad
          /\ WAD * poolWad < Rate(outcome) * q[outcome] + q[outcome]
      BY <1>6, <2>1, <3>1, DivIsNat, DivFits
    <3> QED
      BY <3>2
<1>8. PoolTypeOK' /\ Floored'
  BY <1>1, <1>2, <1>3, <1>5, <1>7
  DEF PoolInv, PoolTypeOK, Floored, supplyVars
<1>9. Winners'
  <2>1. SumOver(Claims(outcome))' = q[outcome]
    BY <1>2, <1>6 DEF Claims, Claimable, supplyVars
  <2>2. /\ q[outcome] * Rate(outcome) <= poolWad * WAD
        /\ poolWad * WAD < q[outcome] * Rate(outcome) + q[outcome] + 0 * WAD
    <3>1. /\ q[outcome] * Rate(outcome) = Rate(outcome) * q[outcome]
          /\ poolWad * WAD = WAD * poolWad /\ 0 * WAD = 0
          /\ Rate(outcome) * q[outcome] \in Nat
      BY <1>1, <1>6, <1>7
    <3> QED
      BY <1>6, <1>7, <3>1
  <2>3. /\ SumOver(Claims(outcome))' * payoutPerShare' <= poolWad' * WAD
        /\ poolWad' * WAD < SumOver(Claims(outcome))' * payoutPerShare' + q'[outcome] + exits' * WAD
    BY <1>2, <1>6, <2>1, <2>2 DEF supplyVars
  <2> QED
    BY <1>2, <2>3 DEF Winners
<1>10. Running' /\ Refunds'
  BY <1>2 DEF Running, Refunds, Terminal, TerminalStatuses
<1> QED
  BY <1>5, <1>8, <1>9, <1>10 DEF PoolInv

(* What a refund at the prices of the end would pay is worth the cost, but *)
(* for a wei and for the rounding of the prices.                           *)
LEMMA PricesAddUp ==
    ASSUME NEW x \in [Sides -> Nat], x[0] > 0, x[1] > 0, NEW wad \in Nat \ {0},
           NEW l0 \in Int, NEW l1 \in Int,
           l0 = (x[0] * wad) \div Cost(x), l1 = (x[1] * wad) \div Cost(x)
    PROVE  /\ x[0] * l0 + x[1] * l1 <= (CostUp(x) + 1) * wad
           /\ CostUp(x) * wad < x[0] * l0 + x[1] * l1 + x[0] + x[1] + wad
<1>1. /\ x[0] \in Nat \ {0} /\ x[1] \in Nat \ {0}
      /\ SumSq(x) = x[0] * x[0] + x[1] * x[1]
  BY SumSqType DEF SumSq
<1>2. /\ Cost(x) \in Nat \ {0} /\ CostUp(x) \in Nat
      /\ Cost(x) * Cost(x) <= SumSq(x)
      /\ SumSq(x) < (Cost(x) + 1) * (Cost(x) + 1)
      /\ CostUp(x) * CostUp(x) >= SumSq(x)
      /\ CostUp(x) <= Cost(x) + 1
      /\ Cost(x) * Cost(x) = SumSq(x) \/ CostUp(x) = Cost(x) + 1
  <2>1. Cost(x) > 0
    BY <1>1, CostIsPositive
  <2>2. /\ Cost(x) \in Nat
        /\ Cost(x) * Cost(x) <= SumSq(x)
        /\ SumSq(x) < (Cost(x) + 1) * (Cost(x) + 1)
    BY CostIs
  <2>3. CostUp(x) \in Nat /\ CostUp(x) * CostUp(x) >= SumSq(x)
    BY CostUpIs
  <2>4. /\ CostUp(x) <= Cost(x) + 1
        /\ Cost(x) * Cost(x) = SumSq(x) \/ CostUp(x) = Cost(x) + 1
    BY CostsAreClose
  <2> QED
    BY <2>1, <2>2, <2>3, <2>4
<1>3. PICK a \in Nat \ {0}, b \in Nat \ {0}, c \in Nat \ {0}, u \in Nat, v \in Nat :
        a = x[0] /\ b = x[1] /\ c = Cost(x) /\ u = CostUp(x) /\ v = SumSq(x)
  BY <1>1, <1>2, SumSqType
<1>4. /\ v = a * a + b * b
      /\ c * c <= v /\ v < (c + 1) * (c + 1) /\ u * u >= v /\ u <= c + 1
      /\ c * c = v \/ u = c + 1
  BY <1>1, <1>2, <1>3
<1>5. \A y \in Nat, l \in Int : l = (y * wad) \div c =>
        /\ l * c <= y * wad
        /\ y * wad < l * c + c
  BY DivFits
<1>6. /\ l0 * c <= a * wad /\ a * wad < l0 * c + c
      /\ l1 * c <= b * wad /\ b * wad < l1 * c + c
  BY <1>3, <1>5
<1>7. \A y \in Nat \ {0}, l \in Int :
        l * c <= y * wad /\ y * wad < l * c + c =>
          /\ (y * l) * c <= (y * y) * wad
          /\ (y * y) * wad < (y * l) * c + y * c
  <2> SUFFICES ASSUME NEW y \in Nat \ {0}, NEW l \in Int,
                      l * c <= y * wad, y * wad < l * c + c
               PROVE  /\ (y * l) * c <= (y * y) * wad
                      /\ (y * y) * wad < (y * l) * c + y * c
    OBVIOUS
  <2>1. \A m, n \in Int : (m <= n => y * m <= y * n) /\ (m < n => y * m < y * n)
    OBVIOUS
  <2>2. l * c \in Int /\ y * wad \in Int /\ l * c + c \in Int
    OBVIOUS
  <2>3. y * (l * c) <= y * (y * wad) /\ y * (y * wad) < y * (l * c + c)
    BY <2>1, <2>2
  <2>4. y * (l * c) = (y * l) * c /\ y * (y * wad) = (y * y) * wad
        /\ y * (l * c + c) = (y * l) * c + y * c
    OBVIOUS
  <2> QED
    BY <2>3, <2>4
<1>8. /\ (a * l0) * c <= (a * a) * wad /\ (a * a) * wad < (a * l0) * c + a * c
      /\ (b * l1) * c <= (b * b) * wad /\ (b * b) * wad < (b * l1) * c + b * c
  BY <1>6, <1>7
<1> DEFINE owed == a * l0 + b * l1
<1>9. owed \in Int
  OBVIOUS
<1>10. owed * c <= v * wad /\ v * wad < (owed + a + b) * c
  <2>1. /\ owed * c = (a * l0) * c + (b * l1) * c
        /\ v * wad = (a * a) * wad + (b * b) * wad
        /\ (owed + a + b) * c = (a * l0) * c + (b * l1) * c + a * c + b * c
    BY <1>4
  <2>2. /\ (a * l0) * c \in Int /\ (b * l1) * c \in Int /\ a * c \in Int /\ b * c \in Int
        /\ (a * a) * wad \in Int /\ (b * b) * wad \in Int
    OBVIOUS
  <2> HIDE DEF owed
  <2> QED
    BY <1>8, <2>1, <2>2
<1> HIDE DEF owed
<1>11. \A m, n \in Int : (m * c <= n * c => m <= n) /\ (m * c < n * c => m < n)
  OBVIOUS
<1>12. u >= c
  BY <1>4, SquareOrder
<1>13. owed <= (u + 1) * wad
  <2>1. v <= (u + 1) * c
    <3>1. CASE c * c = v
      <4>1. \A k \in Nat : k >= c => c * c <= (k + 1) * c
        OBVIOUS
      <4> QED
        BY <1>12, <3>1, <4>1
    <3>2. CASE u = c + 1
      <4>1. (c + 1) * (c + 1) = (c + 1 + 1) * c + 1
        OBVIOUS
      <4>2. (c + 1 + 1) * c \in Nat
        OBVIOUS
      <4> QED
        BY <1>4, <3>2, <4>1, <4>2
    <3> QED
      BY <1>4, <3>1, <3>2
  <2>2. v * wad <= ((u + 1) * c) * wad
    BY <2>1, MulMono
  <2>3. ((u + 1) * c) * wad = ((u + 1) * wad) * c
    OBVIOUS
  <2>4. owed * c <= ((u + 1) * wad) * c
    <3>1. owed * c \in Int /\ v * wad \in Int /\ ((u + 1) * wad) * c \in Int
      BY <1>9
    <3> QED
      BY <1>10, <2>2, <2>3, <3>1
  <2>5. (u + 1) * wad \in Int
    OBVIOUS
  <2> QED
    BY <1>9, <1>11, <2>4, <2>5
<1>14. u * wad < owed + a + b + wad
  <2>1. (c * c) * wad <= v * wad
    BY <1>4, MulMono
  <2>2. (c * c) * wad = (c * wad) * c
    OBVIOUS
  <2>3. (c * wad) * c < (owed + a + b) * c
    <3>1. (c * wad) * c \in Int /\ v * wad \in Int /\ (owed + a + b) * c \in Int
      BY <1>9
    <3> QED
      BY <1>10, <2>1, <2>2, <3>1
  <2>4. c * wad < owed + a + b
    <3>1. c * wad \in Int /\ owed + a + b \in Int
      BY <1>9
    <3> QED
      BY <1>11, <2>3, <3>1
  <2>5. u * wad <= (c + 1) * wad /\ (c + 1) * wad = c * wad + wad
    BY <1>4, MulMono
  <2>6. u * wad \in Int /\ c * wad \in Int
    OBVIOUS
  <2> QED
    BY <1>9, <2>4, <2>5, <2>6
<1> QED
  BY <1>3, <1>13, <1>14 DEF owed

(* Failing or voiding fixes refunds that the pool covers, but for a wei.   *)
LEMMA AbandonKeeps ==
    ASSUME PoolInv, Abandon
    PROVE  PoolInv'
<1>1. /\ Market \in Markets /\ MarketTypeOK /\ PoolTypeOK
      /\ WAD \in Nat \ {0} /\ 0 \in Sides /\ 1 \in Sides
  BY PoolAssumption DEF PoolInv, PoolTypeOK, Sides, NO, YES
<1>2. /\ ~Terminal(Market)
      /\ status'[Market] \in {"Failed", "Voided"}
      /\ DistributeFees(Market) /\ PayFees
      /\ MarketTypeOK'
  <2>1. CASE VoidMarket(Market)
    BY <1>1, <2>1 DEF Abandon, VoidMarket, SetStatus, DistributeFees, MarketTypeOK, Statuses,
                      Terminal, TerminalStatuses
  <2>2. CASE \E byModule \in BOOLEAN : FailMarket(Market, byModule)
    BY <1>1, <2>2 DEF Abandon, FailMarket, SetStatus, DistributeFees, MarketTypeOK, Statuses
  <2> QED
    BY <2>1, <2>2 DEF Abandon
<1>3. /\ liqPerShare' = [i \in Sides |-> Price(q, i)]
      /\ resolvedAt' = now
      /\ UNCHANGED <<now, payoutPerShare, supplyVars, poolWad, swept, exits>>
  BY DEF Abandon, SnapshotLiquidation
<1>4. Solvent' /\ PaidOut' /\ held' \in Int
  BY <1>2, <1>3, EndingPays
<1>5. /\ q \in [Sides -> Nat] /\ \A i \in Sides : q[i] > 0
      /\ poolWad = CostUp(q) /\ exits = 0
      /\ \A i \in Sides : q[i] = SumOver(Claims(i))
  BY <1>1, <1>2 DEF PoolInv, Running, Floored, PoolTypeOK
<1>6. Cost(q) \in Nat \ {0}
  <2>1. Cost(q) > 0
    BY <1>1, <1>5, CostIsPositive
  <2>2. Cost(q) \in Nat
    BY <1>5, CostIs
  <2> QED
    BY <2>1, <2>2
<1>7. \A i \in Sides : /\ liqPerShare'[i] = (q[i] * WAD) \div Cost(q)
                      /\ liqPerShare'[i] \in Nat
  <2> SUFFICES ASSUME NEW i \in Sides
               PROVE  /\ liqPerShare'[i] = (q[i] * WAD) \div Cost(q)
                      /\ liqPerShare'[i] \in Nat
    OBVIOUS
  <2>1. liqPerShare'[i] = (q[i] * WAD) \div Cost(q)
    BY <1>3 DEF Price, MulDiv
  <2>2. q[i] * WAD \in Nat
    BY <1>1, <1>5, MulMono
  <2> QED
    BY <1>6, <2>1, <2>2, DivIsNat
<1>8. liqPerShare' \in [Sides -> Nat]
  BY <1>3, <1>7
<1>9. PoolTypeOK' /\ Floored'
  BY <1>1, <1>2, <1>3, <1>4, <1>8 DEF PoolInv, PoolTypeOK, Floored, supplyVars
<1>10. Refunds'
  <2>1. /\ SumOver(Claims(0))' = q[0] /\ SumOver(Claims(1))' = q[1]
    <3>1. Claims(0)' = Claims(0) /\ Claims(1)' = Claims(1)
      BY <1>3 DEF Claims, Claimable, supplyVars
    <3> QED
      BY <1>1, <1>5, <3>1
  <2>2. PICK l0 \in Int, l1 \in Int : l0 = liqPerShare'[0] /\ l1 = liqPerShare'[1]
    BY <1>1, <1>7
  <2>3. l0 = (q[0] * WAD) \div Cost(q) /\ l1 = (q[1] * WAD) \div Cost(q)
    BY <1>1, <1>7, <2>2
  <2>4. /\ q[0] * l0 + q[1] * l1 <= (CostUp(q) + 1) * WAD
        /\ CostUp(q) * WAD < q[0] * l0 + q[1] * l1 + q[0] + q[1] + WAD
    BY <1>1, <1>5, <2>3, PricesAddUp
  <2>5. (1 + 2 * exits) * WAD = WAD
    BY <1>1, <1>5
  <2>6. poolWad' = CostUp(q) /\ q' = q /\ (1 + 2 * exits') * WAD = WAD
    BY <1>3, <1>5, <2>5 DEF supplyVars
  <2>7. LET owed == SumOver(Claims(0))' * liqPerShare'[0] + SumOver(Claims(1))' * liqPerShare'[1]
        IN /\ owed <= (poolWad' + 1) * WAD
           /\ poolWad' * WAD < owed + q'[0] + q'[1] + (1 + 2 * exits') * WAD
    BY <2>1, <2>2, <2>4, <2>6
  <2> QED
    BY <2>7 DEF Refunds
<1>11. Running' /\ Winners'
  BY <1>2 DEF Running, Winners, Terminal, TerminalStatuses
<1> QED
  BY <1>4, <1>9, <1>10, <1>11 DEF PoolInv

-----------------------------------------------------------------------------
(* Exits.                                                                  *)

(* Paying out of the pool in whole token units, rounded down.              *)
LEMMA PaidFromPool ==
    ASSUME PoolInv, Terminal(Market), UNCHANGED marketVars, NEW paid \in Nat,
           poolWad' = poolWad - paid, held' = held - paid \div Scale
    PROVE  Solvent' /\ PaidOut' /\ held' \in Int
<1>1. /\ Market \in Markets /\ Scale \in Nat \ {0}
      /\ held \in Int /\ poolWad \in Nat
      /\ feeAccrued[Market] = 0 /\ settlementDeposit[Market] = 0
  BY PoolAssumption DEF PoolInv, PoolTypeOK, PaidOut
<1>2. paid \div Scale \in Int /\ (paid \div Scale) * Scale <= paid
  BY <1>1, DivFits
<1>3. PICK out \in Int : out = paid \div Scale /\ out * Scale <= paid
  BY <1>2
<1>4. held * Scale >= poolWad
  <2>1. held - feeAccrued[Market] - settlementDeposit[Market] = held
    BY <1>1
  <2> QED
    BY <2>1 DEF PoolInv, Solvent
<1>5. (held - out) * Scale >= poolWad - paid
  <2>1. (held - out) * Scale = held * Scale - out * Scale
    BY <1>1
  <2>2. held * Scale \in Int /\ out * Scale \in Int
    BY <1>1
  <2> QED
    BY <1>1, <1>3, <1>4, <2>1, <2>2
<1>6. held' = held - out /\ held' \in Int
  BY <1>1, <1>3
<1>7. held' - feeAccrued'[Market] - settlementDeposit'[Market] = held'
  BY <1>1, <1>6 DEF marketVars
<1>8. Solvent'
  BY <1>5, <1>6, <1>7 DEF Solvent
<1> QED
  BY <1>1, <1>6, <1>8 DEF PaidOut, marketVars

(* A redemption takes one claim and no more than it.                       *)
LEMMA RedeemKeeps ==
    ASSUME PoolInv, NEW h \in Holders, Redeem(h)
    PROVE  PoolInv'
<1>0. PICK w \in Sides : w = winningOutcome[Market]
  BY PoolAssumption DEF PoolInv, PoolTypeOK, MarketTypeOK, Sides
<1>1. /\ status[Market] = "Settled" /\ ~swept
      /\ Payout(h) <= poolWad
      /\ seedShares' = [seedShares EXCEPT ![h] = [i \in Sides |-> 0]]
      /\ shares' = [shares EXCEPT ![h][w] = 0]
      /\ poolWad' = poolWad - Payout(h)
      /\ held' = held - Payout(h) \div Scale
      /\ exits' = exits + 1
      /\ UNCHANGED <<now, marketVars, q, seedSupply, creatorSeed, rateVars, swept>>
  BY <1>0 DEF Redeem
<1>2. /\ PoolTypeOK /\ Market \in Markets /\ WAD \in Nat \ {0}
      /\ poolWad \in Nat /\ exits \in Nat /\ payoutPerShare \in Nat
      /\ q \in [Sides -> Nat]
      /\ shares \in [Holders -> [Sides -> Nat]]
      /\ seedShares \in [Holders -> [Sides -> Nat]]
  BY PoolAssumption DEF PoolInv, PoolTypeOK
<1>3. PICK a \in Nat : a = Claimable(h, w)
  BY <1>2 DEF Claimable
<1>4. PICK r \in Nat : r = payoutPerShare
  BY <1>2
<1>5. a * r \in Nat
  BY MulMono
<1>6. Payout(h) = (a * r) \div WAD
  BY <1>0, <1>3, <1>4 DEF Payout, MulDiv
<1>7. PICK p \in Nat : /\ p = Payout(h)
                       /\ p * WAD <= a * r
                       /\ a * r < p * WAD + WAD
  <2>1. (a * r) \div WAD \in Nat
    BY <1>2, <1>5, DivIsNat
  <2>2. /\ ((a * r) \div WAD) * WAD <= a * r
        /\ a * r < ((a * r) \div WAD) * WAD + WAD
    BY <1>2, <1>5, DivFits
  <2> QED
    BY <1>6, <2>1, <2>2
<1>8. Solvent' /\ PaidOut' /\ held' \in Int
  <2>1. Terminal(Market)
    BY <1>1 DEF Terminal, TerminalStatuses
  <2> QED
    BY <1>1, <1>7, <2>1, PaidFromPool
<1>9. PoolTypeOK' /\ Floored'
  <2>1. /\ seedShares' \in [Holders -> [Sides -> Nat]]
        /\ shares' \in [Holders -> [Sides -> Nat]]
    BY <1>1, <1>2
  <2>2. poolWad' \in Nat /\ exits' \in Nat
    BY <1>1, <1>2, <1>7
  <2> QED
    BY <1>1, <1>2, <1>8, <2>1, <2>2
    DEF PoolInv, PoolTypeOK, MarketTypeOK, Floored, marketVars, rateVars
<1>10. SumOver(Claims(w)') = SumOver(Claims(w)) - a
  <2> DEFINE bought == [i \in Sides |-> IF i = w THEN -shares[h][w] ELSE 0]
             seeded == [i \in Sides |-> -seedShares[h][i]]
  <2>1. bought \in [Sides -> Int] /\ seeded \in [Sides -> Int]
    BY <1>2
  <2>2. \A x \in Holders, i \in Sides :
            /\ shares'[x][i] = shares[x][i] + (IF x = h THEN bought[i] ELSE 0)
            /\ seedShares'[x][i] = seedShares[x][i] + (IF x = h THEN seeded[i] ELSE 0)
    BY <1>1, <1>2
  <2>3. bought[w] + seeded[w] = -a
    BY <1>2, <1>3 DEF Claimable
  <2> HIDE DEF bought, seeded
  <2>4. SumOver(Claims(w)') = SumOver(Claims(w)) + (bought[w] + seeded[w])
    BY <1>2, <2>1, <2>2, PositionsChange
  <2>5. SumOver(Claims(w)) \in Nat
    BY <1>2, ClaimsType
  <2> QED
    BY <2>3, <2>4, <2>5
<1>11. Winners'
  <2>1. PICK s \in Nat : s = SumOver(Claims(w))
    BY <1>2, ClaimsType
  <2>2. PICK k \in Nat : k = q[w]
    BY <1>2
  <2>3. s * r <= poolWad * WAD /\ poolWad * WAD < s * r + k + exits * WAD
    BY <1>0, <1>1, <1>4, <2>1, <2>2 DEF PoolInv, Winners
  <2>4. (s - a) * r <= (poolWad - p) * WAD
        /\ (poolWad - p) * WAD < (s - a) * r + k + (exits + 1) * WAD
    <3>1. /\ (s - a) * r = s * r - a * r
          /\ (poolWad - p) * WAD = poolWad * WAD - p * WAD
          /\ (exits + 1) * WAD = exits * WAD + WAD
      BY <1>2
    <3>2. /\ s * r \in Int /\ a * r \in Int /\ poolWad * WAD \in Int
          /\ p * WAD \in Int /\ exits * WAD \in Int
      BY <1>2
    <3> QED
      BY <1>2, <1>7, <2>3, <3>1, <3>2
  <2>5. /\ SumOver(Claims(w)') = s - a /\ payoutPerShare' = r /\ q'[w] = k
        /\ poolWad' = poolWad - p /\ exits' = exits + 1
    BY <1>1, <1>4, <1>7, <1>10, <2>1, <2>2 DEF rateVars
  <2>6. winningOutcome'[Market] = w
    BY <1>0, <1>1 DEF marketVars
  <2>7. /\ SumOver(Claims(w)') * payoutPerShare' <= poolWad' * WAD
        /\ poolWad' * WAD < SumOver(Claims(w)') * payoutPerShare' + q'[w] + exits' * WAD
    BY <2>4, <2>5
  <2> QED
    BY <2>6, <2>7 DEF Winners
<1>12. Running' /\ Refunds'
  BY <1>1 DEF Running, Refunds, Terminal, TerminalStatuses, marketVars
<1> QED
  BY <1>8, <1>9, <1>11, <1>12 DEF PoolInv

(* A liquidation takes one refund and no more than is there.               *)
LEMMA LiquidateKeeps ==
    ASSUME PoolInv, NEW h \in Holders, Liquidate(h)
    PROVE  PoolInv'
<1>1. /\ status[Market] \in {"Failed", "Voided"} /\ ~swept
      /\ seedShares' = [seedShares EXCEPT ![h] = [i \in Sides |-> 0]]
      /\ shares' = [shares EXCEPT ![h] = [i \in Sides |-> 0]]
      /\ poolWad' = poolWad - Trimmed(h)
      /\ held' = held - Trimmed(h) \div Scale
      /\ exits' = exits + 1
      /\ UNCHANGED <<now, marketVars, q, seedSupply, creatorSeed, rateVars, swept>>
  BY DEF Liquidate
<1>2. /\ PoolTypeOK /\ Market \in Markets /\ WAD \in Nat \ {0}
      /\ poolWad \in Nat /\ exits \in Nat /\ liqPerShare \in [Sides -> Nat]
      /\ q \in [Sides -> Nat]
      /\ shares \in [Holders -> [Sides -> Nat]]
      /\ seedShares \in [Holders -> [Sides -> Nat]]
      /\ 0 \in Sides /\ 1 \in Sides
  BY PoolAssumption DEF PoolInv, PoolTypeOK, Sides, NO, YES
<1>3. PICK a0 \in Nat, a1 \in Nat : a0 = Claimable(h, 0) /\ a1 = Claimable(h, 1)
  BY <1>2 DEF Claimable
<1>4. PICK l0 \in Nat, l1 \in Nat : l0 = liqPerShare[0] /\ l1 = liqPerShare[1]
  BY <1>2
<1>5. a0 * l0 \in Nat /\ a1 * l1 \in Nat
  BY MulMono
<1>6. Liquidation(h) = (a0 * l0) \div WAD + (a1 * l1) \div WAD
  BY <1>3, <1>4 DEF Liquidation, MulDiv
<1>7. PICK p0 \in Nat, p1 \in Nat :
        /\ Liquidation(h) = p0 + p1
        /\ p0 * WAD <= a0 * l0 /\ a0 * l0 < p0 * WAD + WAD
        /\ p1 * WAD <= a1 * l1 /\ a1 * l1 < p1 * WAD + WAD
  <2>1. (a0 * l0) \div WAD \in Nat /\ (a1 * l1) \div WAD \in Nat
    BY <1>2, <1>5, DivIsNat
  <2>2. /\ ((a0 * l0) \div WAD) * WAD <= a0 * l0
        /\ a0 * l0 < ((a0 * l0) \div WAD) * WAD + WAD
        /\ ((a1 * l1) \div WAD) * WAD <= a1 * l1
        /\ a1 * l1 < ((a1 * l1) \div WAD) * WAD + WAD
    BY <1>2, <1>5, DivFits
  <2> QED
    BY <1>6, <2>1, <2>2
<1>8. /\ Trimmed(h) \in Nat /\ Trimmed(h) <= poolWad
      /\ \/ Trimmed(h) = p0 + p1
         \/ Trimmed(h) = poolWad /\ p0 + p1 > poolWad
  BY <1>2, <1>7 DEF Trimmed
<1>9. Solvent' /\ PaidOut' /\ held' \in Int
  <2>1. Terminal(Market)
    BY <1>1 DEF Terminal, TerminalStatuses
  <2> QED
    BY <1>1, <1>8, <2>1, PaidFromPool
<1>10. PoolTypeOK' /\ Floored'
  <2>1. /\ seedShares' \in [Holders -> [Sides -> Nat]]
        /\ shares' \in [Holders -> [Sides -> Nat]]
    BY <1>1, <1>2
  <2>2. poolWad' \in Nat /\ exits' \in Nat
    BY <1>1, <1>2, <1>8
  <2> QED
    BY <1>1, <1>2, <1>9, <2>1, <2>2
    DEF PoolInv, PoolTypeOK, MarketTypeOK, Floored, marketVars, rateVars
<1>11. /\ SumOver(Claims(0)') = SumOver(Claims(0)) - a0
       /\ SumOver(Claims(1)') = SumOver(Claims(1)) - a1
       /\ SumOver(Claims(0)') \in Nat /\ SumOver(Claims(1)') \in Nat
  <2> DEFINE bought == [i \in Sides |-> -shares[h][i]]
             seeded == [i \in Sides |-> -seedShares[h][i]]
  <2>1. bought \in [Sides -> Int] /\ seeded \in [Sides -> Int]
    BY <1>2
  <2>2. \A x \in Holders, i \in Sides :
            /\ shares'[x][i] = shares[x][i] + (IF x = h THEN bought[i] ELSE 0)
            /\ seedShares'[x][i] = seedShares[x][i] + (IF x = h THEN seeded[i] ELSE 0)
    BY <1>1, <1>2
  <2>3. bought[0] + seeded[0] = -a0 /\ bought[1] + seeded[1] = -a1
    BY <1>2, <1>3 DEF Claimable
  <2> HIDE DEF bought, seeded
  <2>4. \A i \in Sides : SumOver(Claims(i)') = SumOver(Claims(i)) + (bought[i] + seeded[i])
    BY <1>2, <2>1, <2>2, PositionsChange
  <2>5. SumOver(Claims(0)) \in Nat /\ SumOver(Claims(1)) \in Nat
    BY <1>2, ClaimsType
  <2>6. SumOver(Claims(0)') \in Nat /\ SumOver(Claims(1)') \in Nat
    <3>1. \A i \in Sides : SumOver(Claims(i)) \in Nat
      BY <1>2, ClaimsType
    <3>2. \A i \in Sides : SumOver(Claims(i))' \in Nat
      <4>1. /\ shares' \in [Holders -> [Sides -> Nat]]
            /\ seedShares' \in [Holders -> [Sides -> Nat]]
        BY <1>10 DEF PoolTypeOK
      <4>2. \A i \in Sides : \A x \in Holders : Claims(i)'[x] \in Nat
        BY <4>1 DEF Claims, Claimable
      <4> QED
        BY <4>2, SumIsTotal, TotalBoundsMembers, PoolAssumption
    <3> QED
      BY <1>2, <3>2
  <2> QED
    BY <1>2, <2>3, <2>4, <2>5, <2>6
<1>12. Refunds'
  <2>1. PICK s0 \in Nat, s1 \in Nat : s0 = SumOver(Claims(0)) /\ s1 = SumOver(Claims(1))
    BY <1>2, ClaimsType
  <2>2. PICK k0 \in Nat \ {0}, k1 \in Nat : k0 = q[0] /\ k1 = q[1]
    BY <1>2 DEF PoolInv, PoolTypeOK, Floored
  <2>3. /\ s0 * l0 + s1 * l1 <= (poolWad + 1) * WAD
        /\ poolWad * WAD < s0 * l0 + s1 * l1 + k0 + k1 + (1 + 2 * exits) * WAD
    BY <1>1, <1>4, <2>1, <2>2 DEF PoolInv, Refunds
  <2>4. PICK d0 \in Nat, d1 \in Nat : d0 = s0 - a0 /\ d1 = s1 - a1
    BY <1>11, <2>1
  <2>5. PICK t \in Nat : /\ t = Trimmed(h)
                         /\ \/ t = p0 + p1
                            \/ t = poolWad /\ p0 + p1 > poolWad
    BY <1>8
  <2>6. PICK owed \in Nat, out \in Nat, paid \in Nat, pool \in Nat, dust \in Nat :
          /\ owed = s0 * l0 + s1 * l1 /\ out = a0 * l0 + a1 * l1
          /\ paid = (p0 + p1) * WAD /\ pool = poolWad * WAD
          /\ dust = (1 + 2 * exits) * WAD
    <3>1. /\ s0 * l0 + s1 * l1 \in Nat /\ a0 * l0 + a1 * l1 \in Nat
          /\ (p0 + p1) * WAD \in Nat /\ poolWad * WAD \in Nat
          /\ (1 + 2 * exits) * WAD \in Nat
      <4>1. /\ s0 * l0 \in Nat /\ s1 * l1 \in Nat
            /\ p0 + p1 \in Nat /\ 1 + 2 * exits \in Nat
        BY <1>2, MulMono
      <4>2. /\ (p0 + p1) * WAD \in Nat /\ poolWad * WAD \in Nat
            /\ (1 + 2 * exits) * WAD \in Nat
        <5>1. \A a \in Nat : a * WAD \in Nat
          BY <1>2, MulMono
        <5> QED
          BY <1>2, <4>1, <5>1
      <4> QED
        BY <1>5, <4>1, <4>2
    <3> QED
      BY <3>1
  <2>7. /\ d0 * l0 + d1 * l1 = owed - out
        /\ paid <= out /\ out < paid + 2 * WAD
        /\ owed <= pool + WAD
        /\ pool < owed + k0 + k1 + dust
        /\ (1 + 2 * (exits + 1)) * WAD = dust + 2 * WAD
    <3>1. d0 * l0 = s0 * l0 - a0 * l0 /\ d1 * l1 = s1 * l1 - a1 * l1
      BY <2>4
    <3>2. /\ (p0 + p1) * WAD = p0 * WAD + p1 * WAD
          /\ p0 * WAD \in Nat /\ p1 * WAD \in Nat
      BY <1>2, MulMono
    <3>3. (poolWad + 1) * WAD = poolWad * WAD + WAD
      BY <1>2
    <3>4. (1 + 2 * (exits + 1)) * WAD = (1 + 2 * exits) * WAD + 2 * WAD
      BY <1>2
    <3>5. d0 * l0 + d1 * l1 = owed - out
      <4>1. s0 * l0 \in Int /\ s1 * l1 \in Int
        OBVIOUS
      <4> QED
        BY <1>5, <2>6, <3>1, <4>1
    <3>6. paid <= out /\ out < paid + 2 * WAD
      BY <1>2, <1>5, <1>7, <2>6, <3>2
    <3>7. owed <= pool + WAD /\ pool < owed + k0 + k1 + dust
      BY <2>3, <2>6, <3>3
    <3> QED
      BY <2>6, <3>4, <3>5, <3>6, <3>7
  <2>8. /\ d0 * l0 + d1 * l1 <= (poolWad - t + 1) * WAD
        /\ (poolWad - t) * WAD < d0 * l0 + d1 * l1 + k0 + k1 + (1 + 2 * (exits + 1)) * WAD
    <3>1. CASE t = p0 + p1
      <4>1. /\ (poolWad - t + 1) * WAD = pool - paid + WAD
            /\ (poolWad - t) * WAD = pool - paid
        BY <1>2, <2>6, <3>1
      <4> QED
        BY <1>2, <2>7, <4>1
    <3>2. CASE t = poolWad /\ p0 + p1 > poolWad
      <4>1. pool + WAD <= paid
        <5>1. poolWad + 1 <= p0 + p1
          BY <1>2, <3>2
        <5>2. (poolWad + 1) * WAD <= (p0 + p1) * WAD
          BY <1>2, <5>1, MulMono
        <5>3. (poolWad + 1) * WAD = poolWad * WAD + WAD
          BY <1>2
        <5> QED
          BY <2>6, <5>2, <5>3
      <4>2. (poolWad - t + 1) * WAD = WAD /\ (poolWad - t) * WAD = 0
        BY <1>2, <3>2
      <4>3. owed - out \in Nat
        <5>1. d0 * l0 \in Nat /\ d1 * l1 \in Nat
          BY MulMono
        <5> QED
          BY <2>7, <5>1
      <4>4. owed - out <= WAD /\ 0 < (owed - out) + k0 + k1 + (dust + 2 * WAD)
        BY <1>2, <2>7, <4>1, <4>3
      <4> QED
        BY <2>7, <4>2, <4>4
    <3> QED
      BY <2>5, <3>1, <3>2
  <2>9. /\ SumOver(Claims(0)') = d0 /\ SumOver(Claims(1)') = d1
        /\ liqPerShare'[0] = l0 /\ liqPerShare'[1] = l1
        /\ poolWad' = poolWad - t /\ exits' = exits + 1
        /\ q'[0] = k0 /\ q'[1] = k1
    BY <1>1, <1>4, <1>11, <2>1, <2>2, <2>4, <2>5 DEF rateVars
  <2> QED
    BY <2>8, <2>9 DEF Refunds
<1>13. Running' /\ Winners'
  BY <1>1 DEF Running, Winners, Terminal, TerminalStatuses, marketVars
<1> QED
  BY <1>9, <1>10, <1>12, <1>13 DEF PoolInv

(* A sweep empties the market, which by then owes neither fee nor deposit. *)
LEMMA SweepKeeps ==
    ASSUME PoolInv, SweepUnclaimed
    PROVE  PoolInv'
<1>1. /\ Terminal(Market) /\ swept' = TRUE /\ poolWad' = 0 /\ held' = 0
      /\ UNCHANGED <<now, marketVars, supplyVars, rateVars, exits>>
  BY DEF SweepUnclaimed
<1>2. PoolTypeOK' /\ Floored' /\ PaidOut'
  BY <1>1 DEF PoolInv, PoolTypeOK, MarketTypeOK, Floored, PaidOut, Terminal,
              marketVars, supplyVars, rateVars
<1>3. Solvent'
  <2>1. feeAccrued'[Market] = 0 /\ settlementDeposit'[Market] = 0
    BY <1>1 DEF PoolInv, PaidOut, marketVars
  <2>2. (0 - 0 - 0) * Scale = 0
    BY PoolAssumption
  <2> QED
    BY <1>1, <2>1, <2>2 DEF Solvent
<1>4. Running' /\ Winners' /\ Refunds'
  BY <1>1 DEF Running, Winners, Refunds, Terminal, marketVars
<1> QED
  BY <1>2, <1>3, <1>4 DEF PoolInv

-----------------------------------------------------------------------------
(* The start, and the invariant of the pool.                               *)

(* Nobody with anything makes nothing.                                     *)
LEMMA SumOfNothing ==
    ASSUME NEW f, \A x \in Holders : f[x] = 0
    PROVE  SumOver(f) = 0
<1>1. Total(f, Holders) = 0 * Total(f, Holders)
  <2>1. \A x \in Holders : f[x] \in Int /\ f[x] = 0 * f[x]
    OBVIOUS
  <2> QED
    BY <2>1, TotalOfMultiples, PoolAssumption
<1>2. Total(f, Holders) \in Int
  BY TotalOfMembers, PoolAssumption
<1> QED
  BY <1>1, <1>2, SumIsTotal

(* A seed pays for the supply it starts.                                   *)
LEMMA SeedPays ==
    ASSUME NEW wad \in Nat, NEW s, s = SeedSharesFor(wad)
    PROVE  s \in Nat /\ CostUp([i \in Sides |-> s]) <= wad
<1> DEFINE half == (wad * wad) \div 2
<1>1. half \in Nat /\ half * 2 <= wad * wad
  <2>1. wad * wad \in Nat
    BY MulMono
  <2> QED
    BY <2>1, DivIsNat, DivFits
<1>2. SeedSharesFor(wad) = CHOOSE r \in 0..wad : r * r <= half /\ half < (r + 1) * (r + 1)
  BY DEF SeedSharesFor
<1> HIDE DEF half
<1>3. wad * wad >= half
  <2>1. wad * wad \in Nat
    BY MulMono
  <2> QED
    BY <1>1, <2>1
<1>4. s \in 0..wad /\ s * s <= half
  BY <1>1, <1>2, <1>3, RootDown
<1> DEFINE x == [i \in Sides |-> s]
<1>5. x \in [Sides -> Nat] /\ x[0] = s /\ x[1] = s
  BY <1>4 DEF Sides, NO, YES
<1> HIDE DEF x
<1>6. SumSq(x) <= wad * wad
  <2>1. SumSq(x) = s * s + s * s
    BY <1>5 DEF SumSq
  <2>2. s * s \in Nat /\ wad * wad \in Nat
    BY <1>4, MulMono
  <2> QED
    BY <1>1, <1>4, <2>1, <2>2
<1>7. CostUp(x) <= wad
  BY <1>5, <1>6, CostUpIs
<1> QED
  BY <1>4, <1>7 DEF x

(* The seed alone backs the market it begins with.                         *)
LEMMA StartKeeps == Init => PoolInv
<1> SUFFICES ASSUME Init
             PROVE  PoolInv
  OBVIOUS
<1>1. PICK s : s = SeedSharesFor(SeedTokens * Scale)
  OBVIOUS
<1>2. /\ now = 1 /\ MarketInit
      /\ s > 0
      /\ q = [i \in Sides |-> s]
      /\ seedSupply = [i \in Sides |-> s]
      /\ creatorSeed = [i \in Sides |-> s]
      /\ seedShares = [h \in Holders |-> [i \in Sides |-> IF h = Creator THEN s ELSE 0]]
      /\ shares = [h \in Holders |-> [i \in Sides |-> 0]]
      /\ poolWad = CostUp(q)
      /\ payoutPerShare = 0
      /\ liqPerShare = [i \in Sides |-> 0]
      /\ resolvedAt = 0
      /\ swept = FALSE
      /\ held = SeedTokens + Deposit
      /\ exits = 0
  BY <1>1 DEF Init, ChainInit
<1>3. /\ SeedTokens \in Nat /\ Scale \in Nat /\ Deposit \in Nat
      /\ Creator \in Holders /\ Markets = {Market} /\ FeesAtClose = {0}
  BY PoolAssumption, MarketAssumption
<1>4. s \in Nat /\ poolWad <= SeedTokens * Scale
  <2>1. SeedTokens * Scale \in Nat
    BY <1>3, MulMono
  <2> QED
    BY <1>1, <1>2, <2>1, SeedPays
<1>5. q \in [Sides -> Nat] /\ poolWad \in Nat
  BY <1>2, <1>4, CostUpIs
<1>6. MarketTypeOK /\ status[Market] = "Open" /\ feeAccrued[Market] = 0
      /\ settlementDeposit[Market] = Deposit
  BY <1>2, <1>3 DEF MarketInit, MarketTypeOK, Statuses
<1>7. PoolTypeOK
  <2>1. /\ seedSupply \in [Sides -> Nat] /\ creatorSeed \in [Sides -> Nat]
        /\ liqPerShare \in [Sides -> Nat]
        /\ shares \in [Holders -> [Sides -> Nat]]
        /\ seedShares \in [Holders -> [Sides -> Nat]]
    BY <1>2, <1>4
  <2>2. held \in Int /\ now \in Nat
    BY <1>2, <1>3
  <2> QED
    BY <1>2, <1>5, <1>6, <2>1, <2>2 DEF PoolTypeOK
<1>8. Floored
  BY <1>2, <1>4 DEF Floored
<1>9. Solvent
  <2>1. held - feeAccrued[Market] - settlementDeposit[Market] = SeedTokens
    BY <1>2, <1>3, <1>6
  <2> QED
    BY <1>4, <2>1 DEF Solvent
<1>10. \A i \in Sides : q[i] = SumOver(Claims(i)) /\ seedSupply[i] = SumOver(Seeds(i))
  <2> SUFFICES ASSUME NEW i \in Sides
               PROVE  q[i] = SumOver(Claims(i)) /\ seedSupply[i] = SumOver(Seeds(i))
    OBVIOUS
  <2> DEFINE zero == [h \in Holders |-> 0]
  <2>1. /\ \A x \in Holders : zero[x] = 0 /\ zero[x] \in Int
        /\ \A x \in Holders \ {Creator} : Claims(i)[x] = zero[x] /\ Seeds(i)[x] = zero[x]
        /\ Claims(i)[Creator] = s /\ Seeds(i)[Creator] = s
        /\ q[i] = s /\ seedSupply[i] = s
    BY <1>2, <1>3, <1>4 DEF Claims, Claimable, Seeds
  <2> HIDE DEF zero
  <2>2. SumOver(zero) = 0
    BY <2>1, SumOfNothing
  <2>3. SumOver(Claims(i)) = SumOver(zero) - zero[Creator] + Claims(i)[Creator]
    <3>1. /\ \A x \in Holders : zero[x] \in Int
          /\ \A x \in Holders \ {Creator} : Claims(i)[x] = zero[x]
          /\ Claims(i)[Creator] \in Int
      BY <1>4, <2>1
    <3> QED
      BY <1>3, <3>1, SumOfOne
  <2>4. SumOver(Seeds(i)) = SumOver(zero) - zero[Creator] + Seeds(i)[Creator]
    <3>1. /\ \A x \in Holders : zero[x] \in Int
          /\ \A x \in Holders \ {Creator} : Seeds(i)[x] = zero[x]
          /\ Seeds(i)[Creator] \in Int
      BY <1>4, <2>1
    <3> QED
      BY <1>3, <3>1, SumOfOne
  <2>5. zero[Creator] = 0
    BY <1>3, <2>1
  <2> QED
    BY <1>4, <2>1, <2>2, <2>3, <2>4, <2>5
<1>11. PaidOut /\ Winners /\ Refunds
  BY <1>6 DEF PaidOut, Winners, Refunds, Terminal, TerminalStatuses
<1>12. Running
  BY <1>2, <1>10 DEF Running
<1> QED
  BY <1>7, <1>8, <1>9, <1>11, <1>12 DEF PoolInv

(* Every step keeps the invariant.                                         *)
LEMMA PoolStep == PoolInv /\ [Next]_poolVars => PoolInv'
<1> SUFFICES ASSUME PoolInv, [Next]_poolVars
             PROVE  PoolInv'
  OBVIOUS
<1>1. CASE PassTime
  <2>1. now' \in Nat
    BY <1>1 DEF PassTime, Tick, PoolInv, PoolTypeOK
  <2> QED
    BY <1>1, <2>1, WaitingKeeps DEF PassTime
<1>2. CASE \E h \in Holders, side \in Sides, n \in TradeSizes : Buy(h, side, n)
  BY <1>2, BuyKeeps, PoolAssumption
<1>3. CASE \E h \in Holders, side \in Sides, n \in TradeSizes : Sell(h, side, n)
  BY <1>3, SellKeeps, PoolAssumption
<1>4. CASE \E h \in Holders, side \in Sides, n \in TradeSizes :
             \E to \in Holders : Transfer(h, to, side, n)
  BY <1>4, TransferKeeps
<1>5. CASE Provision
  BY <1>5, AddLiquidityKeeps, RemoveLiquidityKeeps DEF Provision
<1>6. CASE \E h \in Holders : Redeem(h) \/ Liquidate(h)
  BY <1>6, RedeemKeeps, LiquidateKeeps
<1>7. CASE Advance
  BY <1>7, AdvanceKeeps
<1>8. CASE \E outcome \in Sides : Settle(outcome)
  BY <1>8, SettleKeeps
<1>9. CASE Abandon
  BY <1>9, AbandonKeeps
<1>10. CASE SweepUnclaimed
  BY <1>10, SweepKeeps
<1>11. CASE Finished \/ UNCHANGED poolVars
  <2>1. /\ now' \in Nat
        /\ UNCHANGED <<marketVars, supplyVars, rateVars, poolWad, swept, held, exits>>
    BY <1>11 DEF Finished, poolVars, PoolInv, PoolTypeOK
  <2> QED
    BY <2>1, WaitingKeeps
<1> QED
  BY <1>1, <1>2, <1>3, <1>4, <1>5, <1>6, <1>7, <1>8, <1>9, <1>10, <1>11 DEF Next

(* The books of a market's pool balance at every moment of its life.       *)
THEOREM PoolStaysSound == Spec => []PoolInv
<1>1. Init => PoolInv
  BY StartKeeps
<1>2. PoolInv /\ [Next]_poolVars => PoolInv'
  BY PoolStep
<1> QED
  BY <1>1, <1>2, PTL DEF Spec

-----------------------------------------------------------------------------
(* What follows from it.                                                   *)

(* The market always holds what its positions, fees and deposit are owed   *)
(* (`collateralOwed`).                                                     *)
THEOREM MarketStaysSolvent == Spec => []Solvent
<1>1. PoolInv => Solvent
  BY DEF PoolInv
<1> QED
  BY <1>1, PoolStaysSound, PTL

(* Until the market ends, supplies are what the holders have, and the pool *)
(* is what the cost function says (`buy`, `sell`, `addLiquidity`,          *)
(* `removeLiquidity`, and transfers of shares).                            *)
THEOREM SupplyStaysHeld == Spec => []SupplyIsHeld
<1>1. PoolInv => SupplyIsHeld
  BY DEF PoolInv, Running, SupplyIsHeld
<1> QED
  BY <1>1, PoolStaysSound, PTL

(* No trade and no withdrawal takes a supply below its seed, or the seed   *)
(* below the creator's: `settle` never divides by zero.                    *)
THEOREM SeedFloorStands == Spec => []SeedFloor
<1>1. PoolInv => SeedFloor
  BY DEF PoolInv, Floored, SeedFloor
<1> QED
  BY <1>1, PoolStaysSound, PTL

(* Claims rounded down one by one are no more than the claims rounded down *)
(* together.                                                               *)
LEMMA PayoutsFit ==
    ASSUME PoolInv, status[Market] = "Settled", ~swept
    PROVE  SumOver([h \in Holders |-> Payout(h)]) <= poolWad
<1>1. PICK w \in Sides : w = winningOutcome[Market]
  BY PoolAssumption DEF PoolInv, PoolTypeOK, MarketTypeOK, Sides
<1>2. /\ PoolTypeOK /\ WAD \in Nat \ {0} /\ IsFiniteSet(Holders)
      /\ payoutPerShare \in Nat /\ poolWad \in Nat
  BY PoolAssumption DEF PoolInv, PoolTypeOK
<1> DEFINE c     == Claims(w)
           paid  == [h \in Holders |-> Payout(h)]
           whole == [h \in Holders |-> WAD * paid[h]]
           owed  == [h \in Holders |-> payoutPerShare * c[h]]
<1>3. \A h \in Holders : c[h] \in Nat /\ paid[h] = (c[h] * payoutPerShare) \div WAD
  BY <1>1, <1>2, ClaimsType DEF Payout, MulDiv
<1>4. \A h \in Holders : whole[h] = WAD * paid[h] /\ owed[h] = payoutPerShare * c[h]
  OBVIOUS
<1> HIDE DEF c, paid, whole, owed
<1>5. \A h \in Holders : /\ c[h] \in Int /\ paid[h] \in Int
                         /\ whole[h] \in Int /\ owed[h] \in Int
                         /\ whole[h] <= owed[h]
  <2> SUFFICES ASSUME NEW h \in Holders
               PROVE  /\ c[h] \in Int /\ paid[h] \in Int
                      /\ whole[h] \in Int /\ owed[h] \in Int
                      /\ whole[h] <= owed[h]
    OBVIOUS
  <2>1. c[h] \in Nat /\ c[h] * payoutPerShare \in Nat
    BY <1>2, <1>3, MulMono
  <2>2. paid[h] \in Int /\ paid[h] * WAD <= c[h] * payoutPerShare
    <3>1. \A a \in Nat : a \div WAD \in Int /\ (a \div WAD) * WAD <= a
      BY <1>2, DivFits
    <3>2. paid[h] = (c[h] * payoutPerShare) \div WAD
      BY <1>3
    <3> QED
      BY <2>1, <3>1, <3>2
  <2>3. WAD * paid[h] = paid[h] * WAD /\ payoutPerShare * c[h] = c[h] * payoutPerShare
        /\ WAD * paid[h] \in Int
    BY <1>2, <2>1, <2>2
  <2> QED
    BY <1>4, <2>1, <2>2, <2>3
<1>6. /\ Total(whole, Holders) = WAD * Total(paid, Holders)
      /\ Total(owed, Holders) = payoutPerShare * Total(c, Holders)
      /\ Total(paid, Holders) \in Int /\ Total(c, Holders) \in Int
  BY <1>2, <1>4, <1>5, TotalOfMultiples, TotalOfMembers
<1>7. Total(whole, Holders) <= Total(owed, Holders)
  BY <1>2, <1>5, TotalOfLess
<1>8. SumOver(c) * payoutPerShare <= poolWad * WAD
  BY <1>1 DEF PoolInv, Winners, c
<1>9. Total(paid, Holders) * WAD <= poolWad * WAD
  <2>1. /\ payoutPerShare * Total(c, Holders) = SumOver(c) * payoutPerShare
        /\ payoutPerShare * Total(c, Holders) \in Int
    BY <1>2, <1>6, SumIsTotal
  <2>2. WAD * Total(paid, Holders) = Total(paid, Holders) * WAD
        /\ WAD * Total(paid, Holders) \in Int /\ poolWad * WAD \in Int
    BY <1>2, <1>6
  <2> QED
    BY <1>6, <1>7, <1>8, <2>1, <2>2
<1>10. Total(paid, Holders) <= poolWad
  <2>1. \A m, n \in Int, d \in Nat \ {0} : m * d <= n * d => m <= n
    OBVIOUS
  <2> QED
    BY <1>2, <1>6, <1>9, <2>1
<1> QED
  BY <1>10, SumIsTotal DEF paid

(* The same of refunds, on both sides at once.                             *)
LEMMA RefundsFit ==
    ASSUME PoolInv, status[Market] \in {"Failed", "Voided"}, ~swept
    PROVE  SumOver([h \in Holders |-> Liquidation(h)]) <= poolWad + 1
<1>1. 0 \in Sides /\ 1 \in Sides
  BY DEF Sides, NO, YES
<1>2. /\ PoolTypeOK /\ WAD \in Nat \ {0} /\ IsFiniteSet(Holders)
      /\ poolWad \in Nat /\ liqPerShare \in [Sides -> Nat]
  BY PoolAssumption DEF PoolInv, PoolTypeOK
<1>3. PICK l0 \in Nat, l1 \in Nat : l0 = liqPerShare[0] /\ l1 = liqPerShare[1]
  BY <1>1, <1>2
<1> DEFINE c0    == Claims(0)
           c1    == Claims(1)
           paid  == [h \in Holders |-> Liquidation(h)]
           whole == [h \in Holders |-> WAD * paid[h]]
           owed0 == [h \in Holders |-> l0 * c0[h]]
           owed1 == [h \in Holders |-> l1 * c1[h]]
           owed  == [h \in Holders |-> owed0[h] + owed1[h]]
<1>4. \A h \in Holders : /\ c0[h] \in Nat /\ c1[h] \in Nat
                         /\ paid[h] = (c0[h] * l0) \div WAD + (c1[h] * l1) \div WAD
  BY <1>1, <1>2, <1>3, ClaimsType DEF Liquidation, MulDiv
<1>5. \A h \in Holders : /\ whole[h] = WAD * paid[h]
                         /\ owed0[h] = l0 * c0[h] /\ owed1[h] = l1 * c1[h]
                         /\ owed[h] = owed0[h] + owed1[h]
  OBVIOUS
<1> HIDE DEF c0, c1, paid, whole, owed0, owed1, owed
<1>6. \A h \in Holders : /\ c0[h] \in Int /\ c1[h] \in Int /\ paid[h] \in Int
                         /\ whole[h] \in Int
                         /\ owed0[h] \in Int /\ owed1[h] \in Int /\ owed[h] \in Int
                         /\ whole[h] <= owed[h]
  <2> SUFFICES ASSUME NEW h \in Holders
               PROVE  /\ c0[h] \in Int /\ c1[h] \in Int /\ paid[h] \in Int
                      /\ whole[h] \in Int
                      /\ owed0[h] \in Int /\ owed1[h] \in Int /\ owed[h] \in Int
                      /\ whole[h] <= owed[h]
    OBVIOUS
  <2>1. /\ c0[h] \in Nat /\ c1[h] \in Nat
        /\ c0[h] * l0 \in Nat /\ c1[h] * l1 \in Nat
    BY <1>4, MulMono
  <2>2. PICK p0 \in Int, p1 \in Int :
          /\ paid[h] = p0 + p1
          /\ p0 * WAD <= c0[h] * l0
          /\ p1 * WAD <= c1[h] * l1
    <3>1. \A a \in Nat : a \div WAD \in Int /\ (a \div WAD) * WAD <= a
      BY <1>2, DivFits
    <3>2. paid[h] = (c0[h] * l0) \div WAD + (c1[h] * l1) \div WAD
      BY <1>4
    <3> QED
      BY <2>1, <3>1, <3>2
  <2>3. WAD * paid[h] = p0 * WAD + p1 * WAD /\ p0 * WAD \in Int /\ p1 * WAD \in Int
    BY <1>2, <2>2
  <2>4. l0 * c0[h] = c0[h] * l0 /\ l1 * c1[h] = c1[h] * l1
    BY <2>1
  <2> QED
    BY <1>5, <2>1, <2>2, <2>3, <2>4
<1>7. /\ Total(whole, Holders) = WAD * Total(paid, Holders)
      /\ Total(owed0, Holders) = l0 * Total(c0, Holders)
      /\ Total(owed1, Holders) = l1 * Total(c1, Holders)
      /\ Total(paid, Holders) \in Int
      /\ Total(c0, Holders) \in Int /\ Total(c1, Holders) \in Int
  BY <1>2, <1>5, <1>6, TotalOfMultiples, TotalOfMembers
<1>8. Total(owed, Holders) = Total(owed0, Holders) + Total(owed1, Holders)
  BY <1>2, <1>5, <1>6, TotalOfSums
<1>9. Total(whole, Holders) <= Total(owed, Holders)
  BY <1>2, <1>6, TotalOfLess
<1>10. SumOver(c0) * l0 + SumOver(c1) * l1 <= (poolWad + 1) * WAD
  BY <1>3 DEF PoolInv, Refunds, c0, c1
<1>11. Total(paid, Holders) * WAD <= (poolWad + 1) * WAD
  <2>1. /\ l0 * Total(c0, Holders) = SumOver(c0) * l0
        /\ l1 * Total(c1, Holders) = SumOver(c1) * l1
        /\ l0 * Total(c0, Holders) \in Int /\ l1 * Total(c1, Holders) \in Int
    BY <1>7, SumIsTotal
  <2>2. WAD * Total(paid, Holders) = Total(paid, Holders) * WAD
        /\ WAD * Total(paid, Holders) \in Int /\ (poolWad + 1) * WAD \in Int
    BY <1>2, <1>7
  <2> QED
    BY <1>7, <1>8, <1>9, <1>10, <2>1, <2>2
<1>12. Total(paid, Holders) <= poolWad + 1
  <2>1. \A m, n \in Int, d \in Nat \ {0} : m * d <= n * d => m <= n
    OBVIOUS
  <2>2. poolWad + 1 \in Int
    BY <1>2
  <2> QED
    BY <1>2, <1>7, <1>11, <2>1, <2>2
<1> QED
  BY <1>12, SumIsTotal DEF paid

(* Everybody can leave, in any order: the pool covers all claims that are  *)
(* left (`redeem`, `redeemLiquidation`).                                   *)
THEOREM ClaimsStayCovered == Spec => []ClaimsAreCovered
<1>1. PoolInv => ClaimsAreCovered
  BY PayoutsFit, RefundsFit DEF ClaimsAreCovered
<1> QED
  BY <1>1, PoolStaysSound, PTL

(* When nobody has a claim left, only what the roundings kept is there.    *)
LEMMA DustIsLittle == PoolInv => OnlyDustRemains
<1> SUFFICES ASSUME PoolInv, ~swept
             PROVE  /\ (status[Market] = "Settled" /\ \A h \in Holders : Claimable(h, winningOutcome[Market]) = 0)
                         => poolWad * WAD < q[winningOutcome[Market]] + exits * WAD
                    /\ (status[Market] \in {"Failed", "Voided"} /\ \A h \in Holders, i \in Sides : Claimable(h, i) = 0)
                         => poolWad * WAD < q[0] + q[1] + (1 + 2 * exits) * WAD
  BY DEF OnlyDustRemains
<1>1. 0 \in Sides /\ 1 \in Sides
  BY DEF Sides, NO, YES
<1>2. /\ q \in [Sides -> Nat] /\ exits \in Nat /\ WAD \in Nat
      /\ payoutPerShare \in Nat /\ liqPerShare \in [Sides -> Nat]
      /\ winningOutcome[Market] \in Sides
  BY PoolAssumption DEF PoolInv, PoolTypeOK, MarketTypeOK, Sides
<1>3. \A i : (\A h \in Holders : Claimable(h, i) = 0) => SumOver(Claims(i)) = 0
  BY SumOfNothing DEF Claims
<1>4. ASSUME status[Market] = "Settled",
             \A h \in Holders : Claimable(h, winningOutcome[Market]) = 0
      PROVE  poolWad * WAD < q[winningOutcome[Market]] + exits * WAD
  <2>1. PICK w \in Sides : w = winningOutcome[Market]
    BY <1>2
  <2>2. SumOver(Claims(w)) = 0
    BY <1>3, <1>4, <2>1
  <2>3. poolWad * WAD < 0 * payoutPerShare + q[w] + exits * WAD
    BY <1>4, <2>1, <2>2 DEF PoolInv, Winners
  <2>4. 0 * payoutPerShare = 0 /\ 0 + q[w] = q[w]
    BY <1>2
  <2> QED
    BY <2>1, <2>3, <2>4
<1>5. ASSUME status[Market] \in {"Failed", "Voided"},
             \A h \in Holders, i \in Sides : Claimable(h, i) = 0
      PROVE  poolWad * WAD < q[0] + q[1] + (1 + 2 * exits) * WAD
  <2>1. SumOver(Claims(0)) = 0 /\ SumOver(Claims(1)) = 0
    BY <1>1, <1>3, <1>5
  <2>2. poolWad * WAD
          < 0 * liqPerShare[0] + 0 * liqPerShare[1] + q[0] + q[1] + (1 + 2 * exits) * WAD
    BY <1>5, <2>1 DEF PoolInv, Refunds
  <2>3. 0 * liqPerShare[0] = 0 /\ 0 * liqPerShare[1] = 0 /\ 0 + 0 + q[0] = q[0]
    BY <1>1, <1>2
  <2> QED
    BY <2>2, <2>3
<1> QED
  BY <1>4, <1>5

(* Nothing but rounding is stranded in the pool (`redeem`,                 *)
(* `redeemLiquidation`).                                                   *)
THEOREM LittleIsStranded == Spec => []OnlyDustRemains
<1> QED
  BY DustIsLittle, PoolStaysSound, PTL

(* A market scaled by what an offer buys costs no more than the offer.     *)
LEMMA GrowthIsPaid ==
    ASSUME PoolInv, TradingOpen, NEW tokens \in Offers
    PROVE  Charge(tokens) <= tokens
<1> DEFINE g == Grown(tokens)
<1>1. /\ Scale \in Nat \ {0} /\ WAD \in Nat \ {0} /\ tokens \in Nat
      /\ q \in [Sides -> Nat] /\ poolWad = CostUp(q)
      /\ 0 \in Sides /\ 1 \in Sides
  BY OpenState, PoolAssumption DEF PoolTypeOK, Sides, NO, YES
<1>2. PICK p \in Nat \ {0}, l \in Nat, m \in [Sides -> Nat] :
        /\ p = poolWad /\ l = Lambda(tokens) /\ m = Minted(tokens)
        /\ l * p <= (tokens * Scale) * WAD
        /\ \A i \in Sides : m[i] * WAD <= q[i] * l /\ g[i] = q[i] + m[i]
        /\ g \in [Sides -> Nat]
  <2>1. Minted(tokens) \in [Sides -> Nat]
    BY MintedType DEF Minted
  <2> QED
    BY <2>1, MintedType
<1> HIDE DEF g
<1>3. PICK x \in Nat : x = tokens * Scale
  BY <1>1, MulMono
<1>4. \A i \in Sides : g[i] * p <= q[i] * (p + x)
  <2> SUFFICES ASSUME NEW i \in Sides
               PROVE  g[i] * p <= q[i] * (p + x)
    OBVIOUS
  <2>1. PICK a \in Nat, b \in Nat : a = q[i] /\ b = m[i]
    BY <1>1, <1>2
  <2>2. b * WAD <= a * l /\ l * p <= x * WAD /\ g[i] = a + b
    BY <1>2, <1>3, <2>1
  <2>3. (b * p) * WAD <= (a * x) * WAD
    <3>1. (b * WAD) * p <= (a * l) * p
      <4>1. b * WAD \in Nat /\ a * l \in Nat
        BY <1>1, MulMono
      <4> QED
        BY <2>2, <4>1, MulMono
    <3>2. (l * p) * a <= (x * WAD) * a
      <4>1. l * p \in Nat /\ x * WAD \in Nat
        BY <1>1, MulMono
      <4> QED
        BY <2>2, <4>1, MulMono
    <3>3. /\ (b * p) * WAD = (b * WAD) * p /\ (a * l) * p = (l * p) * a
          /\ (x * WAD) * a = (a * x) * WAD
      BY <1>1
    <3>4. (b * WAD) * p \in Int /\ (l * p) * a \in Int /\ (x * WAD) * a \in Int
      BY <1>1
    <3> QED
      BY <3>1, <3>2, <3>3, <3>4
  <2>4. b * p <= a * x
    <3>1. b * p \in Nat /\ a * x \in Nat
      BY MulMono
    <3> QED
      BY <1>1, <2>3, <3>1, MulMono
  <2>5. (a + b) * p = a * p + b * p /\ a * (p + x) = a * p + a * x
        /\ a * p \in Int /\ b * p \in Int /\ a * x \in Int
    OBVIOUS
  <2> QED
    BY <2>1, <2>2, <2>4, <2>5
<1>5. SumSq(g) <= (p + x) * (p + x)
  <2>1. PICK a \in Nat, b \in Nat, c \in Nat, d \in Nat :
          a = q[0] /\ b = q[1] /\ c = g[0] /\ d = g[1]
    BY <1>1, <1>2
  <2>2. c * p <= a * (p + x) /\ d * p <= b * (p + x)
    BY <1>1, <1>4, <2>1
  <2>3. PICK t \in Nat : t = p + x
    OBVIOUS
  <2>4. (c * p) * (c * p) <= (a * t) * (a * t) /\ (d * p) * (d * p) <= (b * t) * (b * t)
    <3>1. c * p \in Nat /\ d * p \in Nat /\ a * t \in Nat /\ b * t \in Nat
      BY MulMono
    <3> QED
      BY <2>2, <2>3, <3>1, SquareOrder
  <2>5. (c * c + d * d) * (p * p) <= (a * a + b * b) * (t * t)
    <3>1. /\ (c * c + d * d) * (p * p) = (c * p) * (c * p) + (d * p) * (d * p)
          /\ (a * a + b * b) * (t * t) = (a * t) * (a * t) + (b * t) * (b * t)
      OBVIOUS
    <3>2. /\ (c * p) * (c * p) \in Int /\ (d * p) * (d * p) \in Int
          /\ (a * t) * (a * t) \in Int /\ (b * t) * (b * t) \in Int
      OBVIOUS
    <3> QED
      BY <2>4, <3>1, <3>2
  <2>6. a * a + b * b <= p * p
    <3>1. SumSq(q) <= CostUp(q) * CostUp(q)
      BY <1>1, CostUpIs, SumSqType
    <3> QED
      BY <1>1, <1>2, <2>1, <3>1 DEF SumSq
  <2>7. (a * a + b * b) * (t * t) <= (p * p) * (t * t)
    <3>1. a * a + b * b \in Nat /\ p * p \in Nat /\ t * t \in Nat
      OBVIOUS
    <3> QED
      BY <2>6, <3>1, MulMono
  <2>8. (c * c + d * d) * (p * p) <= (t * t) * (p * p)
    <3>1. (p * p) * (t * t) = (t * t) * (p * p)
      OBVIOUS
    <3>2. /\ (c * c + d * d) * (p * p) \in Int /\ (a * a + b * b) * (t * t) \in Int
          /\ (t * t) * (p * p) \in Int
      OBVIOUS
    <3> QED
      BY <2>5, <2>7, <3>1, <3>2
  <2>9. c * c + d * d <= t * t
    <3>1. c * c + d * d \in Nat /\ t * t \in Nat /\ p * p \in Nat /\ p * p > 0
      OBVIOUS
    <3> QED
      BY <2>8, <3>1, MulMono
  <2> QED
    BY <2>1, <2>3, <2>9 DEF SumSq
<1>6. CostUp(g) \in Nat /\ CostUp(g) <= p + x
  BY <1>2, <1>5, CostUpIs
<1>7. PICK growth \in Int : growth = CostUp(g) - p /\ growth <= tokens * Scale
  BY <1>3, <1>6
<1>8. CeilDiv(growth, Scale) <= tokens
  BY <1>1, <1>7, CeilSuffices
<1> QED
  BY <1>2, <1>7, <1>8 DEF Charge, g

(* `addLiquidity` never charges more than it was offered, as its comment   *)
(* "Proven" says (Market.sol:417).                                         *)
THEOREM OffersAreEnough == Spec => []OfferCoversCharge
<1>1. PoolInv => OfferCoversCharge
  BY GrowthIsPaid DEF OfferCoversCharge
<1> QED
  BY <1>1, PoolStaysSound, PTL
=============================================================================

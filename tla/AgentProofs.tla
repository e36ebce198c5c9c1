----------------------------- MODULE AgentProofs -----------------------------
(***************************************************************************)
(* What a script of the agent kit reports and how far its orders go, for   *)
(* every market, every belief and bankroll, and every limit: whoever       *)
(* trades beside it, and whenever it dies and is started again.            *)
(***************************************************************************)
EXTENDS AgentScripts, PoolProofs

-----------------------------------------------------------------------------
(* The curve, as the client mirrors it.                                    *)

(* A supply of a market that has been seeded.                              *)
Supplies == {x \in [Sides -> Nat] : x[0] > 0 /\ x[1] > 0}

(* The one of the two sides and the other.                                 *)
LEMMA TwoSides ==
    ASSUME NEW x \in Supplies, NEW i \in Sides
    PROVE  /\ x \in [Sides -> Nat] /\ 1 - i \in Sides
           /\ x[i] \in Nat \ {0} /\ x[1 - i] \in Nat \ {0}
           /\ SumSq(x) = x[i] * x[i] + x[1 - i] * x[1 - i]
           /\ SumSq(x) \in Nat \ {0}
<1>1. i = 0 \/ i = 1
  BY DEF Sides, NO, YES
<1>2. /\ x \in [Sides -> Nat] /\ 1 - i \in Sides
      /\ x[i] \in Nat \ {0} /\ x[1 - i] \in Nat \ {0}
  BY <1>1 DEF Supplies, Sides, NO, YES
<1>3. SumSq(x) = x[i] * x[i] + x[1 - i] * x[1 - i]
  <2>1. x[0] * x[0] \in Int /\ x[1] * x[1] \in Int
    BY <1>1, <1>2
  <2> QED
    BY <1>1, <2>1 DEF SumSq
<1>4. \A a, b \in Nat \ {0} : a * a + b * b \in Nat \ {0}
  OBVIOUS
<1> QED
  BY <1>2, <1>3, <1>4

(* Quotients order as their fractions do.                                  *)
LEMMA FractionsOrder ==
    ASSUME NEW a \in Nat, NEW b \in Nat \ {0}, NEW c \in Nat, NEW d \in Nat \ {0},
           a * d <= c * b
    PROVE  a \div b <= c \div d
<1>1. PICK k \in Nat : k = a \div b /\ k * b <= a
  BY DivIsNat, DivFits
<1>2. PICK l \in Nat : l = c \div d /\ c < l * d + d
  BY DivIsNat, DivFits
<1>3. (k * b) * d <= a * d
  BY <1>1, MulMono
<1>4. (k * d) * b <= c * b
  <2>1. (k * b) * d = (k * d) * b /\ (k * b) * d \in Nat /\ a * d \in Nat /\ c * b \in Nat
    OBVIOUS
  <2> QED
    BY <1>3, <2>1
<1>5. k * d <= c
  <2>1. k * d \in Nat
    BY MulMono
  <2> QED
    BY <1>4, <2>1, MulMono
<1>6. k * d < (l + 1) * d
  <2>1. k * d \in Nat /\ l * d \in Nat /\ (l + 1) * d = l * d + d
    OBVIOUS
  <2> QED
    BY <1>2, <1>5, <2>1
<1>7. k < l + 1
  BY <1>6, MulMono
<1> QED
  BY <1>1, <1>2, <1>7

(* A probability is one.                                                   *)
LEMMA ProbabilityIs ==
    ASSUME NEW x \in Supplies, NEW i \in Sides
    PROVE  Probability(x, i) \in 0..WAD
<1>1. PICK a \in Nat, v \in Nat \ {0} : a = x[i] * x[i] /\ v = SumSq(x) /\ a <= v
  <2>1. \A m, n \in Nat : m * m <= m * m + n * n /\ m * m \in Nat
    OBVIOUS
  <2> QED
    BY TwoSides, <2>1
<1>2. WAD \in Nat \ {0} /\ a * WAD \in Nat
  BY PoolAssumption, MulMono
<1>3. (a * WAD) \div v \in Nat
  BY <1>2, DivIsNat
<1>4. (a * WAD) \div v <= WAD \div 1
  <2>1. (a * WAD) * 1 <= WAD * v
    <3>1. a * WAD <= v * WAD /\ v * WAD = WAD * v /\ v * WAD \in Nat
      BY <1>1, <1>2, MulMono
    <3> QED
      BY <1>2, <3>1
  <2>2. PICK p \in Nat : p = a * WAD
    BY <1>2
  <2>3. 1 \in Nat \ {0} /\ WAD \in Nat
    BY <1>2
  <2>4. p \div v <= WAD \div 1
    BY <2>1, <2>2, <2>3, FractionsOrder
  <2> QED
    BY <2>2, <2>4
<1>5. WAD \div 1 = WAD
  BY <1>2
<1> QED
  BY <1>1, <1>2, <1>3, <1>4, <1>5 DEF Probability, MulDiv

(* The more is bought of a side, the likelier the market calls it.         *)
LEMMA ProbabilityGrows ==
    ASSUME NEW x \in Supplies, NEW i \in Sides, NEW n \in Nat, NEW m \in Nat, n <= m
    PROVE  /\ QAfterBuy(x, i, n) \in Supplies
           /\ Probability(QAfterBuy(x, i, n), i) <= Probability(QAfterBuy(x, i, m), i)
<1> DEFINE y == QAfterBuy(x, i, n)
           z == QAfterBuy(x, i, m)
<1>1. /\ y \in Supplies /\ z \in Supplies
      /\ y[i] = x[i] + n /\ z[i] = x[i] + m
      /\ y[1 - i] = x[1 - i] /\ z[1 - i] = x[1 - i]
  BY TwoSides DEF QAfterBuy, Supplies, Sides, NO, YES
<1> HIDE DEF y, z
<1>2. PICK a \in Nat, b \in Nat, c \in Nat :
        /\ a = x[i] + n /\ b = x[i] + m /\ c = x[1 - i] * x[1 - i] /\ a <= b
        /\ SumSq(y) = a * a + c /\ SumSq(z) = b * b + c
        /\ a * a + c \in Nat \ {0} /\ b * b + c \in Nat \ {0}
  <2>1. x[i] \in Nat /\ x[1 - i] * x[1 - i] \in Nat
    BY TwoSides, MulMono
  <2> QED
    BY <1>1, <2>1, TwoSides
<1>3. PICK s \in Nat, t \in Nat : s = a * a /\ t = b * b /\ s <= t
  BY <1>2, SquareOrder, MulMono
<1>4. (s * WAD) * (t + c) <= (t * WAD) * (s + c)
  <2>1. WAD \in Nat
    BY PoolAssumption
  <2>2. PICK u \in Nat, w \in Nat : u = c * WAD /\ w = (s * t) * WAD
    BY <2>1, MulMono
  <2>3. s * u <= t * u
    BY <1>3, MulMono
  <2>4. (s * WAD) * (t + c) = w + s * u /\ (t * WAD) * (s + c) = w + t * u
    BY <2>1, <2>2
  <2>5. s * u \in Nat /\ t * u \in Nat
    BY MulMono
  <2> QED
    BY <2>3, <2>4, <2>5
<1>5. (s * WAD) \div (s + c) <= (t * WAD) \div (t + c)
  <2>1. s * WAD \in Nat /\ t * WAD \in Nat
    BY PoolAssumption, MulMono
  <2> QED
    BY <1>2, <1>3, <1>4, <2>1, FractionsOrder
<1> QED
  BY <1>1, <1>2, <1>3, <1>5 DEF Probability, MulDiv, y, z

-----------------------------------------------------------------------------
(* What a spend buys.                                                      *)

(* The supply a spend leads to: the side's, squared with the other's, is   *)
(* within the cost the spend takes the pool to, and would not be with one  *)
(* more.                                                                   *)
LEMMA SpendIs ==
    ASSUME NEW x \in Supplies, NEW i \in Sides, NEW spend \in Int
    PROVE  /\ SharesForSpend(x, i, spend) \in Nat
           /\ SharesForSpend(x, i, spend) # 0 =>
                LET r == x[i] + SharesForSpend(x, i, spend)
                    c == CostUp(x) + spend
                IN /\ spend > 0 /\ c <= MaxQ /\ c \in Nat
                   /\ r * r + x[1 - i] * x[1 - i] <= c * c
                   /\ c * c - x[1 - i] * x[1 - i] < (r + 1) * (r + 1)
<1> DEFINE c     == CostUp(x) + spend
           inner == c * c - x[1 - i] * x[1 - i]
           newQi == CHOOSE r \in 0..c : r * r <= inner /\ inner < (r + 1) * (r + 1)
           n     == SharesForSpend(x, i, spend)
<1>1. n = IF spend <= 0 \/ c > MaxQ \/ newQi <= x[i] THEN 0 ELSE newQi - x[i]
  BY DEF SharesForSpend
<1>2. x[i] \in Nat /\ x[1 - i] \in Nat /\ CostUp(x) \in Nat /\ c \in Int
  BY TwoSides, CostUpIs
<1>3. ASSUME spend > 0
      PROVE  newQi \in 0..c /\ newQi * newQi <= inner /\ inner < (newQi + 1) * (newQi + 1)
  <2>1. c \in Nat /\ CostUp(x) <= c
    BY <1>2, <1>3
  <2>2. CostUp(x) * CostUp(x) <= c * c
    BY <1>2, <2>1, SquareOrder
  <2>3. x[1 - i] * x[1 - i] <= CostUp(x) * CostUp(x)
    <3>1. \A a, b \in Nat : a * a \in Nat /\ b * b \in Nat /\ a * a <= b * b + a * a
      OBVIOUS
    <3>2. CostUp(x) * CostUp(x) >= x[i] * x[i] + x[1 - i] * x[1 - i]
      BY TwoSides, CostUpIs
    <3>3. CostUp(x) * CostUp(x) \in Nat
      BY <1>2, MulMono
    <3> QED
      BY <1>2, <3>1, <3>2, <3>3
  <2>4. c * c \in Nat /\ x[1 - i] * x[1 - i] \in Nat /\ CostUp(x) * CostUp(x) \in Nat
    BY <1>2, <2>1, MulMono
  <2> HIDE DEF c
  <2>5. inner \in Nat /\ inner <= c * c
    BY <2>2, <2>3, <2>4
  <2> HIDE DEF inner
  <2>6. \E r \in 0..c : r * r <= inner /\ inner < (r + 1) * (r + 1)
    BY <2>1, <2>5, RootDown
  <2> QED
    BY <2>6
<1> HIDE DEF newQi
<1>4. ASSUME n # 0
      PROVE  /\ spend > 0 /\ c <= MaxQ /\ newQi > x[i] /\ n = newQi - x[i]
             /\ newQi \in Nat /\ c \in Nat
  <2>1. spend > 0 /\ ~(c > MaxQ) /\ ~(newQi <= x[i]) /\ n = newQi - x[i]
    BY <1>1, <1>4
  <2>2. c \in Nat /\ MaxQ \in Nat
    BY <1>2, <2>1, PoolAssumption
  <2>3. newQi \in Nat
    BY <1>3, <2>1, <2>2
  <2> QED
    BY <1>2, <2>1, <2>2, <2>3
<1>5. n \in Nat
  BY <1>2, <1>4
<1>6. ASSUME n # 0
      PROVE  /\ spend > 0 /\ c <= MaxQ /\ c \in Nat
             /\ (x[i] + n) * (x[i] + n) + x[1 - i] * x[1 - i] <= c * c
             /\ c * c - x[1 - i] * x[1 - i] < ((x[i] + n) + 1) * ((x[i] + n) + 1)
  <2>1. x[i] + n = newQi
    BY <1>2, <1>4, <1>6
  <2>2. newQi * newQi <= inner /\ inner < (newQi + 1) * (newQi + 1)
    BY <1>3, <1>4, <1>6
  <2>3. newQi * newQi \in Nat /\ x[1 - i] * x[1 - i] \in Nat /\ c * c \in Nat
    BY <1>2, <1>4, <1>6, MulMono
  <2> QED
    BY <1>4, <1>6, <2>1, <2>2, <2>3
<1> QED
  BY <1>5, <1>6

(* A greater spend that the curve allows buys no less.                     *)
LEMMA SpendGrows ==
    ASSUME NEW x \in Supplies, NEW i \in Sides, NEW s \in Int, NEW t \in Int, s <= t,
           SharesForSpend(x, i, s) # 0, SharesForSpend(x, i, t) # 0
    PROVE  SharesForSpend(x, i, s) <= SharesForSpend(x, i, t)
<1> DEFINE n == SharesForSpend(x, i, s)
           m == SharesForSpend(x, i, t)
<1>1. n \in Nat /\ m \in Nat /\ x[i] \in Nat /\ x[1 - i] \in Nat
  BY SpendIs, TwoSides
<1>2. PICK a \in Nat, b \in Nat, y \in Nat :
        /\ a = x[i] + n /\ b = x[i] + m /\ y = x[1 - i] * x[1 - i]
  BY <1>1, MulMono
<1>3. PICK c \in Nat, d \in Nat :
        /\ c = CostUp(x) + s /\ d = CostUp(x) + t
        /\ a * a + y <= c * c /\ d * d - y < (b + 1) * (b + 1)
  BY <1>2, SpendIs
<1>4. c <= d
  <2>1. CostUp(x) \in Nat
    BY TwoSides, CostUpIs
  <2> QED
    BY <1>3, <2>1
<1>5. c * c <= d * d
  BY <1>4, SquareOrder
<1>6. a * a < (b + 1) * (b + 1)
  <2>1. a * a \in Nat /\ c * c \in Nat /\ d * d \in Nat /\ (b + 1) * (b + 1) \in Nat
    BY MulMono
  <2> QED
    BY <1>3, <1>5, <2>1
<1>7. a < b + 1
  BY <1>6, SquareOrder
<1> QED
  BY <1>1, <1>2, <1>7

(* What a spend buys costs no more than the spend.                         *)
LEMMA SpendPays ==
    ASSUME NEW x \in Supplies, NEW i \in Sides, NEW spend \in Int,
           SharesForSpend(x, i, spend) # 0
    PROVE  CostUp(QAfterBuy(x, i, SharesForSpend(x, i, spend))) <= CostUp(x) + spend
<1> DEFINE n == SharesForSpend(x, i, spend)
           y == QAfterBuy(x, i, n)
<1>1. n \in Nat
  BY SpendIs
<1>2. PICK c \in Nat : /\ c = CostUp(x) + spend
                       /\ (x[i] + n) * (x[i] + n) + x[1 - i] * x[1 - i] <= c * c
  BY SpendIs
<1> HIDE DEF n
<1>3. y \in Supplies /\ y[i] = x[i] + n /\ y[1 - i] = x[1 - i]
  BY <1>1, TwoSides DEF QAfterBuy, Supplies, Sides, NO, YES
<1> HIDE DEF y
<1>4. SumSq(y) <= c * c
  BY <1>2, <1>3, TwoSides
<1>5. CostUp(y) <= c
  BY <1>3, <1>4, TwoSides, CostUpIs
<1> QED
  BY <1>2, <1>5 DEF y, n

-----------------------------------------------------------------------------
(* Sizing an order.                                                        *)

(* An impact is a probability, and that of nothing is where the market is. *)
LEMMA ImpactIs ==
    ASSUME NEW x \in Supplies, NEW i \in Sides, NEW tokens \in Int
    PROVE  ImpactOf(x, i, tokens) \in 0..WAD
<1>1. ToWad(tokens) \in Int
  BY PoolAssumption DEF ToWad
<1>2. SharesForSpend(x, i, ToWad(tokens)) \in Nat
  BY <1>1, SpendIs
<1>3. WAD \in 0..WAD
  BY PoolAssumption
<1> DEFINE n == SharesForSpend(x, i, ToWad(tokens))
<1> HIDE DEF n
<1>4. Probability(x, i) \in 0..WAD /\ Probability(QAfterBuy(x, i, n), i) \in 0..WAD
  <2>1. QAfterBuy(x, i, n) \in Supplies
    BY <1>2, ProbabilityGrows DEF n
  <2> QED
    BY <2>1, ProbabilityIs
<1> QED
  BY <1>3, <1>4 DEF ImpactOf, n

(* The search of `sizeWithinImpact` for a budget that fits.                *)
Searches(f, b, Fit) ==
    f = [w \in (0..b) \X (0..b) |->
           LET mid == (w[1] + w[2]) \div 2
           IN IF w[2] - w[1] <= 1 THEN w[1]
              ELSE IF mid \in Fit THEN f[<<mid, w[2]>>]
              ELSE f[<<w[1], mid>>]]

(* "`lo` always fits", so what it ends with does.                          *)
LEMMA SearchFits ==
    ASSUME NEW b \in Nat, NEW Fit, NEW f, Searches(f, b, Fit)
    PROVE  \A lo, hi \in 0..b : lo <= hi /\ lo \in Fit => f[<<lo, hi>>] \in Fit \cap (0..b)
<1> DEFINE Within(n) == \A lo, hi \in 0..b :
                          lo <= hi /\ hi - lo <= n /\ lo \in Fit => f[<<lo, hi>>] \in Fit \cap (0..b)
           G == {n \in Nat : Within(n)}
<1>1. \A lo, hi \in 0..b :
        f[<<lo, hi>>] = LET mid == (lo + hi) \div 2
                        IN IF hi - lo <= 1 THEN lo
                           ELSE IF mid \in Fit THEN f[<<mid, hi>>] ELSE f[<<lo, mid>>]
  <2> TAKE lo, hi \in 0..b
  <2>1. PICK w \in (0..b) \X (0..b) : w = <<lo, hi>>
    OBVIOUS
  <2>2. w[1] = lo /\ w[2] = hi
    BY <2>1
  <2> QED
    BY <2>1, <2>2 DEF Searches
<1>2. Within(0)
  <2> SUFFICES ASSUME NEW lo \in 0..b, NEW hi \in 0..b, lo <= hi, hi - lo <= 0, lo \in Fit
               PROVE  f[<<lo, hi>>] \in Fit \cap (0..b)
    OBVIOUS
  <2> QED
    BY <1>1
<1>3. ASSUME NEW n \in Nat, Within(n)
      PROVE  Within(n + 1)
  <2> SUFFICES ASSUME NEW lo \in 0..b, NEW hi \in 0..b, lo <= hi, hi - lo <= n + 1, lo \in Fit
               PROVE  f[<<lo, hi>>] \in Fit \cap (0..b)
    OBVIOUS
  <2>1. CASE hi - lo <= 1
    BY <1>1, <2>1
  <2>2. CASE ~(hi - lo <= 1)
    <3>1. PICK mid \in 0..b : mid = (lo + hi) \div 2 /\ lo < mid /\ mid < hi
      BY <2>2
    <3>2. /\ f[<<lo, hi>>] = IF mid \in Fit THEN f[<<mid, hi>>] ELSE f[<<lo, mid>>]
      BY <1>1, <2>2, <3>1
    <3>3. /\ mid <= hi /\ hi - mid <= n
          /\ lo <= mid /\ mid - lo <= n
      BY <3>1
    <3>4. f[<<lo, mid>>] \in Fit \cap (0..b)
      BY <1>3, <3>3
    <3>5. mid \in Fit => f[<<mid, hi>>] \in Fit \cap (0..b)
      BY <1>3, <3>3
    <3> QED
      BY <3>2, <3>4, <3>5
  <2> QED
    BY <2>1, <2>2
<1>4. \A n \in Nat : Within(n)
  <2> HIDE DEF Within
  <2>1. 0 \in G /\ \A n \in Nat : n \in G => n + 1 \in G
    BY <1>2, <1>3
  <2> HIDE DEF G
  <2>2. \A n \in Nat : n \in G
    BY <2>1, ByCounting
  <2> QED
    BY <2>2 DEF G
<1> SUFFICES ASSUME NEW lo \in 0..b, NEW hi \in 0..b, lo <= hi, lo \in Fit
             PROVE  f[<<lo, hi>>] \in Fit \cap (0..b)
  OBVIOUS
<1>5. PICK n \in Nat : n = hi - lo
  OBVIOUS
<1>6. Within(n)
  BY <1>4
<1> QED
  BY <1>5, <1>6

(* And it ends.                                                            *)
LEMMA SearchEnds ==
    ASSUME NEW b \in Nat, NEW Fit
    PROVE  \E f : Searches(f, b, Fit)
<1> DEFINE S      == (0..b) \X (0..b)
           mid(w) == (w[1] + w[2]) \div 2
           Done   == {w \in S : w[2] - w[1] <= 1}
           result == [w \in S |-> w[1]]
           next   == [w \in S |-> IF mid(w) \in Fit THEN <<mid(w), w[2]>> ELSE <<w[1], mid(w)>>]
           size   == [w \in S |-> IF w[2] >= w[1] THEN w[2] - w[1] ELSE 0]
<1>1. \A w \in S : size[w] \in Nat
  OBVIOUS
<1>2. ASSUME NEW w \in S, w \notin Done
      PROVE  next[w] \in S /\ size[next[w]] < size[w]
  <2>1. PICK lo \in 0..b, hi \in 0..b : w = <<lo, hi>>
    OBVIOUS
  <2>2. lo + 1 < hi
    BY <1>2, <2>1
  <2>3. mid(w) \in 0..b /\ lo < mid(w) /\ mid(w) < hi
    BY <2>1, <2>2
  <2>4. PICK m \in 0..b : m = mid(w) /\ lo < m /\ m < hi
    BY <2>3
  <2>5. next[w] = IF m \in Fit THEN <<m, hi>> ELSE <<lo, m>>
    BY <2>1, <2>4
  <2>6. size[w] = hi - lo /\ size[<<m, hi>>] = hi - m /\ size[<<lo, m>>] = m - lo
    BY <2>1, <2>2, <2>4
  <2>7. next[w] \in S
    BY <2>5
  <2> HIDE DEF size, next
  <2> QED
    BY <2>4, <2>5, <2>6, <2>7
<1>3. \E f : Loops(f, S, Done, result, next)
  <2> HIDE DEF S, Done, result, next, size
  <2>1. \A w \in S : w \notin Done => next[w] \in S /\ size[next[w]] < size[w]
    BY <1>2
  <2> QED
    BY <1>1, <2>1, LoopsEnd
<1>4. PICK f : f = [w \in S |-> IF w \in Done THEN result[w] ELSE f[next[w]]]
  BY <1>3 DEF Loops
<1>5. ASSUME NEW w \in S
      PROVE  (IF w \in Done THEN result[w] ELSE f[next[w]])
               = IF w[2] - w[1] <= 1 THEN w[1]
                 ELSE IF mid(w) \in Fit THEN f[<<mid(w), w[2]>>]
                 ELSE f[<<w[1], mid(w)>>]
  OBVIOUS
<1>6. f = [w \in S |-> IF w[2] - w[1] <= 1 THEN w[1]
                       ELSE IF mid(w) \in Fit THEN f[<<mid(w), w[2]>>]
                       ELSE f[<<w[1], mid(w)>>]]
  <2> HIDE DEF S, Done, result, next, size, mid
  <2> QED
    BY <1>4, <1>5
<1> QED
  BY <1>6 DEF Searches

(* `sizeWithinImpact` never returns more than it was given, nor a budget   *)
(* that breaches the bound.                                                *)
LEMMA SizingIs ==
    ASSUME NEW x \in Supplies, NEW i \in Sides, NEW budget \in Nat, NEW cap \in Nat
    PROVE  LET size == SizeWithinImpact(x, i, budget, cap)
           IN /\ size \in 0..budget
              /\ ImpactOf(x, i, size) <= Probability(x, i) + (WAD * cap) \div BPS
<1> DEFINE ceiling == Probability(x, i) + (WAD * cap) \div BPS
           Fit == {n \in 0..budget : ImpactOf(x, i, n) <= ceiling}
           Search(f) == f = [w \in (0..budget) \X (0..budget) |->
                               LET mid == (w[1] + w[2]) \div 2
                               IN IF w[2] - w[1] <= 1 THEN w[1]
                                  ELSE IF ImpactOf(x, i, mid) <= ceiling THEN f[<<mid, w[2]>>]
                                  ELSE f[<<w[1], mid>>]]
           found == CHOOSE f : Search(f)
<1>1. SizeWithinImpact(x, i, budget, cap)
        = IF ImpactOf(x, i, budget) <= ceiling THEN budget ELSE found[<<0, budget>>]
  BY Zenon DEF SizeWithinImpact
<1>2. \A f : Searches(f, budget, Fit) <=> Search(f)
  <2> TAKE f
  <2>1. ASSUME NEW w \in (0..budget) \X (0..budget), w[2] - w[1] > 1
        PROVE  (w[1] + w[2]) \div 2 \in Fit
                 <=> ImpactOf(x, i, (w[1] + w[2]) \div 2) <= ceiling
    <3>1. (w[1] + w[2]) \div 2 \in 0..budget
      BY <2>1
    <3> HIDE DEF ceiling
    <3> QED
      BY <3>1
  <2> DEFINE fitting(w) == LET mid == (w[1] + w[2]) \div 2
                           IN IF w[2] - w[1] <= 1 THEN w[1]
                              ELSE IF mid \in Fit THEN f[<<mid, w[2]>>]
                              ELSE f[<<w[1], mid>>]
             plain(w)   == LET mid == (w[1] + w[2]) \div 2
                           IN IF w[2] - w[1] <= 1 THEN w[1]
                              ELSE IF ImpactOf(x, i, mid) <= ceiling THEN f[<<mid, w[2]>>]
                              ELSE f[<<w[1], mid>>]
  <2>2. ASSUME NEW w \in (0..budget) \X (0..budget)
        PROVE  fitting(w) = plain(w)
    <3> HIDE DEF Fit, ceiling
    <3>1. w[1] \in Int /\ w[2] \in Int
      OBVIOUS
    <3> QED
      BY <2>1, <3>1
  <2> HIDE DEF fitting, plain
  <2>3. [w \in (0..budget) \X (0..budget) |-> fitting(w)]
          = [w \in (0..budget) \X (0..budget) |-> plain(w)]
    BY <2>2
  <2> QED
    BY <2>3, Zenon DEF fitting, plain, Searches
<1>3. \E f : Searches(f, budget, Fit)
  BY SearchEnds
<1>4. Searches(found, budget, Fit)
  <2> HIDE DEF Search
  <2> QED
    BY <1>2, <1>3
<1> HIDE DEF found
<1>5. 0 \in Fit
  <2>1. ImpactOf(x, i, 0) = Probability(x, i)
    BY DEF ImpactOf
  <2>2. Probability(x, i) \in Int /\ (WAD * cap) \div BPS \in Nat
    <3>1. BPS \in Nat \ {0} /\ WAD * cap \in Nat
      BY PoolAssumption, MulMono DEF BPS
    <3> QED
      BY <3>1, DivIsNat, ProbabilityIs
  <2> QED
    BY <2>1, <2>2
<1>6. found[<<0, budget>>] \in Fit \cap (0..budget)
  <2> HIDE DEF Fit
  <2>1. 0 \in 0..budget /\ budget \in 0..budget /\ 0 <= budget
    OBVIOUS
  <2> QED
    BY <1>4, <1>5, <2>1, SearchFits
<1> HIDE DEF ceiling
<1>7. budget \in 0..budget
  OBVIOUS
<1> QED
  BY <1>1, <1>6, <1>7 DEF ceiling

(* What is bought for a budget, its fee taken off, leaves the market where *)
(* the impact of the whole budget was found to be within a bound.          *)
LEMMA OrderStaysWithin ==
    ASSUME NEW x \in Supplies, NEW i \in Sides, NEW budget \in Nat, NEW bound \in 0..WAD,
           NEW spend \in 0..budget, ImpactOf(x, i, budget) <= bound,
           SharesForSpend(x, i, ToWad(spend)) # 0
    PROVE  Probability(QAfterBuy(x, i, SharesForSpend(x, i, ToWad(spend))), i) <= bound
<1> DEFINE n == SharesForSpend(x, i, ToWad(spend))
           m == SharesForSpend(x, i, ToWad(budget))
<1>1. ToWad(spend) \in Nat /\ ToWad(budget) \in Nat /\ ToWad(spend) <= ToWad(budget)
  <2>1. Scale \in Nat
    BY PoolAssumption
  <2> QED
    BY <2>1, MulMono DEF ToWad
<1>2. n \in Nat /\ m \in Nat
  BY <1>1, SpendIs
<1>3. budget > 0
  <2>1. ASSUME budget = 0
        PROVE  n = 0
    <3>1. ToWad(spend) = 0
      BY <2>1, PoolAssumption DEF ToWad
    <3> QED
      BY <3>1 DEF SharesForSpend
  <2> QED
    BY <2>1
<1>4. CASE m = 0
  <2>1. ImpactOf(x, i, budget) = WAD
    BY <1>3, <1>4 DEF ImpactOf
  <2>2. QAfterBuy(x, i, n) \in Supplies
    BY <1>2, ProbabilityGrows
  <2>3. Probability(QAfterBuy(x, i, n), i) \in 0..WAD
    BY <2>2, ProbabilityIs
  <2>4. WAD \in Nat
    BY PoolAssumption
  <2> QED
    BY <2>1, <2>3, <2>4
<1>5. CASE m # 0
  <2>1. ImpactOf(x, i, budget) = Probability(QAfterBuy(x, i, m), i)
    BY <1>3, <1>5 DEF ImpactOf
  <2>2. n <= m
    BY <1>1, <1>5, SpendGrows
  <2>3. /\ Probability(QAfterBuy(x, i, n), i) <= Probability(QAfterBuy(x, i, m), i)
        /\ QAfterBuy(x, i, n) \in Supplies
    BY <1>2, <2>2, ProbabilityGrows
  <2>4. QAfterBuy(x, i, m) \in Supplies
    BY <1>2, ProbabilityGrows
  <2>5. /\ Probability(QAfterBuy(x, i, n), i) \in 0..WAD
        /\ Probability(QAfterBuy(x, i, m), i) \in 0..WAD
    BY <2>3, <2>4, ProbabilityIs
  <2>6. WAD \in Nat
    BY PoolAssumption
  <2> HIDE DEF n, m
  <2>7. Probability(QAfterBuy(x, i, n), i) <= bound
    BY <2>1, <2>3, <2>5, <2>6
  <2> QED
    BY <2>7 DEF n
<1> QED
  BY <1>4, <1>5

(* A net cost within what `feeFromGross` leaves of a budget is charged, to *)
(* the unit its fee is rounded by, no more than the budget.                *)
LEMMA FeeSplit ==
    ASSUME NEW budget \in Nat
    PROVE  LET net == budget - FeeFromGross(budget)
           IN /\ net \in 0..budget
              /\ \A cost \in Nat : cost <= net => cost + Fee(cost) <= budget + 1
<1> DEFINE f == FeeFromGross(budget)
<1>1. PICK B \in Nat \ {0}, F \in Nat : B = BPS /\ F = FeeBps /\ F <= B
  BY PoolAssumption DEF BPS
<1>2. PICK p \in Nat : p = budget * F /\ p <= budget * (B + F)
  <2>1. F <= B + F /\ B + F \in Nat
    BY <1>1
  <2>2. F * budget <= (B + F) * budget /\ F * budget \in Nat
    BY <2>1, MulMono
  <2>3. F * budget = budget * F /\ (B + F) * budget = budget * (B + F)
    BY <2>1
  <2> QED
    BY <2>2, <2>3
<1>3. B + F \in Nat \ {0}
  BY <1>1
<1>4. f = p \div (B + F)
  BY <1>1, <1>2 DEF FeeFromGross
<1>5. f \in Nat /\ f * (B + F) <= p /\ p < f * (B + F) + (B + F)
  <2>1. PICK D \in Nat \ {0} : D = B + F
    BY <1>3
  <2>2. p \div D \in Nat /\ (p \div D) * D <= p /\ p < (p \div D) * D + D
    BY DivIsNat, DivFits
  <2> QED
    BY <1>4, <2>1, <2>2
<1> HIDE DEF f
<1>6. f <= budget
  <2>1. f * (B + F) <= budget * (B + F)
    <3>1. f * (B + F) \in Nat /\ budget * (B + F) \in Nat
      BY <1>3, <1>5, MulMono
    <3> QED
      BY <1>2, <1>5, <3>1
  <2> QED
    BY <1>3, <1>5, <2>1, MulMono
<1>7. ASSUME NEW cost \in Nat, cost <= budget - f
      PROVE  cost + Fee(cost) <= budget + 1
  <2>1. PICK k \in Nat : k = Fee(cost) /\ k * B <= cost * F
    <3>1. cost * F \in Nat
      BY MulMono
    <3> QED
      BY <1>1, <3>1, DivIsNat, DivFits DEF Fee
  <2>2. cost * F <= (budget - f) * F
    BY <1>5, <1>6, <1>7, MulMono
  <2>3. PICK u \in Nat, v \in Nat : u = f * F /\ v = f * B
    BY <1>5, MulMono
  <2>4. (budget - f) * F = p - u /\ f * (B + F) = v + u
    BY <1>2, <1>5, <2>3
  <2>5. k * B < v + 2 * B
    <3>1. k * B \in Nat /\ cost * F \in Nat
      BY MulMono
    <3> QED
      BY <1>1, <1>5, <2>1, <2>2, <2>4, <3>1
  <2>6. v + 2 * B = (f + 2) * B
    BY <1>5, <2>3
  <2>7. k < f + 2
    BY <1>5, <2>5, <2>6, MulMono
  <2> QED
    BY <1>5, <1>6, <1>7, <2>1, <2>7
<1> QED
  BY <1>5, <1>6, <1>7 DEF f

(* The least of two amounts, and of three.                                 *)
LEMMA LeastOfTwo ==
    ASSUME NEW a \in Int, NEW b \in Int
    PROVE  Min({a, b}) \in {a, b} /\ Min({a, b}) <= a /\ Min({a, b}) <= b
<1>1. \E x \in {a, b} : \A y \in {a, b} : x <= y
  OBVIOUS
<1> QED
  BY <1>1 DEF Min

LEMMA LeastOfThree ==
    ASSUME NEW a \in Int, NEW b \in Int, NEW c \in Int
    PROVE  LET m == Min({a, b, c})
           IN m \in {a, b, c} /\ m <= a /\ m <= b /\ m <= c
<1>1. \E x \in {a, b, c} : \A y \in {a, b, c} : x <= y
  OBVIOUS
<1> QED
  BY <1>1 DEF Min

(* What the agent stakes is an amount, and the move it allows itself ends  *)
(* where its belief is.                                                    *)
LEMMA StakeIs ==
    ASSUME NEW x \in Supplies, NEW i \in Sides, NEW belief \in 0..WAD, NEW money \in Nat,
           Edge(x, i, belief) > 0
    PROVE  /\ BeliefOn(belief, i) \in 0..WAD
           /\ KellyTokens(x, i, belief, money) \in Nat
           /\ ImpactCap(x, i, belief) \in Nat
           /\ Probability(x, i) + (WAD * ImpactCap(x, i, belief)) \div BPS
                <= BeliefOn(belief, i)
<1>1. PICK w \in Nat \ {0} : w = WAD
  BY PoolAssumption
<1>2. PICK p \in Nat : p = Probability(x, i) /\ p <= w
  BY <1>1, ProbabilityIs
<1>3. PICK c \in Nat : c = BeliefOn(belief, i) /\ c <= w
  BY <1>1 DEF BeliefOn
<1>4. PICK e \in Nat \ {0} : e = Edge(x, i, belief) /\ e = c - p /\ w - p \in Nat \ {0}
  BY <1>2, <1>3 DEF Edge
<1>5. KellyTokens(x, i, belief, money) \in Nat
  <2>1. MulDiv(e, w, w - p) \in Nat
    BY <1>1, <1>4, MulMono, DivIsNat DEF MulDiv
  <2>2. BankrollCap \in Nat
    BY <1>1, ClientAssumption
  <2>3. PICK m \in Nat : m = Min({MulDiv(e, w, w - p), BankrollCap})
    <3>1. PICK k \in Nat : k = MulDiv(e, w, w - p)
      BY <2>1
    <3>2. Min({k, BankrollCap}) \in {k, BankrollCap}
      BY <2>2, LeastOfTwo
    <3> QED
      BY <2>2, <3>1, <3>2
  <2>4. KellyTokens(x, i, belief, money) = (money * m) \div w
    BY <1>1, <1>2, <1>4, <2>3 DEF KellyTokens
  <2> QED
    BY <2>4, MulMono, DivIsNat
<1>6. /\ ImpactCap(x, i, belief) \in Nat
      /\ p + (w * ImpactCap(x, i, belief)) \div BPS <= c
  <2>1. PICK B \in Nat \ {0} : B = BPS
    BY DEF BPS
  <2>2. PICK r \in Nat : r = (e * B) \div w /\ r * w <= e * B
    BY <2>1, MulMono, DivIsNat, DivFits
  <2>3. MaxImpactBps \in Nat
    BY <2>1, ClientAssumption
  <2>4. PICK m \in Nat : m = ImpactCap(x, i, belief) /\ m <= r
    <3>1. Min({r, MaxImpactBps}) \in {r, MaxImpactBps} /\ Min({r, MaxImpactBps}) <= r
      <4>1. PICK k \in Int : k = MaxImpactBps
        BY <2>3
      <4>2. Min({r, k}) \in {r, k} /\ Min({r, k}) <= r
        BY LeastOfTwo
      <4> QED
        BY <4>1, <4>2
    <3>2. ImpactCap(x, i, belief) = Min({r, MaxImpactBps})
      BY <1>1, <1>4, <2>1, <2>2 DEF ImpactCap
    <3> QED
      BY <2>3, <3>1, <3>2
  <2>5. w * m <= e * B /\ w * m \in Nat
    <3>1. m * w <= r * w /\ m * w = w * m /\ m * w \in Nat /\ r * w \in Nat /\ e * B \in Nat
      BY <2>4, MulMono
    <3> QED
      BY <2>2, <3>1
  <2>6. PICK d \in Nat : d = (w * m) \div B /\ d * B <= w * m
    BY <2>5, DivIsNat, DivFits
  <2>7. d * B <= e * B
    <3>1. d * B \in Nat /\ e * B \in Nat
      BY MulMono
    <3> QED
      BY <2>5, <2>6, <3>1
  <2>8. d <= e
    BY <2>7, MulMono
  <2> QED
    BY <1>4, <2>1, <2>4, <2>6, <2>8
<1> QED
  BY <1>1, <1>2, <1>3, <1>5, <1>6

(* Quotes are amounts, and so are the bounds put on them.                  *)
LEMMA QuotesAre ==
    ASSUME PoolInv, NEW i \in Sides, NEW n \in Nat
    PROVE  /\ QuoteBuy(i, n) \in Int
           /\ MaxTokensIn(QuoteBuy(i, n)) \in Int
           /\ n <= q[i] => /\ QuoteSell(i, n) \in Int
                           /\ MinTokensOut(QuoteSell(i, n)) \in Int
<1>1. /\ q \in [Sides -> Nat] /\ poolWad \in Nat
      /\ Scale \in Nat \ {0} /\ BPS \in Nat \ {0} /\ FeeBps \in Int /\ SlippageBps \in Int
  <2>1. q \in [Sides -> Nat] /\ poolWad \in Nat
    BY DEF PoolInv, PoolTypeOK
  <2>2. BPS \in Nat \ {0}
    BY DEF BPS
  <2>3. Scale \in Nat \ {0} /\ FeeBps \in Int
    BY <2>2, PoolAssumption
  <2>4. SlippageBps \in Int
    BY <2>2, ClientAssumption
  <2> QED
    BY <2>1, <2>2, <2>3, <2>4
<1>2. \A a \in Int, b \in Int : a * b \in Int /\ (a * b) \div BPS \in Int
  <2>1. \A a \in Int, b \in Int : a * b \in Int
    OBVIOUS
  <2> QED
    BY <1>1, <2>1, DivFits
<1>3. \A a \in Int : Fee(a) \in Int /\ MaxTokensIn(a) \in Int /\ MinTokensOut(a) \in Int
  BY <1>1, <1>2 DEF Fee, MaxTokensIn, MinTokensOut
<1>4. NetCost(i, n) \in Int
  <2>1. QAfterBuy(q, i, n) \in [Sides -> Nat]
    BY <1>1 DEF QAfterBuy
  <2>2. CostUp(QAfterBuy(q, i, n)) - poolWad \in Int
    BY <1>1, <2>1, CostUpIs
  <2> QED
    BY <1>1, <2>2, CeilSuffices DEF NetCost
<1>5. ASSUME n <= q[i]
      PROVE  Gross(i, n) \in Int
  <2>1. PICK x \in [Sides -> Nat] : x = [q EXCEPT ![i] = q[i] - n]
    <3>1. q \in [Sides -> Nat] /\ q[i] - n \in Nat
      BY <1>1, <1>5
    <3> QED
      BY <3>1
  <2>2. poolWad - CostUp(x) \in Int
    BY <1>1, CostUpIs
  <2> QED
    BY <1>1, <2>1, <2>2, DivFits DEF Gross
<1>6. QuoteBuy(i, n) \in Int
  BY <1>3, <1>4 DEF QuoteBuy
<1>7. n <= q[i] => QuoteSell(i, n) \in Int
  BY <1>3, <1>5 DEF QuoteSell
<1> QED
  BY <1>3, <1>6, <1>7

-----------------------------------------------------------------------------
(* The inductive invariant.                                                *)

Roles == {"none", "Trader", "Resolver"}

Verbs == {"none", "approve", "register", "rename", "buy", "sell", "redeem", "liquidate"}

Scripts == {"none", "trade", "redeem", "register"}

Places ==
    {"ended", "view", "believe", "size", "invert", "preview", "allow", "gate", "send",
     "receipt", "after", "quote"}

Transactions ==
    [run: Nat, verb: Verbs, role: Roles, side: Sides, shares: Nat, bound: Int,
     seen: SUBSET Supplies, belief: 0..WAD, budget: Nat]

Runs ==
    [n: Nat, script: Scripts, pc: Places, verb: Verbs, seen: SUBSET Supplies,
     role: Roles, side: Sides, belief: 0..WAD, budget: Nat, cap: Nat, shares: Nat,
     bound: Int, before: Int, gated: SUBSET BOOLEAN, alone: BOOLEAN, moved: Int,
     said: SUBSET Int]

AgentTypeOK ==
    /\ required \in BOOLEAN
    /\ identity \in Roles
    /\ free \in Nat
    /\ allowance \in Int
    /\ sent \in Seq(Transactions)
    /\ run \in Runs
    /\ others \in Nat

(* What is pending was sent by an earlier script, or is the one thing the  *)
(* present script waits for, behind all the rest.                          *)
InNonceOrder ==
    \A i \in 1..Len(sent) :
        /\ sent[i].run <= run.n
        /\ sent[i].run = run.n /\ run.pc # "ended" => run.pc = "receipt" /\ i = Len(sent)

Newest == sent[Len(sent)]

Awaits ==
    run.pc = "receipt" => /\ sent # <<>>
                          /\ Newest.run = run.n
                          /\ Newest.verb \in {"approve", run.verb}

(* Nothing but the order of a script that found itself alone moves its     *)
(* balance from the reading before the order to the one after, unless the  *)
(* market is the agent's own and pays it the creator's share.              *)
Undisturbed ==
    run.alone /\ Agent # Creator =>
        /\ run.said \subseteq {run.moved}
        /\ run.pc = "send" /\ run.verb \notin Naming => sent = <<>> /\ run.before = free
        /\ run.pc = "receipt" /\ Newest.verb \notin Naming \union {"approve"} =>
             Len(sent) = 1 /\ run.before = free
        /\ run.pc = "after" /\ run.verb \notin Naming =>
             sent = <<>> /\ free - run.before = run.moved

(* An order every one of whose readings saw the same market is the one its *)
(* budget buys there, and the budget's move stays within the belief.       *)
Sized(t) ==
    \A s \in t.seen : t.seen = {s} =>
        /\ t.shares = SharesForSpend(s, t.side, ToWad(t.budget - FeeFromGross(t.budget)))
        /\ ImpactOf(s, t.side, t.budget) <= t.belief

Sizing == {"size", "invert", "preview"}

RunIsPriced ==
    /\ run.pc \in Sizing \union {"view", "believe"} => run.verb = "none"
    /\ run.pc \in Sizing \/ run.verb = "buy" => run.seen # {}
    /\ \A s \in run.seen : run.seen = {s} =>
          /\ run.pc = "size" =>
               Probability(s, run.side) + (WAD * run.cap) \div BPS <= run.belief
          /\ run.pc = "invert" => ImpactOf(s, run.side, run.budget) <= run.belief
    /\ run.pc = "preview" \/ run.verb = "buy" => Sized(run)

SentIsPriced == \A i \in 1..Len(sent) : sent[i].verb = "buy" => Sized(sent[i])

AgentInv ==
    /\ PoolInv
    /\ AgentTypeOK
    /\ InNonceOrder
    /\ Awaits
    /\ Undisturbed
    /\ RunIsPriced
    /\ SentIsPriced

-----------------------------------------------------------------------------
(* What a transaction does.                                                *)

(* An executed purchase pays its quote, to the wei the market would ask.   *)
LEMMA BuyPays ==
    ASSUME PoolInv, NEW i \in Sides, NEW n \in Nat \ {0}, Buy(Agent, i, n)
    PROVE  held' - held = QuoteBuy(i, n)
<1>1. QAfterBuy(q, i, n) = [q EXCEPT ![i] = q[i] + n]
  BY DEF QAfterBuy
<1>2. held' = held + NetCost(i, n) + Fee(NetCost(i, n))
  BY <1>1 DEF Buy, NetCost
<1>3. held \in Int
  BY DEF PoolInv, PoolTypeOK
<1>4. NetCost(i, n) \in Int /\ Fee(NetCost(i, n)) \in Int
  <2>1. QAfterBuy(q, i, n) \in [Sides -> Nat] /\ poolWad \in Nat /\ Scale \in Nat \ {0}
    BY PoolAssumption DEF QAfterBuy, PoolInv, PoolTypeOK
  <2>2. CostUp(QAfterBuy(q, i, n)) - poolWad \in Int
    BY <2>1, CostUpIs
  <2>3. NetCost(i, n) \in Int
    BY <2>1, <2>2, CeilSuffices DEF NetCost
  <2> QED
    BY <2>3, DivFits, PoolAssumption DEF Fee, BPS
<1> QED
  BY <1>2, <1>3, <1>4 DEF QuoteBuy

(* Whatever a taken transaction does, the market's books balance and the   *)
(* agent has what it pays.                                                 *)
LEMMA TakenMoves ==
    ASSUME PoolInv, AgentTypeOK, NEW t \in Transactions, Taken(t), Executes(t)
    PROVE  /\ PoolInv' /\ held \in Int /\ held' \in Int
           /\ free - (held' - held) \in Nat
<1>1. /\ Agent \in Holders /\ free \in Nat /\ allowance \in Int
      /\ t.side \in Sides /\ t.shares \in Nat /\ t.bound \in Int
      /\ held \in Int /\ poolWad \in Nat
  BY AgentAssumption DEF AgentTypeOK, Transactions, PoolInv, PoolTypeOK
<1>2. PoolInv' => held' \in Int
  BY DEF PoolInv, PoolTypeOK
<1> SUFFICES PoolInv' /\ held' - held <= free
  BY <1>1, <1>2
<1>3. CASE t.verb \in Naming \union {"approve"} /\ UNCHANGED poolVars
  <2>1. PoolInv'
    BY <1>3, WaitingKeeps DEF poolVars, PoolInv, PoolTypeOK
  <2> QED
    BY <1>1, <1>3, <2>1 DEF poolVars
<1>4. CASE t.verb = "buy" /\ Buy(Agent, t.side, t.shares)
  <2>1. BuyTaken(t)
    BY <1>4 DEF Taken
  <2>2. t.shares \in Nat \ {0}
    BY <1>1, <2>1 DEF BuyTaken
  <2>3. QuoteBuy(t.side, t.shares) <= free /\ QuoteBuy(t.side, t.shares) \in Int
    <3>1. QuoteBuy(t.side, t.shares) \in Int
      BY <1>1, QuotesAre
    <3>2. Min({t.bound, allowance, free}) \in Int /\ Min({t.bound, allowance, free}) <= free
      <4>1. PICK b \in Int, a \in Int, f \in Int : b = t.bound /\ a = allowance /\ f = free
        BY <1>1
      <4>2. Min({b, a, f}) \in {b, a, f} /\ Min({b, a, f}) <= f
        BY LeastOfThree
      <4> QED
        BY <4>1, <4>2
    <3>3. QuoteBuy(t.side, t.shares) <= Min({t.bound, allowance, free})
      BY <2>1 DEF BuyTaken
    <3> QED
      BY <1>1, <3>1, <3>2, <3>3
  <2> QED
    BY <1>1, <1>4, <2>2, <2>3, BuyKeeps, BuyPays
<1>5. CASE t.verb = "sell" /\ Sell(Agent, t.side, t.shares)
  <2> DEFINE gross == (poolWad - CostUp([q EXCEPT ![t.side] = q[t.side] - t.shares])) \div Scale
  <2>1. SellTaken(t)
    BY <1>5 DEF Taken
  <2>2. t.shares \in Nat \ {0}
    <3>1. q[t.side] - seedSupply[t.side] \in Int /\ shares[Agent][t.side] \in Int
      BY <1>1 DEF PoolInv, PoolTypeOK
    <3>2. Min({q[t.side] - seedSupply[t.side], shares[Agent][t.side]}) \in Int
      BY <3>1, LeastOfTwo
    <3> QED
      BY <1>1, <2>1, <3>2 DEF SellTaken
  <2>3. gross >= MinTradeTokens /\ held' = held - (gross - Fee(gross)) /\ t.shares <= q[t.side]
    BY <1>5 DEF Sell
  <2>4. gross \in Int
    <3>1. PICK x \in [Sides -> Nat] : x = [q EXCEPT ![t.side] = q[t.side] - t.shares]
      <4>1. q \in [Sides -> Nat] /\ q[t.side] - t.shares \in Nat
        BY <1>1, <2>3 DEF PoolInv, PoolTypeOK
      <4> QED
        BY <1>1, <4>1
    <3>2. poolWad - CostUp(x) \in Int
      BY <1>1, CostUpIs
    <3> QED
      BY <3>1, <3>2, DivFits, PoolAssumption
  <2> HIDE DEF gross
  <2>5. gross \in Nat
    BY <2>3, <2>4, PoolAssumption
  <2>6. Fee(gross) \in Nat /\ Fee(gross) <= gross
    <3>1. PICK B \in Nat \ {0}, F \in Nat : B = BPS /\ F = FeeBps /\ F <= B
      BY PoolAssumption DEF BPS
    <3>2. PICK f \in Nat : f = Fee(gross) /\ f * B <= gross * F
      BY <2>5, <3>1, MulMono, DivIsNat, DivFits DEF Fee
    <3>3. gross * F <= gross * B
      <4>1. F * gross <= B * gross /\ F * gross = gross * F /\ B * gross = gross * B
        BY <2>5, <3>1, MulMono
      <4> QED
        BY <4>1
    <3>4. f * B <= gross * B
      BY <2>5, <3>1, <3>2, <3>3, MulMono
    <3> QED
      BY <2>5, <3>1, <3>2, <3>4, MulMono
  <2> QED
    BY <1>1, <1>5, <2>2, <2>3, <2>5, <2>6, SellKeeps
<1>6. CASE t.verb = "redeem" /\ Redeem(Agent)
  <2>1. Payout(Agent) \in Nat
    <3>1. PICK w \in Sides : w = winningOutcome[Market]
      BY PoolAssumption DEF PoolInv, PoolTypeOK, MarketTypeOK, Sides
    <3>2. Claimable(Agent, w) \in Nat /\ payoutPerShare \in Nat /\ WAD \in Nat \ {0}
      BY <1>1, PoolAssumption DEF Claimable, PoolInv, PoolTypeOK
    <3> QED
      BY <3>1, <3>2, MulMono, DivIsNat DEF Payout, MulDiv
  <2>2. Payout(Agent) \div Scale \in Nat
    BY <2>1, DivIsNat, PoolAssumption
  <2>3. held' = held - Payout(Agent) \div Scale
    BY <1>6 DEF Redeem
  <2> QED
    BY <1>1, <1>6, <2>2, <2>3, RedeemKeeps
<1>7. CASE t.verb = "liquidate" /\ Liquidate(Agent)
  <2>1. Trimmed(Agent) \in Nat
    <3>1. /\ \A i \in Sides : Claimable(Agent, i) \in Nat /\ liqPerShare[i] \in Nat
          /\ WAD \in Nat \ {0} /\ 0 \in Sides /\ 1 \in Sides
      BY <1>1, PoolAssumption DEF Claimable, PoolInv, PoolTypeOK, Sides, NO, YES
    <3>2. \A i \in Sides : MulDiv(Claimable(Agent, i), liqPerShare[i], WAD) \in Nat
      BY <3>1, MulMono, DivIsNat DEF MulDiv
    <3>3. Liquidation(Agent) \in Nat
      BY <3>1, <3>2 DEF Liquidation
    <3> QED
      BY <1>1, <3>3 DEF Trimmed
  <2>2. Trimmed(Agent) \div Scale \in Nat
    BY <2>1, DivIsNat, PoolAssumption
  <2>3. held' = held - Trimmed(Agent) \div Scale
    BY <1>7 DEF Liquidate
  <2> QED
    BY <1>1, <1>7, <2>2, <2>3, LiquidateKeeps
<1> QED
  BY <1>3, <1>4, <1>5, <1>6, <1>7 DEF Executes

-----------------------------------------------------------------------------
(* The steps of a script.                                                  *)

(* The market as it is read is a supply of a seeded one.                   *)
LEMMA ReadingIsSupply == PoolInv => q \in Supplies
BY DEF PoolInv, PoolTypeOK, Floored, Supplies, Sides, NO, YES

(* A step that only reads, up to the reading before an order.              *)
LEMMA ScriptReads ==
    ASSUME AgentInv, Reading, run' \in Runs, run'.n = run.n,
           run.pc \notin {"ended", "receipt"}, run'.pc # "receipt",
           Undisturbed', RunIsPriced'
    PROVE  AgentInv'
<1>1. UNCHANGED poolVars /\ UNCHANGED <<required, identity, free, allowance, sent, others>>
  BY DEF Reading, walletVars
<1>2. PoolInv'
  BY <1>1, WaitingKeeps DEF poolVars, AgentInv, PoolInv, PoolTypeOK
<1>3. AgentTypeOK'
  BY <1>1 DEF AgentInv, AgentTypeOK
<1>4. InNonceOrder'
  BY <1>1 DEF AgentInv, InNonceOrder
<1>5. Awaits' /\ SentIsPriced'
  BY <1>1 DEF AgentInv, Awaits, SentIsPriced, Sized
<1> QED
  BY <1>2, <1>3, <1>4, <1>5 DEF AgentInv

LEMMA ScriptDecides ==
    ASSUME AgentInv, Reading, run' \in Runs, run'.n = run.n,
           run.pc \notin {"ended", "receipt"}, run'.pc \notin {"receipt", "send", "after"},
           run'.alone = run.alone, run'.moved = run.moved, run'.said = run.said,
           RunIsPriced'
    PROVE  AgentInv'
<1>1. Undisturbed'
  BY DEF AgentInv, Undisturbed
<1> QED
  BY <1>1, ScriptReads

(* A script that is over leaves what it reported and what it sent.         *)
LEMMA NoRunIs == NoRun \in Runs
<1>1. 0 \in 0..WAD
  BY PoolAssumption
<1>2. {} \in SUBSET Supplies /\ {} \in SUBSET BOOLEAN /\ {} \in SUBSET Int
  OBVIOUS
<1>3. "none" \in Verbs /\ "none" \in Scripts /\ "ended" \in Places
  BY DEF Verbs, Scripts, Places
<1>4. "none" \in Roles /\ NO \in Sides /\ 0 \in Nat /\ 0 \in Int
  BY DEF Roles, Sides, NO
<1> QED
  BY <1>1, <1>2, <1>3, <1>4 DEF NoRun, Runs

LEMMA StoppedIs ==
    ASSUME run \in Runs, End
    PROVE  /\ run' \in Runs /\ run'.n = run.n /\ run'.pc = "ended" /\ run'.verb = "none"
           /\ run'.alone = run.alone /\ run'.moved = run.moved /\ run'.said = run.said
<1>1. NoRun.pc = "ended" /\ NoRun.verb = "none"
  BY DEF NoRun
<1>2. NoRun \in Runs
  BY NoRunIs
<1> QED
  BY <1>1, <1>2 DEF End, Runs

LEMMA ScriptStops ==
    ASSUME AgentInv, End, PoolInv', AgentTypeOK',
           \A i \in 1..Len(sent') : \E j \in 1..Len(sent) : sent'[i] = sent[j]
    PROVE  AgentInv'
<1>1. /\ run'.n = run.n /\ run'.pc = "ended" /\ run'.verb = "none"
      /\ run'.alone = run.alone /\ run'.moved = run.moved /\ run'.said = run.said
  BY StoppedIs DEF AgentInv, AgentTypeOK
<1>2. InNonceOrder'
  BY <1>1 DEF AgentInv, InNonceOrder
<1>3. Awaits' /\ Undisturbed' /\ RunIsPriced'
  BY <1>1 DEF AgentInv, Awaits, Undisturbed, RunIsPriced, Sizing
<1>4. SentIsPriced'
  <2> SUFFICES ASSUME NEW i \in 1..Len(sent'), sent'[i].verb = "buy"
               PROVE  Sized(sent'[i])
    BY DEF SentIsPriced, Sized
  <2>1. PICK j \in 1..Len(sent) : sent'[i] = sent[j]
    OBVIOUS
  <2> QED
    BY <2>1 DEF AgentInv, SentIsPriced
<1> QED
  BY <1>2, <1>3, <1>4 DEF AgentInv

LEMMA ScriptLeaves ==
    ASSUME AgentInv, End, UNCHANGED <<poolVars, required, identity, walletVars, sent, others>>
    PROVE  AgentInv'
<1>1. PoolInv'
  BY WaitingKeeps DEF poolVars, AgentInv, PoolInv, PoolTypeOK
<1>2. AgentTypeOK'
  BY StoppedIs DEF AgentInv, AgentTypeOK, walletVars
<1>3. \A i \in 1..Len(sent') : \E j \in 1..Len(sent) : sent'[i] = sent[j]
  OBVIOUS
<1> QED
  BY <1>1, <1>2, <1>3, ScriptStops

LEMMA StartsKeeps ==
    ASSUME AgentInv, NEW script \in {"trade", "redeem", "register"}, Starts(script)
    PROVE  AgentInv'
<1>1. /\ run.pc = "ended" /\ run.n \in Nat
      /\ run' = [NoRun EXCEPT !.n = run.n + 1, !.script = script, !.pc = "view"]
      /\ UNCHANGED poolVars /\ UNCHANGED <<required, identity, free, allowance, sent, others>>
  BY DEF Starts, AgentInv, AgentTypeOK, Runs, walletVars
<1>2. /\ run' \in Runs /\ run'.n = run.n + 1 /\ run'.pc = "view" /\ run'.verb = "none"
      /\ run'.said = {}
  <2>1. script \in Scripts /\ "view" \in Places /\ run.n + 1 \in Nat
    BY <1>1 DEF Scripts, Places
  <2>2. NoRun \in Runs
    BY NoRunIs
  <2>3. NoRun.verb = "none" /\ NoRun.said = {}
    BY DEF NoRun
  <2> QED
    BY <1>1, <2>1, <2>2, <2>3 DEF Runs
<1>3. PoolInv'
  BY <1>1, WaitingKeeps DEF poolVars, AgentInv, PoolInv, PoolTypeOK
<1>4. AgentTypeOK'
  BY <1>1, <1>2 DEF AgentInv, AgentTypeOK
<1>5. InNonceOrder'
  <2> SUFFICES ASSUME NEW i \in 1..Len(sent)
               PROVE  sent[i].run <= run'.n /\ sent[i].run # run'.n
    BY <1>1 DEF InNonceOrder
  <2>1. sent[i].run \in Nat /\ sent[i].run <= run.n
    <3>1. sent \in Seq(Transactions)
      BY DEF AgentInv, AgentTypeOK
    <3>2. sent[i] \in Transactions
      BY <3>1
    <3>3. sent[i].run <= run.n
      BY DEF AgentInv, InNonceOrder
    <3> QED
      BY <3>2, <3>3 DEF Transactions
  <2> QED
    BY <1>1, <1>2, <2>1
<1>6. Awaits' /\ Undisturbed' /\ RunIsPriced'
  BY <1>2 DEF Awaits, Undisturbed, RunIsPriced, Sizing
<1>7. SentIsPriced'
  BY <1>1 DEF AgentInv, SentIsPriced, Sized
<1> QED
  BY <1>3, <1>4, <1>5, <1>6, <1>7 DEF AgentInv

LEMMA ListsMarketKeeps ==
    ASSUME AgentInv, ListsMarket
    PROVE  AgentInv'
<1>1. /\ run \in Runs /\ run.pc = "view" /\ run.verb = "none" /\ Reading
      /\ q \in Supplies
  BY ReadingIsSupply
  DEF ListsMarket, At, AgentInv, AgentTypeOK, RunIsPriced, Sizing
<1>2. CASE End
  BY <1>1, <1>2, ScriptLeaves DEF Reading
<1>3. CASE run' = [run EXCEPT !.pc = "believe", !.seen = {q}]
  <2>1. "believe" \in Places /\ {q} \in SUBSET Supplies
    BY <1>1 DEF Places
  <2>2. /\ run' \in Runs /\ run'.n = run.n /\ run'.pc = "believe" /\ run'.verb = "none"
        /\ run'.alone = run.alone /\ run'.moved = run.moved /\ run'.said = run.said
    BY <1>1, <1>3, <2>1 DEF Runs
  <2>3. RunIsPriced'
    BY <2>2 DEF RunIsPriced, Sizing
  <2> QED
    BY <1>1, <2>2, <2>3, ScriptDecides
<1> QED
  BY <1>2, <1>3 DEF ListsMarket

LEMMA BelievesKeeps ==
    ASSUME AgentInv, Believes
    PROVE  AgentInv'
<1>1. /\ run \in Runs /\ run.pc = "believe" /\ run.verb = "none" /\ Reading
      /\ free \in Nat
  BY DEF Believes, At, AgentInv, AgentTypeOK, RunIsPriced, Sizing
<1>2. CASE End
  BY <1>1, <1>2, ScriptLeaves DEF Reading
<1>3. CASE ~End
  <2>1. PICK belief \in Beliefs, attested \in BOOLEAN, listed \in run.seen :
          LET side == CheapSide(listed, belief)
          IN IF ~attested \/ Edge(listed, side, belief) <= 0
             THEN End
             ELSE run' = [run EXCEPT !.pc = "size", !.side = side,
                                     !.belief = BeliefOn(belief, side),
                                     !.budget = KellyTokens(listed, side, belief, free),
                                     !.cap = ImpactCap(listed, side, belief)]
    BY Zenon DEF Believes
  <2>2. PICK side \in Sides : side = CheapSide(listed, belief)
    BY DEF CheapSide, Sides
  <2>3. /\ ~(Edge(listed, side, belief) <= 0)
        /\ run' = [run EXCEPT !.pc = "size", !.side = side,
                              !.belief = BeliefOn(belief, side),
                              !.budget = KellyTokens(listed, side, belief, free),
                              !.cap = ImpactCap(listed, side, belief)]
    BY <1>3, <2>1, <2>2
  <2>4. belief \in 0..WAD /\ listed \in Supplies
    BY <1>1, AgentAssumption DEF Runs
  <2>5. PICK budget \in Nat, cap \in Nat, own \in 0..WAD :
          /\ budget = KellyTokens(listed, side, belief, free)
          /\ cap = ImpactCap(listed, side, belief)
          /\ own = BeliefOn(belief, side)
          /\ Probability(listed, side) + (WAD * cap) \div BPS <= own
    <3>1. Edge(listed, side, belief) > 0
      <4>1. Edge(listed, side, belief) \in Int
        BY <2>4, ProbabilityIs, PoolAssumption DEF Edge, BeliefOn
      <4> QED
        BY <2>3, <4>1
    <3> QED
      BY <1>1, <2>4, <3>1, StakeIs
  <2>6. "size" \in Places
    BY DEF Places
  <2>7. /\ run' \in Runs /\ run'.n = run.n /\ run'.pc = "size" /\ run'.verb = "none"
        /\ run'.alone = run.alone /\ run'.moved = run.moved /\ run'.said = run.said
        /\ run'.seen = run.seen /\ run'.side = side /\ run'.cap = cap /\ run'.belief = own
    BY <1>1, <2>3, <2>5, <2>6 DEF Runs
  <2>8. \A s \in run'.seen : run'.seen = {s} => s = listed
    BY <2>7
  <2>9. RunIsPriced'
    BY <2>1, <2>5, <2>7, <2>8 DEF RunIsPriced, Sizing
  <2> QED
    BY <1>1, <2>7, <2>9, ScriptDecides
<1> QED
  BY <1>2, <1>3

(* A reading added to the others leaves them alike only if all of them     *)
(* were of the market as it is.                                            *)
LEMMA SameReading ==
    ASSUME AgentInv, run.seen # {}, run'.seen = run.seen \union {q},
           NEW s \in run'.seen, run'.seen = {s}
    PROVE  s = q /\ run.seen = {q} /\ q \in run.seen
OBVIOUS

LEMMA SizesKeeps ==
    ASSUME AgentInv, Sizes
    PROVE  AgentInv'
<1>1. /\ run \in Runs /\ run.pc = "size" /\ run.verb = "none" /\ Reading
      /\ q \in Supplies /\ run.seen # {}
      /\ run' = [run EXCEPT !.pc = "invert", !.seen = run.seen \union {q},
                   !.budget = SizeWithinImpact(q, run.side, run.budget, run.cap)]
  BY ReadingIsSupply DEF Sizes, At, AgentInv, AgentTypeOK, RunIsPriced, Sizing
<1>2. PICK size \in Nat : /\ size = SizeWithinImpact(q, run.side, run.budget, run.cap)
                          /\ ImpactOf(q, run.side, size)
                               <= Probability(q, run.side) + (WAD * run.cap) \div BPS
  <2>1. run.side \in Sides /\ run.budget \in Nat /\ run.cap \in Nat
    BY <1>1 DEF Runs
  <2> QED
    BY <1>1, <2>1, SizingIs
<1>3. "invert" \in Places /\ run.seen \union {q} \in SUBSET Supplies
  BY <1>1 DEF Places, Runs
<1>4. /\ run' \in Runs /\ run'.n = run.n /\ run'.pc = "invert" /\ run'.verb = "none"
      /\ run'.alone = run.alone /\ run'.moved = run.moved /\ run'.said = run.said
      /\ run'.seen = run.seen \union {q} /\ run'.side = run.side
      /\ run'.belief = run.belief /\ run'.budget = size
  BY <1>1, <1>2, <1>3 DEF Runs
<1>5. ASSUME NEW s \in run'.seen, run'.seen = {s}
      PROVE  ImpactOf(s, run'.side, run'.budget) <= run'.belief
  <2>1. s = q /\ run.seen = {q} /\ q \in run.seen
    BY <1>1, <1>4, <1>5, SameReading
  <2>2. Probability(q, run.side) + (WAD * run.cap) \div BPS <= run.belief
    BY <1>1, <2>1 DEF AgentInv, RunIsPriced
  <2>3. /\ ImpactOf(q, run.side, size) \in Int /\ run.belief \in Int
        /\ Probability(q, run.side) + (WAD * run.cap) \div BPS \in Int
    <3>1. run.side \in Sides /\ run.belief \in Int /\ WAD * run.cap \in Int
      BY <1>1, PoolAssumption DEF Runs
    <3>2. BPS \in Nat \ {0}
      BY DEF BPS
    <3>3. (WAD * run.cap) \div BPS \in Int
      BY <3>1, <3>2, DivFits
    <3> QED
      BY <1>1, <3>1, <3>3, ImpactIs, ProbabilityIs
  <2> QED
    BY <1>2, <1>4, <2>1, <2>2, <2>3
<1>6. RunIsPriced'
  BY <1>1, <1>4, <1>5 DEF RunIsPriced, Sizing
<1> QED
  BY <1>1, <1>4, <1>6, ScriptDecides

LEMMA InvertsKeeps ==
    ASSUME AgentInv, Inverts
    PROVE  AgentInv'
<1> DEFINE n == QuoteBuySpend(run.side, run.budget)
<1>1. /\ run \in Runs /\ run.pc = "invert" /\ run.verb = "none" /\ Reading
      /\ q \in Supplies /\ run.seen # {} /\ run.side \in Sides /\ run.budget \in Nat
  BY ReadingIsSupply DEF Inverts, At, AgentInv, AgentTypeOK, RunIsPriced, Sizing, Runs
<1>2. CASE End
  BY <1>1, <1>2, ScriptLeaves DEF Reading
<1>3. CASE run' = [run EXCEPT !.pc = "preview", !.seen = run.seen \union {q}, !.shares = n]
  <2>1. n \in Nat /\ n = SharesForSpend(q, run.side, ToWad(run.budget - FeeFromGross(run.budget)))
    <3>1. run.budget - FeeFromGross(run.budget) \in Nat
      BY <1>1, FeeSplit
    <3>2. ToWad(run.budget - FeeFromGross(run.budget)) \in Int
      BY <3>1, PoolAssumption DEF ToWad
    <3> QED
      BY <1>1, <3>2, SpendIs DEF QuoteBuySpend
  <2> HIDE DEF n
  <2>2. "preview" \in Places /\ run.seen \union {q} \in SUBSET Supplies
    BY <1>1 DEF Places, Runs
  <2>3. /\ run' \in Runs /\ run'.n = run.n /\ run'.pc = "preview" /\ run'.verb = "none"
        /\ run'.alone = run.alone /\ run'.moved = run.moved /\ run'.said = run.said
        /\ run'.seen = run.seen \union {q} /\ run'.side = run.side
        /\ run'.belief = run.belief /\ run'.budget = run.budget /\ run'.shares = n
    BY <1>1, <1>3, <2>1, <2>2 DEF Runs
  <2>4. Sized(run')
    <3> SUFFICES ASSUME NEW s \in run'.seen, run'.seen = {s}
                 PROVE  /\ n = SharesForSpend(s, run.side,
                                             ToWad(run.budget - FeeFromGross(run.budget)))
                        /\ ImpactOf(s, run.side, run.budget) <= run.belief
      BY <2>3 DEF Sized
    <3>1. s = q /\ run.seen = {q} /\ q \in run.seen
      BY <1>1, <2>3, SameReading
    <3>2. ImpactOf(q, run.side, run.budget) <= run.belief
      BY <1>1, <3>1 DEF AgentInv, RunIsPriced
    <3> QED
      BY <2>1, <3>1, <3>2
  <2>5. RunIsPriced'
    BY <1>1, <2>3, <2>4 DEF RunIsPriced, Sizing, Sized
  <2> QED
    BY <1>1, <2>3, <2>5, ScriptDecides
<1> QED
  BY <1>2, <1>3 DEF Inverts

LEMMA PreviewsKeeps ==
    ASSUME AgentInv, Previews
    PROVE  AgentInv'
<1>1. /\ run \in Runs /\ run.pc = "preview" /\ Reading
      /\ q \in Supplies /\ run.seen # {} /\ Sized(run)
  BY ReadingIsSupply DEF Previews, At, AgentInv, AgentTypeOK, RunIsPriced, Sizing
<1>2. CASE End
  BY <1>1, <1>2, ScriptLeaves DEF Reading
<1>3. CASE run' = [run EXCEPT !.pc = "allow", !.verb = "buy", !.seen = run.seen \union {q},
                             !.bound = MaxTokensIn(QuoteBuy(run.side, run.shares))]
  <2>1. MaxTokensIn(QuoteBuy(run.side, run.shares)) \in Int
    BY <1>1, QuotesAre DEF AgentInv, Runs
  <2>2. "allow" \in Places /\ "buy" \in Verbs /\ run.seen \union {q} \in SUBSET Supplies
    BY <1>1 DEF Places, Verbs, Runs
  <2>3. /\ run' \in Runs /\ run'.n = run.n /\ run'.pc = "allow" /\ run'.verb = "buy"
        /\ run'.alone = run.alone /\ run'.moved = run.moved /\ run'.said = run.said
        /\ run'.seen = run.seen \union {q} /\ run'.side = run.side
        /\ run'.belief = run.belief /\ run'.budget = run.budget /\ run'.shares = run.shares
    BY <1>1, <1>3, <2>1, <2>2 DEF Runs
  <2>4. Sized(run')
    <3>1. ASSUME NEW s \in run'.seen, run'.seen = {s}
          PROVE  s \in run.seen /\ run.seen = {s}
      BY <1>1, <2>3, <3>1, SameReading
    <3> QED
      BY <1>1, <2>3, <3>1 DEF Sized
  <2>5. RunIsPriced'
    BY <1>1, <2>3, <2>4 DEF RunIsPriced, Sizing, Sized
  <2> QED
    BY <1>1, <2>3, <2>5, ScriptDecides
<1> QED
  BY <1>2, <1>3 DEF Previews

LEMMA QuotesSaleKeeps ==
    ASSUME AgentInv, QuotesSale
    PROVE  AgentInv'
<1>1. run \in Runs /\ run.pc = "quote" /\ Reading
  BY DEF QuotesSale, At, AgentInv, AgentTypeOK
<1>2. CASE End
  BY <1>1, <1>2, ScriptLeaves DEF Reading
<1>3. CASE ~End
  <2>1. PICK third \in Int :
          /\ third \in 1..q[run.side]
          /\ run' = [run EXCEPT !.pc = "gate", !.verb = "sell", !.shares = third,
                                !.bound = MinTokensOut(QuoteSell(run.side, third))]
    <3>1. run.shares \div 3 \in Int
      BY <1>1 DEF Runs
    <3> QED
      BY <1>3, <3>1 DEF QuotesSale
  <2>2. third \in Nat /\ MinTokensOut(QuoteSell(run.side, third)) \in Int
    <3>1. run.side \in Sides /\ q[run.side] \in Nat
      BY <1>1 DEF Runs, AgentInv, PoolInv, PoolTypeOK
    <3>2. third \in Nat /\ third <= q[run.side]
      BY <2>1, <3>1
    <3> QED
      BY <3>1, <3>2, QuotesAre DEF AgentInv
  <2>3. "gate" \in Places /\ "sell" \in Verbs
    BY DEF Places, Verbs
  <2>4. /\ run' \in Runs /\ run'.n = run.n /\ run'.pc = "gate" /\ run'.verb = "sell"
        /\ run'.alone = run.alone /\ run'.moved = run.moved /\ run'.said = run.said
    BY <1>1, <2>1, <2>2, <2>3 DEF Runs
  <2>5. RunIsPriced'
    BY <2>4 DEF RunIsPriced, Sizing
  <2> QED
    BY <1>1, <2>4, <2>5, ScriptDecides
<1> QED
  BY <1>2, <1>3

LEMMA ViewsClaimKeeps ==
    ASSUME AgentInv, ViewsClaim
    PROVE  AgentInv'
<1>1. run \in Runs /\ run.pc = "view" /\ Reading
  BY DEF ViewsClaim, At, AgentInv, AgentTypeOK
<1>2. CASE End
  BY <1>1, <1>2, ScriptLeaves DEF Reading
<1>3. CASE run' = [run EXCEPT !.pc = "gate", !.verb = ClaimVerb]
  <2>1. "gate" \in Places /\ ClaimVerb \in {"redeem", "liquidate", "none"}
        /\ ClaimVerb \in Verbs
    BY DEF Places, Verbs, ClaimVerb
  <2>2. /\ run' \in Runs /\ run'.n = run.n /\ run'.pc = "gate" /\ run'.verb # "buy"
        /\ run'.alone = run.alone /\ run'.moved = run.moved /\ run'.said = run.said
    BY <1>1, <1>3, <2>1 DEF Runs
  <2>3. RunIsPriced'
    BY <2>2 DEF RunIsPriced, Sizing
  <2> QED
    BY <1>1, <2>2, <2>3, ScriptDecides
<1> QED
  BY <1>2, <1>3 DEF ViewsClaim

LEMMA ChecksNameKeeps ==
    ASSUME AgentInv, ChecksName
    PROVE  AgentInv'
<1>1. run \in Runs /\ run.pc = "view" /\ Reading
  BY DEF ChecksName, At, AgentInv, AgentTypeOK
<1>2. CASE End
  BY <1>1, <1>2, ScriptLeaves DEF Reading
<1>3. CASE ~End
  <2>1. PICK role \in Roles, verb \in Naming :
          run' = [run EXCEPT !.pc = "send", !.verb = verb, !.role = role]
    <3>1. CASE \E role \in {"Trader", "Resolver"} :
                 run' = [run EXCEPT !.pc = "send", !.verb = "register", !.role = role]
      BY <3>1 DEF Roles, Naming
    <3>2. CASE run' = [run EXCEPT !.pc = "send", !.verb = "rename"]
      <4>1. run.role \in Roles
        BY <1>1 DEF Runs
      <4>2. run' = [run EXCEPT !.pc = "send", !.verb = "rename", !.role = run.role]
        BY <1>1, <3>2 DEF Runs
      <4> QED
        BY <4>1, <4>2 DEF Naming
    <3> QED
      BY <1>3, <3>1, <3>2 DEF ChecksName, Registers
  <2>2. "send" \in Places /\ verb \in Verbs /\ verb # "buy"
    BY DEF Places, Verbs, Naming
  <2>3. /\ run' \in Runs /\ run'.n = run.n /\ run'.pc = "send" /\ run'.verb = verb
        /\ run'.alone = run.alone /\ run'.moved = run.moved /\ run'.said = run.said
    BY <1>1, <2>1, <2>2 DEF Runs
  <2>4. RunIsPriced'
    BY <2>2, <2>3 DEF RunIsPriced, Sizing
  <2>5. Undisturbed'
    BY <2>3 DEF AgentInv, Undisturbed
  <2> QED
    BY <1>1, <2>3, <2>4, <2>5, ScriptReads
<1> QED
  BY <1>2, <1>3

LEMMA GateKeeps ==
    ASSUME AgentInv, Gate
    PROVE  AgentInv'
<1>1. run \in Runs /\ run.pc = "gate" /\ Reading /\ free \in Int
  BY DEF Gate, AgentInv, AgentTypeOK
<1>2. CASE End
  BY <1>1, <1>2, ScriptLeaves DEF Reading
<1>3. CASE ~End
  <2>1. PICK readable \in BOOLEAN :
          run' = [run EXCEPT !.pc = "send", !.before = free, !.alone = (sent = <<>>),
                             !.gated = GateRead(readable), !.said = {}]
    BY <1>3 DEF Gate
  <2>2. PICK alone \in BOOLEAN : alone = (sent = <<>>)
    OBVIOUS
  <2>3. PICK gated \in SUBSET BOOLEAN : gated = GateRead(readable)
    <3>1. run.gated \in SUBSET BOOLEAN
      BY <1>1 DEF Runs
    <3>2. {required /\ readable} \in SUBSET BOOLEAN
      OBVIOUS
    <3> QED
      BY <3>1, <3>2 DEF GateRead
  <2>4. run' = [run EXCEPT !.pc = "send", !.before = free, !.alone = alone,
                           !.gated = gated, !.said = {}]
    BY <2>1, <2>2, <2>3, Zenon
  <2>5. "send" \in Places
    BY DEF Places
  <2>6. /\ run' \in Runs /\ run'.n = run.n /\ run'.pc = "send" /\ run'.verb = run.verb
        /\ run'.alone = alone /\ run'.said = {} /\ run'.before = free
        /\ run'.seen = run.seen /\ run'.side = run.side /\ run'.shares = run.shares
        /\ run'.belief = run.belief /\ run'.budget = run.budget
    BY <1>1, <2>4, <2>5 DEF Runs
  <2>7. RunIsPriced'
    BY <1>1, <2>6 DEF AgentInv, RunIsPriced, Sizing, Sized
  <2>8. Undisturbed'
    BY <1>1, <2>2, <2>6 DEF Undisturbed, Reading, walletVars
  <2> QED
    BY <1>1, <2>6, <2>7, <2>8, ScriptReads
<1> QED
  BY <1>2, <1>3

LEMMA ReportsKeeps ==
    ASSUME AgentInv, Reports
    PROVE  AgentInv'
<1>1. /\ run \in Runs /\ run.pc = "after" /\ Reading /\ free \in Int
      /\ run.before \in Int /\ run.moved \in Int
  BY DEF Reports, AgentInv, AgentTypeOK, Runs
<1>2. /\ Measured \in Int
      /\ run.alone /\ Agent # Creator /\ run.verb \notin Naming => Measured = run.moved
  BY <1>1 DEF Measured, AgentInv, Undisturbed
<1>3. PICK measured \in Int : measured = Measured
  BY <1>2
<1>4. CASE run.verb = "buy"
  <2>1. run' = [run EXCEPT !.pc = "quote", !.said = {measured}]
    BY <1>3, <1>4 DEF Reports, Naming
  <2>2. "quote" \in Places /\ {measured} \in SUBSET Int
    BY DEF Places
  <2>3. /\ run' \in Runs /\ run'.n = run.n /\ run'.pc = "quote" /\ run'.verb = run.verb
        /\ run'.alone = run.alone /\ run'.moved = run.moved /\ run'.said = {measured}
        /\ run'.seen = run.seen /\ run'.side = run.side /\ run'.shares = run.shares
        /\ run'.belief = run.belief /\ run'.budget = run.budget
    BY <1>1, <2>1, <2>2 DEF Runs
  <2>4. RunIsPriced'
    BY <1>4, <2>3 DEF AgentInv, RunIsPriced, Sizing, Sized
  <2>5. Undisturbed'
    BY <1>2, <1>3, <1>4, <2>3 DEF Undisturbed, Naming
  <2> QED
    BY <1>1, <2>3, <2>4, <2>5, ScriptReads
<1>5. CASE run.verb \in Naming
  <2>1. run' = [NoRun EXCEPT !.n = run.n]
    BY <1>5 DEF Reports, Naming
  <2>2. /\ run' \in Runs /\ run'.n = run.n /\ run'.pc = "ended" /\ run'.verb = "none"
        /\ run'.said = {}
    <3>1. NoRun \in Runs /\ run.n \in Nat
      BY <1>1, NoRunIs DEF Runs
    <3>2. NoRun.pc = "ended" /\ NoRun.verb = "none" /\ NoRun.said = {}
      BY DEF NoRun
    <3> QED
      BY <2>1, <3>1, <3>2 DEF Runs
  <2>3. RunIsPriced' /\ Undisturbed'
    BY <2>2 DEF RunIsPriced, Undisturbed, Sizing
  <2> QED
    BY <1>1, <2>2, <2>3, ScriptReads
<1>6. CASE run.verb \notin Naming \union {"buy"}
  <2>1. run' = [NoRun EXCEPT !.n = run.n, !.alone = run.alone, !.moved = run.moved,
                             !.said = {measured}]
    BY <1>3, <1>6 DEF Reports
  <2>2. /\ run' \in Runs /\ run'.n = run.n /\ run'.pc = "ended" /\ run'.verb = "none"
        /\ run'.alone = run.alone /\ run'.moved = run.moved /\ run'.said = {measured}
    <3>1. /\ NoRun \in Runs /\ run.n \in Nat /\ run.alone \in BOOLEAN
          /\ {measured} \in SUBSET Int
      BY <1>1, NoRunIs DEF Runs
    <3>2. NoRun.pc = "ended" /\ NoRun.verb = "none"
      BY DEF NoRun
    <3> QED
      BY <1>1, <2>1, <3>1, <3>2 DEF Runs
  <2>3. RunIsPriced' /\ Undisturbed'
    BY <1>2, <1>3, <1>6, <2>2 DEF RunIsPriced, Undisturbed, Sizing
  <2> QED
    BY <1>1, <2>2, <2>3, ScriptReads
<1> QED
  BY <1>4, <1>5, <1>6

(* `client.send`: what the chain would take joins the end of the queue.    *)
LEMMA SendsKeeps ==
    ASSUME AgentInv, NEW t \in Transactions, Sends(t),
           UNCHANGED <<poolVars, required, identity, walletVars, others>>,
           run.pc \notin {"ended", "receipt", "size", "invert", "preview", "view", "believe"},
           t.run = run.n, t.verb \in {"approve", run.verb}, t.verb = "buy" => Sized(t),
           run.alone /\ Agent # Creator /\ t.verb \notin Naming \union {"approve"} =>
             sent = <<>> /\ run.before = free
    PROVE  AgentInv'
<1>1. run \in Runs /\ sent \in Seq(Transactions)
  BY DEF AgentInv, AgentTypeOK
<1>2. CASE End /\ UNCHANGED sent
  BY <1>2, ScriptLeaves
<1>3. CASE sent' = Append(sent, t) /\ Goto("receipt")
  <2>1. sent' = Append(sent, t) /\ run' = [run EXCEPT !.pc = "receipt"]
    BY <1>3 DEF Goto
  <2>2. "receipt" \in Places
    BY DEF Places
  <2>3. /\ run' \in Runs /\ run'.n = run.n /\ run'.pc = "receipt" /\ run'.verb = run.verb
        /\ run'.alone = run.alone /\ run'.moved = run.moved /\ run'.said = run.said
        /\ run'.before = run.before
        /\ run'.seen = run.seen /\ run'.side = run.side /\ run'.shares = run.shares
        /\ run'.belief = run.belief /\ run'.budget = run.budget
    BY <1>1, <2>1, <2>2 DEF Runs
  <2>4. /\ sent' \in Seq(Transactions) /\ Len(sent') = Len(sent) + 1 /\ Len(sent) \in Nat
        /\ \A i \in 1..Len(sent) : sent'[i] = sent[i]
        /\ sent'[Len(sent')] = t
    BY <1>1, <2>1
  <2>5. \A i \in 1..Len(sent') : i \in 1..Len(sent) \/ i = Len(sent')
    BY <2>4
  <2>6. PoolInv'
    BY WaitingKeeps DEF poolVars, AgentInv, PoolInv, PoolTypeOK
  <2>7. AgentTypeOK'
    BY <2>3, <2>4 DEF AgentInv, AgentTypeOK, walletVars
  <2>8. InNonceOrder'
    <3> SUFFICES ASSUME NEW i \in 1..Len(sent')
                 PROVE  /\ sent'[i].run <= run'.n
                        /\ sent'[i].run = run'.n => i = Len(sent')
      BY <2>3 DEF InNonceOrder
    <3>1. CASE i \in 1..Len(sent)
      BY <2>3, <2>4, <3>1 DEF AgentInv, InNonceOrder
    <3>2. CASE i = Len(sent')
      BY <1>1, <2>3, <2>4, <3>2 DEF Runs
    <3> QED
      BY <2>5, <3>1, <3>2
  <2>9. Awaits'
    BY <2>3, <2>4 DEF Awaits, Newest
  <2>10. Undisturbed'
    <3>1. run.alone /\ Agent # Creator => run.said \subseteq {run.moved}
      BY DEF AgentInv, Undisturbed
    <3>2. sent = <<>> => Len(sent') = 1
      BY <2>4
    <3>3. free' = free
      BY DEF walletVars
    <3> QED
      BY <2>3, <2>4, <3>1, <3>2, <3>3 DEF Undisturbed, Newest
  <2>11. RunIsPriced'
    BY <2>3 DEF AgentInv, RunIsPriced, Sizing, Sized
  <2>12. SentIsPriced'
    <3> SUFFICES ASSUME NEW i \in 1..Len(sent'), sent'[i].verb = "buy"
                 PROVE  Sized(sent'[i])
      BY DEF SentIsPriced, Sized
    <3>1. CASE i \in 1..Len(sent)
      BY <2>4, <3>1 DEF AgentInv, SentIsPriced
    <3>2. CASE i = Len(sent')
      BY <2>4, <3>2
    <3> QED
      BY <2>5, <3>1, <3>2
  <2> QED
    BY <2>6, <2>7, <2>8, <2>9, <2>10, <2>11, <2>12 DEF AgentInv
<1> QED
  BY <1>2, <1>3 DEF Sends

LEMMA TransactionIs ==
    ASSUME run \in Runs
    PROVE  Transaction \in Transactions
BY DEF Transaction, Transactions, Runs

LEMMA AllowsKeeps ==
    ASSUME AgentInv, Allows
    PROVE  AgentInv'
<1> DEFINE t == [Transaction EXCEPT !.verb = "approve"]
<1>1. /\ run \in Runs /\ run.pc = "allow"
      /\ UNCHANGED <<poolVars, required, identity, walletVars, others>>
  BY DEF Allows, At, AgentInv, AgentTypeOK
<1>2. CASE Goto("gate") /\ UNCHANGED sent
  <2>1. "gate" \in Places
    BY DEF Places
  <2>2. /\ run' \in Runs /\ run'.n = run.n /\ run'.pc = "gate" /\ run'.verb = run.verb
        /\ run'.alone = run.alone /\ run'.moved = run.moved /\ run'.said = run.said
        /\ run'.seen = run.seen /\ run'.side = run.side /\ run'.shares = run.shares
        /\ run'.belief = run.belief /\ run'.budget = run.budget
    BY <1>1, <1>2, <2>1 DEF Goto, Runs
  <2>3. RunIsPriced'
    BY <1>1, <2>2 DEF AgentInv, RunIsPriced, Sizing, Sized
  <2>4. Reading
    BY <1>1, <1>2 DEF Reading
  <2> QED
    BY <1>1, <2>2, <2>3, <2>4, ScriptDecides
<1>3. CASE Sends(t)
  <2>1. Transaction \in Transactions /\ "approve" \in Verbs
    BY <1>1, TransactionIs DEF Verbs
  <2>2. t \in Transactions /\ t.run = run.n /\ t.verb = "approve"
    BY <2>1 DEF Transactions, Transaction
  <2> HIDE DEF t
  <2> QED
    BY <1>1, <1>3, <2>2, SendsKeeps
<1> QED
  BY <1>2, <1>3 DEF Allows

LEMMA OrdersKeeps ==
    ASSUME AgentInv, Orders
    PROVE  AgentInv'
<1>1. /\ run \in Runs /\ run.pc = "send" /\ Sends(Transaction)
      /\ UNCHANGED <<poolVars, required, identity, walletVars, others>>
  BY DEF Orders, AgentInv, AgentTypeOK
<1>2. /\ Transaction \in Transactions
      /\ Transaction.run = run.n /\ Transaction.verb = run.verb
  BY <1>1, TransactionIs DEF Transaction
<1>3. run.verb = "buy" => Sized(Transaction)
  BY DEF AgentInv, RunIsPriced, Sized, Transaction
<1>4. run.alone /\ Agent # Creator /\ run.verb \notin Naming => sent = <<>> /\ run.before = free
  BY <1>1 DEF AgentInv, Undisturbed
<1> QED
  BY <1>1, <1>2, <1>3, <1>4, SendsKeeps

(* The next transaction of the queue leaves it.                            *)
LEMMA NextIs ==
    ASSUME AgentTypeOK, sent # <<>>, sent' = Tail(sent)
    PROVE  /\ Head(sent) = sent[1] /\ Head(sent) \in Transactions /\ 1 \in 1..Len(sent)
           /\ sent' \in Seq(Transactions) /\ Len(sent') = Len(sent) - 1
           /\ Len(sent) \in Nat \ {0}
           /\ \A i \in 1..Len(sent') : i + 1 \in 1..Len(sent) /\ sent'[i] = sent[i + 1]
<1>1. sent \in Seq(Transactions)
  BY DEF AgentTypeOK
<1> QED
  BY <1>1

LEMMA MinedForOthers ==
    ASSUME AgentInv, sent # <<>>, sent' = Tail(sent), run' = run, PoolInv', AgentTypeOK',
           ~(run.n = Head(sent).run /\ run.pc = "receipt")
    PROVE  AgentInv'
<1>1. /\ Head(sent) = sent[1] /\ 1 \in 1..Len(sent)
      /\ sent' \in Seq(Transactions) /\ Len(sent') = Len(sent) - 1
      /\ Len(sent) \in Nat \ {0}
      /\ \A i \in 1..Len(sent') : i + 1 \in 1..Len(sent) /\ sent'[i] = sent[i + 1]
  BY NextIs DEF AgentInv
<1>2. ASSUME run.pc = "receipt"
      PROVE  /\ Len(sent) > 1 /\ Newest' = Newest
             /\ Newest.run = run.n /\ Newest.verb \in {"approve", run.verb}
  <2>1. Newest.run = run.n /\ Newest.verb \in {"approve", run.verb}
    BY <1>2 DEF AgentInv, Awaits
  <2>2. Len(sent) # 1
    BY <1>1, <1>2, <2>1 DEF Newest
  <2>3. Len(sent') \in 1..Len(sent') /\ Len(sent') + 1 = Len(sent)
    BY <1>1, <2>2
  <2> QED
    BY <1>1, <2>1, <2>2, <2>3 DEF Newest
<1>3. InNonceOrder'
  <2> SUFFICES ASSUME NEW i \in 1..Len(sent')
               PROVE  /\ sent'[i].run <= run.n
                      /\ sent'[i].run = run.n /\ run.pc # "ended" =>
                            run.pc = "receipt" /\ i = Len(sent')
    BY DEF InNonceOrder
  <2>1. PICK j \in 1..Len(sent) : j = i + 1 /\ sent'[i] = sent[j]
    BY <1>1
  <2>2. /\ sent[j].run <= run.n
        /\ sent[j].run = run.n /\ run.pc # "ended" => run.pc = "receipt" /\ j = Len(sent)
    BY DEF AgentInv, InNonceOrder
  <2>3. j = Len(sent) => i = Len(sent')
    <3>1. PICK l \in Nat : l = Len(sent) /\ Len(sent') = l - 1
      BY <1>1
    <3>2. i \in 1..(l - 1) /\ j = i + 1
      BY <2>1, <3>1
    <3> QED
      BY <3>1, <3>2
  <2> QED
    BY <2>1, <2>2, <2>3
<1>4. Awaits'
  <2>1. Len(sent) > 1 => sent' # <<>>
    <3>1. sent' = <<>> => Len(sent') = 0
      OBVIOUS
    <3> QED
      BY <1>1, <3>1
  <2> QED
    BY <1>2, <2>1 DEF Awaits
<1>5. Undisturbed'
  <2> SUFFICES ASSUME run.alone, Agent # Creator
               PROVE  /\ run.said \subseteq {run.moved}
                      /\ run.pc \in {"send", "after"} => run.verb \in Naming
                      /\ run.pc = "receipt" => Newest'.verb \in Naming \union {"approve"}
    BY DEF Undisturbed
  <2>1. run.said \subseteq {run.moved}
    BY DEF AgentInv, Undisturbed
  <2>2. run.pc \in {"send", "after"} => run.verb \in Naming
    BY DEF AgentInv, Undisturbed
  <2>3. run.pc = "receipt" => Newest'.verb \in Naming \union {"approve"}
    BY <1>1, <1>2 DEF AgentInv, Undisturbed
  <2> QED
    BY <2>1, <2>2, <2>3
<1>6. RunIsPriced'
  BY DEF AgentInv, RunIsPriced, Sized
<1>7. SentIsPriced'
  <2> SUFFICES ASSUME NEW i \in 1..Len(sent'), sent'[i].verb = "buy"
               PROVE  Sized(sent'[i])
    BY DEF SentIsPriced, Sized
  <2>1. PICK j \in 1..Len(sent) : sent'[i] = sent[j]
    BY <1>1
  <2> QED
    BY <2>1 DEF AgentInv, SentIsPriced
<1> QED
  BY <1>3, <1>4, <1>5, <1>6, <1>7 DEF AgentInv

LEMMA MinedForScript ==
    ASSUME AgentInv, sent # <<>>, sent' = Tail(sent), PoolInv', AgentTypeOK',
           run.n = Head(sent).run, run.pc = "receipt",
           held \in Int, held' \in Int, free' = free - (held' - held),
           run' = [run EXCEPT !.pc = IF Head(sent).verb = "approve" THEN "gate" ELSE "after",
                              !.moved = held - held', !.said = {}]
    PROVE  AgentInv'
<1>1. /\ Head(sent) = sent[1] /\ 1 \in 1..Len(sent)
      /\ sent' \in Seq(Transactions) /\ Len(sent') = Len(sent) - 1
      /\ Len(sent) \in Nat \ {0}
  BY NextIs DEF AgentInv
<1>2. run \in Runs /\ free \in Int
  BY DEF AgentInv, AgentTypeOK
<1>3. Len(sent) = 1 /\ sent' = <<>> /\ Newest = Head(sent)
  <2>1. Len(sent) = 1
    BY <1>1 DEF AgentInv, InNonceOrder
  <2> QED
    BY <1>1, <2>1 DEF Newest
<1>4. Head(sent).verb \in {"approve", run.verb}
  BY <1>3 DEF AgentInv, Awaits
<1>5. /\ run'.pc = IF Head(sent).verb = "approve" THEN "gate" ELSE "after"
      /\ run'.said = {} /\ run'.moved = held - held' /\ run'.verb = run.verb
      /\ run'.alone = run.alone /\ run'.before = run.before
      /\ run'.seen = run.seen /\ run'.side = run.side /\ run'.shares = run.shares
      /\ run'.belief = run.belief /\ run'.budget = run.budget
  BY <1>2 DEF Runs
<1>6. InNonceOrder' /\ Awaits' /\ SentIsPriced'
  BY <1>3, <1>5 DEF InNonceOrder, Awaits, SentIsPriced
<1>7. RunIsPriced'
  BY <1>5 DEF AgentInv, RunIsPriced, Sizing, Sized
<1>8. Undisturbed'
  <2>1. ASSUME run.alone, Agent # Creator, Head(sent).verb # "approve",
               run.verb \notin Naming
        PROVE  free' - run.before = held - held'
    <3>1. run.before = free
      BY <1>3, <1>4, <2>1 DEF AgentInv, Undisturbed
    <3> QED
      BY <1>2, <3>1
  <2> QED
    BY <1>3, <1>5, <2>1 DEF Undisturbed
<1> QED
  BY <1>6, <1>7, <1>8 DEF AgentInv

LEMMA MinedKeeps ==
    ASSUME AgentInv, Mined
    PROVE  AgentInv'
<1> DEFINE t     == Head(sent)
           waits == run.n = t.run /\ run.pc = "receipt"
<1>1. sent # <<>> /\ sent' = Tail(sent) /\ UNCHANGED <<required, others>>
  BY DEF Mined
<1>2. /\ run \in Runs /\ allowance \in Int /\ identity \in Roles /\ free \in Nat
      /\ required \in BOOLEAN /\ others \in Nat
  BY DEF AgentInv, AgentTypeOK
<1>3. /\ t = sent[1] /\ t \in Transactions
      /\ sent' \in Seq(Transactions) /\ Len(sent') = Len(sent) - 1 /\ Len(sent) \in Nat
      /\ \A i \in 1..Len(sent') : i + 1 \in 1..Len(sent) /\ sent'[i] = sent[i + 1]
  BY <1>1, NextIs DEF AgentInv
<1>4. CASE /\ UNCHANGED <<poolVars, walletVars, identity>>
           /\ IF waits THEN End ELSE UNCHANGED run
  <2>1. PoolInv'
    BY <1>4, WaitingKeeps DEF poolVars, AgentInv, PoolInv, PoolTypeOK
  <2>2. CASE waits
    <3>1. End
      BY <1>4, <2>2
    <3>2. run' \in Runs
      BY <1>2, <3>1, StoppedIs
    <3>3. AgentTypeOK'
      BY <1>1, <1>2, <1>3, <1>4, <3>2 DEF AgentTypeOK, walletVars
    <3>4. \A i \in 1..Len(sent') : \E j \in 1..Len(sent) : sent'[i] = sent[j]
      BY <1>3
    <3> QED
      BY <2>1, <3>1, <3>3, <3>4, ScriptStops
  <2>3. CASE ~waits
    <3>1. run' = run
      BY <1>4, <2>3
    <3>2. AgentTypeOK'
      BY <1>1, <1>2, <1>3, <1>4, <3>1 DEF AgentTypeOK, walletVars
    <3> QED
      BY <1>1, <2>1, <2>3, <3>1, <3>2, MinedForOthers
  <2> QED
    BY <2>2, <2>3
<1>5. CASE /\ Taken(t)
           /\ Executes(t)
           /\ free' = free - (held' - held)
           /\ allowance' = CASE t.verb = "approve" -> t.bound
                             [] t.verb = "buy"     -> allowance - (held' - held)
                             [] OTHER              -> allowance
           /\ identity' = IF t.verb = "register" THEN t.role ELSE identity
           /\ run' = IF ~waits THEN run
                     ELSE [run EXCEPT !.pc = IF t.verb = "approve" THEN "gate" ELSE "after",
                                      !.moved = held - held', !.said = {}]
  <2>1. PoolInv' /\ held \in Int /\ held' \in Int /\ free' \in Nat
    BY <1>3, <1>5, TakenMoves DEF AgentInv
  <2>2. allowance' \in Int /\ identity' \in Roles
    <3>1. t.bound \in Int /\ t.role \in Roles /\ allowance \in Int /\ identity \in Roles
      BY <1>2, <1>3 DEF Transactions
    <3>2. allowance - (held' - held) \in Int
      BY <2>1, <3>1
    <3> QED
      BY <1>5, <3>1, <3>2
  <2>3. CASE waits
    <3>1. run' = [run EXCEPT !.pc = IF t.verb = "approve" THEN "gate" ELSE "after",
                             !.moved = held - held', !.said = {}]
      BY <1>5, <2>3
    <3>2. PICK pc \in Places : pc = IF t.verb = "approve" THEN "gate" ELSE "after"
      BY DEF Places
    <3>3. held - held' \in Int
      BY <2>1
    <3>4. run' \in Runs
      BY <1>2, <3>1, <3>2, <3>3 DEF Runs
    <3>5. AgentTypeOK'
      BY <1>1, <1>2, <1>3, <2>1, <2>2, <3>4 DEF AgentTypeOK
    <3> QED
      BY <1>1, <1>5, <2>1, <2>3, <3>1, <3>5, MinedForScript
  <2>4. CASE ~waits
    <3>1. run' = run
      BY <1>5, <2>4
    <3>2. AgentTypeOK'
      BY <1>1, <1>2, <1>3, <2>1, <2>2, <3>1 DEF AgentTypeOK
    <3> QED
      BY <1>1, <2>1, <2>4, <3>1, <3>2, MinedForOthers
  <2> QED
    BY <2>3, <2>4
<1> QED
  BY <1>4, <1>5, Zenon DEF Mined

LEMMA DiesKeeps ==
    ASSUME AgentInv, Dies
    PROVE  AgentInv'
BY ScriptLeaves DEF Dies

(* The world moves only the market and what governs it.                    *)
LEMMA WorldKeeps ==
    ASSUME AgentInv, PoolInv', required' \in BOOLEAN, others' \in Nat, free' \in Nat,
           Agent # Creator => free' = free,
           UNCHANGED <<identity, allowance, sent, run>>
    PROVE  AgentInv'
<1>1. AgentTypeOK' /\ InNonceOrder' /\ Awaits'
  BY DEF AgentInv, AgentTypeOK, InNonceOrder, Awaits, Newest
<1>2. Undisturbed' /\ RunIsPriced' /\ SentIsPriced'
  BY DEF AgentInv, Undisturbed, RunIsPriced, SentIsPriced, Sized, Newest
<1> QED
  BY <1>1, <1>2 DEF AgentInv

LEMMA CreatorFeeIs ==
    ASSUME PoolInv
    PROVE  CreatorFee \in Nat
<1>1. PICK fees \in Nat : fees = feeAccrued[Market]
  BY PoolAssumption DEF PoolInv, PoolTypeOK, MarketTypeOK
<1>2. PICK share \in Nat : share = fees * CreatorFeeShareBps
  BY <1>1, AgentAssumption
<1>3. share \div BPS \in Nat
  BY <1>2 DEF BPS
<1> QED
  BY <1>1, <1>2, <1>3 DEF CreatorFee

LEMMA AgentStarts == AgentInit => AgentInv
<1> SUFFICES ASSUME AgentInit
             PROVE  AgentInv
  OBVIOUS
<1>1. PoolInv
  BY StartKeeps DEF AgentInit
<1>2. /\ run = NoRun /\ sent = <<>> /\ run.pc = "ended" /\ run.verb = "none"
      /\ run.said = {}
  BY DEF AgentInit, NoRun
<1>3. AgentTypeOK
  <2>1. <<>> \in Seq(Transactions) /\ "none" \in Roles
    BY DEF Roles
  <2> QED
    BY <1>2, <2>1, NoRunIs, AgentAssumption DEF AgentInit, AgentTypeOK
<1>4. InNonceOrder /\ SentIsPriced
  BY <1>2 DEF InNonceOrder, SentIsPriced
<1>5. Awaits /\ Undisturbed /\ RunIsPriced
  BY <1>2 DEF Awaits, Undisturbed, RunIsPriced, Sizing
<1> QED
  BY <1>1, <1>3, <1>4, <1>5 DEF AgentInv

LEMMA AgentStep == AgentInv /\ [AgentNext]_agentVars => AgentInv'
<1> SUFFICES ASSUME AgentInv, [AgentNext]_agentVars
             PROVE  AgentInv'
  OBVIOUS
<1>0. PoolInv /\ required \in BOOLEAN /\ others \in Nat /\ free \in Nat
  BY DEF AgentInv, AgentTypeOK
<1>1. CASE \E script \in {"trade", "redeem", "register"} : Starts(script)
  BY <1>1, StartsKeeps
<1>2. CASE Trades
  BY <1>2, ListsMarketKeeps, BelievesKeeps, SizesKeeps, InvertsKeeps, PreviewsKeeps,
     AllowsKeeps, QuotesSaleKeeps DEF Trades
<1>3. CASE ViewsClaim
  BY <1>3, ViewsClaimKeeps
<1>4. CASE ChecksName
  BY <1>4, ChecksNameKeeps
<1>5. CASE Gate
  BY <1>5, GateKeeps
<1>6. CASE Orders
  BY <1>6, OrdersKeeps
<1>7. CASE Reports
  BY <1>7, ReportsKeeps
<1>8. CASE Mined
  BY <1>8, MinedKeeps
<1>9. CASE Dies
  BY <1>9, DiesKeeps
<1>10. CASE OthersTrade
  <2>1. PICK h \in Holders, side \in Sides, n \in Nat \ {0} :
          Buy(h, side, n) \/ Sell(h, side, n)
    BY <1>10, PoolAssumption DEF OthersTrade
  <2>2. PoolInv'
    BY <1>0, <2>1, BuyKeeps, SellKeeps
  <2>3. /\ required' \in BOOLEAN /\ others' \in Nat /\ free' = free
        /\ UNCHANGED <<identity, allowance, sent, run>>
    BY <1>0, <1>10 DEF OthersTrade, walletVars
  <2> QED
    BY <1>0, <2>2, <2>3, WorldKeeps
<1>11. CASE Governs
  <2>1. PoolInv'
    BY <1>0, <1>11, WaitingKeeps DEF Governs, poolVars, PoolInv, PoolTypeOK
  <2>2. /\ required' \in BOOLEAN /\ others' \in Nat /\ free' = free
        /\ UNCHANGED <<identity, allowance, sent, run>>
    BY <1>0, <1>11 DEF Governs, walletVars
  <2> QED
    BY <1>0, <2>1, <2>2, WorldKeeps
<1>12. CASE Ends
  <2>1. PoolInv'
    BY <1>0, <1>12, PoolStep DEF Ends, Next
  <2>2. /\ required' \in BOOLEAN /\ others' \in Nat
        /\ UNCHANGED <<identity, allowance, sent, run>>
    BY <1>0, <1>12 DEF Ends
  <2>3. free' \in Nat /\ (Agent # Creator => free' = free)
    <3>1. CreatorFee \in Nat
      BY CreatorFeeIs DEF AgentInv
    <3>2. UNCHANGED free \/ free' = free + (IF Agent = Creator THEN CreatorFee ELSE 0)
      BY <1>12 DEF Ends
    <3> QED
      BY <1>0, <3>1, <3>2
  <2> QED
    BY <2>1, <2>2, <2>3, WorldKeeps
<1>13. CASE UNCHANGED agentVars
  <2>1. PoolInv'
    BY <1>0, <1>13, PoolStep DEF agentVars
  <2> QED
    BY <1>0, <1>13, <2>1, WorldKeeps DEF agentVars, walletVars
<1> QED
  BY <1>1, <1>2, <1>3, <1>4, <1>5, <1>6, <1>7, <1>8, <1>9, <1>10, <1>11, <1>12, <1>13
  DEF AgentNext

-----------------------------------------------------------------------------
(* Whatever an agent's scripts read, send and die of, between one step and *)
(* the next of any of them, what is pending stays in the order of its      *)
(* nonces (client.send awaits each receipt), an order stays what its       *)
(* budget came to, and the market's books balance.                         *)
THEOREM ScriptsStaySound == AgentSpec => []AgentInv
<1>1. AgentInit => AgentInv
  BY AgentStarts
<1>2. AgentInv /\ [AgentNext]_agentVars => AgentInv'
  BY AgentStep
<1> QED
  BY <1>1, <1>2, PTL DEF AgentSpec

(* What a script reports of a fill or a claim (client.fillFrom, measured   *)
(* between two readings of the balance) is what its transaction moved,     *)
(* wherever the market went in between, if the agent did not create it:    *)
(* a creator is also paid its share of the fees, whenever the market ends. *)
THEOREM FillsAreTheirOwn ==
    ASSUME Agent # Creator
    PROVE  AgentSpec => []FillIsItsOwn
<1>1. AgentInv => FillIsItsOwn
  BY DEF AgentInv, Undisturbed, FillIsItsOwn
<1> QED
  BY <1>1, ScriptsStaySound, PTL

(* Only what is mined can both leave the queue and move the book.          *)
LEMMA OnlyMinedMoves ==
    ASSUME AgentInv, AgentNext, sent # <<>>, sent' = Tail(sent), q' # q
    PROVE  Mined
<1>1. sent' # sent
  <2>1. PICK l \in Nat : l = Len(sent) /\ Len(sent') = l - 1
    BY NextIs DEF AgentInv
  <2>2. sent' = sent => Len(sent') = Len(sent)
    OBVIOUS
  <2>3. l - 1 # l
    OBVIOUS
  <2> QED
    BY <2>1, <2>2, <2>3
<1>2. ~UNCHANGED poolVars
  BY DEF poolVars, supplyVars
<1>3. ~Reading
  BY <1>2 DEF Reading
<1>4. ~Trades
  BY <1>2, <1>3
  DEF Trades, ListsMarket, Believes, Sizes, Inverts, Previews, Allows, QuotesSale
<1>5. ~ViewsClaim /\ ~ChecksName /\ ~Gate /\ ~Orders /\ ~Reports /\ ~Dies
  BY <1>2, <1>3 DEF ViewsClaim, ChecksName, Gate, Orders, Reports, Dies
<1>6. \A script : ~Starts(script)
  BY <1>2 DEF Starts
<1>7. ~OthersTrade /\ ~Governs /\ ~Ends
  BY <1>1 DEF OthersTrade, Governs, Ends
<1> QED
  BY <1>4, <1>5, <1>6, <1>7 DEF AgentNext

(* A purchase whose script saw nothing but the market it is mined in.      *)
LEMMA PurchaseIsWithin ==
    ASSUME AgentInv, NEW t \in Transactions, Sized(t), t.verb = "buy", t.seen = {q},
           Taken(t), Buy(Agent, t.side, t.shares)
    PROVE  /\ Probability(q', t.side) <= t.belief
           /\ held' - held <= t.budget + 1
<1> DEFINE net == t.budget - FeeFromGross(t.budget)
<1>1. /\ PoolInv /\ q \in Supplies /\ t.side \in Sides /\ t.budget \in Nat
      /\ t.belief \in 0..WAD /\ Scale \in Nat \ {0}
  BY ReadingIsSupply, PoolAssumption DEF AgentInv, Transactions
<1>2. net \in 0..t.budget /\ \A cost \in Nat : cost <= net => cost + Fee(cost) <= t.budget + 1
  BY <1>1, FeeSplit
<1> HIDE DEF net
<1>3. /\ t.shares = SharesForSpend(q, t.side, ToWad(net))
      /\ ImpactOf(q, t.side, t.budget) <= t.belief
  BY DEF Sized, net
<1>4. t.shares \in Nat \ {0}
  BY DEF Taken, BuyTaken, Transactions
<1>5. q' = QAfterBuy(q, t.side, t.shares)
  BY DEF Buy, QAfterBuy
<1>6. Probability(q', t.side) <= t.belief
  BY <1>1, <1>2, <1>3, <1>4, <1>5, OrderStaysWithin
<1>7. held' - held <= t.budget + 1
  <2>1. PICK spend \in Nat : spend = net * Scale /\ spend = ToWad(net)
    BY <1>1, <1>2, MulMono DEF ToWad
  <2>2. CostUp(q') <= CostUp(q) + spend
    BY <1>1, <1>3, <1>4, <1>5, <2>1, SpendPays
  <2>3. poolWad = CostUp(q) /\ poolWad \in Nat
    BY <1>1, OpenState DEF Buy, PoolInv, PoolTypeOK
  <2>4. PICK moved \in Int : moved = CostUp(q') - poolWad /\ moved <= net * Scale
    <3>1. q' \in [Sides -> Nat]
      BY <1>1, <1>4, <1>5 DEF QAfterBuy, Supplies
    <3>2. CostUp(q') \in Nat
      BY <3>1, CostUpIs
    <3> QED
      BY <2>1, <2>2, <2>3, <3>2
  <2>5. PICK cost \in Int : /\ cost = NetCost(t.side, t.shares)
                             /\ cost = CeilDiv(moved, Scale)
                             /\ cost <= net
    BY <1>1, <1>2, <1>5, <2>4, CeilSuffices DEF NetCost
  <2>6. cost \in Nat
    BY <2>5, PoolAssumption DEF Taken, BuyTaken
  <2>7. cost + Fee(cost) <= t.budget + 1
    BY <1>2, <2>5, <2>6
  <2>8. held' - held = cost + Fee(cost)
    <3>1. QuoteBuy(t.side, t.shares) = cost + Fee(cost)
      BY <2>5 DEF QuoteBuy
    <3>2. held' - held = QuoteBuy(t.side, t.shares)
      BY <1>1, <1>4, BuyPays
    <3> QED
      BY <3>1, <3>2
  <2> QED
    BY <2>7, <2>8
<1> QED
  BY <1>6, <1>7

(* A purchase mined in the market its script saw at every reading moves    *)
(* the probability no further than the agent's belief (trade.ts) and costs *)
(* no more than its budget, but for the unit its fee is rounded by.        *)
THEOREM PurchasesStayWithinEdge == AgentSpec => BuysOnlyItsEdge
<1> DEFINE Within ==
             LET t == Head(sent)
             IN (sent # <<>> /\ sent' = Tail(sent) /\ t.verb = "buy" /\ t.seen = {q} /\ q' # q) =>
                  /\ Probability(q', t.side) <= t.belief
                  /\ held' - held <= t.budget + 1
<1>1. ASSUME AgentInv, AgentNext
      PROVE  Within
  <2> SUFFICES ASSUME sent # <<>>, sent' = Tail(sent), Head(sent).verb = "buy",
                      Head(sent).seen = {q}, q' # q
               PROVE  /\ Probability(q', Head(sent).side) <= Head(sent).belief
                      /\ held' - held <= Head(sent).budget + 1
    OBVIOUS
  <2>1. Mined
    BY <1>1, OnlyMinedMoves
  <2>2. Taken(Head(sent)) /\ Executes(Head(sent))
    BY <2>1 DEF Mined, poolVars, supplyVars
  <2>3. Buy(Agent, Head(sent).side, Head(sent).shares)
    BY <2>2 DEF Executes, Naming
  <2>4. Head(sent) \in Transactions /\ Head(sent) = sent[1] /\ 1 \in 1..Len(sent)
    BY <1>1, NextIs DEF AgentInv
  <2>5. Sized(Head(sent))
    BY <1>1, <2>4 DEF AgentInv, SentIsPriced
  <2> QED
    BY <1>1, <2>2, <2>3, <2>4, <2>5, PurchaseIsWithin
<1>2. AgentInv /\ [AgentNext]_agentVars => [Within]_agentVars
  BY <1>1
<1>3. AgentSpec => [][Within]_agentVars
  <2> HIDE DEF Within
  <2> QED
    BY <1>2, ScriptsStaySound, PTL DEF AgentSpec
<1> QED
  BY <1>3 DEF BuysOnlyItsEdge
=============================================================================

----------------------------- MODULE ReadsProofs -----------------------------
(***************************************************************************)
(* Theorems of Reads, of the call gate and the document store under it,    *)
(* and of the two computations of a root: for every set of pages, files    *)
(* and requests, every limit and number of retries, whatever the indexer   *)
(* answers and the disk holds.  That two files never have one root is      *)
(* StoreAssumption.                                                        *)
(***************************************************************************)
EXTENDS Reads, TotalProofs

-----------------------------------------------------------------------------
(* The gate.  The endpoint's ceiling is kept for every limit and every set *)
(* of requests; the counter alone does not say so: the invariant ties it   *)
(* to the calls that are really outstanding.                               *)

Places == {"idle", "waiting", "woken", "fetching", "done"}

(* What the counter counts.                                                *)
Counted ==
    /\ IsFiniteSet(Outstanding)
    /\ inFlight = Cardinality(Outstanding)

GateInv ==
    /\ request \in [Requests -> Places]
    /\ Counted
    /\ CallsAreBounded

(* Requests carry calls of their own.                                      *)
LEMMA CallsAreApart ==
  ASSUME NEW S \in SUBSET Requests, NEW r \in Requests, r \notin S
  PROVE  (UNION {CallsOf[s] : s \in S}) \cap CallsOf[r] = {}
BY GateAssumption

(* A request's cost is a positive number.                                  *)
LEMMA CostIsPositive ==
  ASSUME NEW r \in Requests
  PROVE  Cost(r) \in Nat \ {0}
<1>1. IsFiniteSet(CallsOf[r]) /\ CallsOf[r] # {}
  BY GateAssumption
<1>2. QED
  BY <1>1, FS_CardinalityType, FS_EmptySet DEF Cost

(* Letting a request in keeps the count and the ceiling.                   *)
LEMMA AdmitKeepsGate ==
  ASSUME NEW r \in Requests, GateInv, ~Held(r), request[r] # "fetching",
         inFlight' = inFlight + Cost(r),
         request' = [request EXCEPT ![r] = "fetching"]
  PROVE  GateInv'
<1>1. Fetching' = Fetching \cup {r} /\ r \notin Fetching
  BY DEF GateInv, Fetching, Places
<1>2. Outstanding' = Outstanding \cup CallsOf[r]
  BY <1>1 DEF Outstanding
<1>3. Outstanding \cap CallsOf[r] = {}
  BY <1>1, CallsAreApart DEF Outstanding, Fetching
<1>4. IsFiniteSet(Outstanding) /\ IsFiniteSet(CallsOf[r])
  BY GateAssumption DEF GateInv, Counted
<1>5. /\ IsFiniteSet(Outstanding')
      /\ Cardinality(Outstanding') = Cardinality(Outstanding) + Cost(r)
  <2>1. Cardinality(Outstanding \cap CallsOf[r]) = 0
    BY <1>3, FS_EmptySet
  <2>2. /\ IsFiniteSet(Outstanding \cup CallsOf[r])
        /\ Cardinality(Outstanding \cup CallsOf[r])
             = Cardinality(Outstanding) + Cardinality(CallsOf[r])
                 - Cardinality(Outstanding \cap CallsOf[r])
    BY <1>4, FS_Union
  <2>3. Cardinality(Outstanding) \in Nat /\ Cardinality(CallsOf[r]) \in Nat
    BY <1>4, FS_CardinalityType
  <2>4. QED
    BY <1>2, <2>1, <2>2, <2>3 DEF Cost
<1>6. Counted'
  BY <1>5 DEF Counted, GateInv
<1>7. CallsAreBounded'
  <2>1. CASE inFlight = 0
    <3>1. Outstanding = {}
      BY <2>1, <1>4, FS_EmptySet DEF GateInv, Counted
    <3>2. Fetching = {}
      BY <3>1, GateAssumption DEF Outstanding, Fetching
    <3>3. QED
      BY <3>2, <1>1 DEF CallsAreBounded
  <2>2. CASE inFlight # 0
    <3>1. inFlight \in Nat
      BY <1>4, FS_CardinalityType DEF GateInv, Counted
    <3>2. inFlight + Cost(r) <= Limit
      BY <2>2, <3>1, CostIsPositive, GateAssumption DEF Held
    <3>3. QED
      BY <3>2, <1>5 DEF CallsAreBounded, GateInv, Counted
  <2>3. QED
    BY <2>1, <2>2
<1>8. request' \in [Requests -> Places]
  BY DEF GateInv, Places
<1>9. QED
  BY <1>6, <1>7, <1>8 DEF GateInv

(* Holding a request back changes nothing that is counted.                 *)
LEMMA HoldKeepsGate ==
  ASSUME NEW r \in Requests, GateInv, request[r] # "fetching",
         UNCHANGED inFlight, request' = [request EXCEPT ![r] = "waiting"]
  PROVE  GateInv'
<1>1. Fetching' = Fetching
  BY DEF GateInv, Fetching, Places
<1>2. Outstanding' = Outstanding
  BY <1>1 DEF Outstanding
<1>3. request' \in [Requests -> Places]
  BY DEF GateInv, Places
<1>4. QED
  BY <1>1, <1>2, <1>3 DEF GateInv, Counted, CallsAreBounded

(* What is given back is what the request was counted for.                 *)
LEMMA FinishKeepsGate ==
  ASSUME NEW r \in Requests, GateInv, Finish(r)
  PROVE  GateInv'
<1> DEFINE woken == Woken(inFlight - Cost(r))
<1>1. request[r] = "fetching" /\ inFlight' = inFlight - Cost(r)
  BY DEF Finish
<1>2. request' = [s \in Requests |->
         IF s = r THEN "done" ELSE IF s \in woken THEN "woken" ELSE request[s]]
  BY DEF Finish
<1>3. \A s \in woken : request[s] = "waiting"
  BY DEF Woken
<1>4. Fetching' = Fetching \ {r} /\ r \in Fetching
  BY <1>1, <1>2, <1>3 DEF Fetching
<1>5. /\ Outstanding = Outstanding' \cup CallsOf[r]
      /\ Outstanding' \cap CallsOf[r] = {}
  <2>1. Outstanding' = UNION {CallsOf[s] : s \in Fetching \ {r}}
    BY <1>4 DEF Outstanding
  <2>2. Outstanding = Outstanding' \cup CallsOf[r]
    BY <1>4, <2>1 DEF Outstanding
  <2>3. QED
    BY <2>1, <2>2, CallsAreApart DEF Fetching
<1>6. IsFiniteSet(Outstanding') /\ IsFiniteSet(CallsOf[r])
  <2>1. IsFiniteSet(Outstanding) /\ Outstanding' \subseteq Outstanding
    BY <1>5 DEF GateInv, Counted
  <2>2. QED
    BY <2>1, FS_Subset, GateAssumption
<1>7. Cardinality(Outstanding) = Cardinality(Outstanding') + Cost(r)
  <2>1. Cardinality(Outstanding' \cap CallsOf[r]) = 0
    BY <1>5, FS_EmptySet
  <2>2. Cardinality(Outstanding' \cup CallsOf[r])
          = Cardinality(Outstanding') + Cardinality(CallsOf[r])
              - Cardinality(Outstanding' \cap CallsOf[r])
    BY <1>6, FS_Union
  <2>3. Cardinality(Outstanding') \in Nat /\ Cardinality(CallsOf[r]) \in Nat
    BY <1>6, FS_CardinalityType
  <2>4. QED
    BY <1>5, <2>1, <2>2, <2>3 DEF Cost
<1>8. Cardinality(Outstanding') \in Nat
  BY <1>6, FS_CardinalityType
<1>9. Counted'
  BY <1>1, <1>6, <1>7, <1>8, CostIsPositive DEF Counted, GateInv
<1>10. CallsAreBounded'
  <2>1. CASE Cardinality(Outstanding) <= Limit
    BY <2>1, <1>7, <1>8, CostIsPositive, GateAssumption DEF CallsAreBounded
  <2>2. CASE \E s \in Fetching : Fetching = {s}
    <3>1. Fetching' = {}
      BY <2>2, <1>4
    <3>2. Cardinality(Outstanding') = 0
      BY <3>1, FS_EmptySet DEF Outstanding
    <3>3. QED
      BY <3>2, GateAssumption DEF CallsAreBounded
  <2>3. QED
    BY <2>1, <2>2 DEF GateInv, CallsAreBounded
<1>11. request' \in [Requests -> Places]
  BY <1>2 DEF GateInv, Places
<1>12. QED
  BY <1>9, <1>10, <1>11 DEF GateInv

(* The gate starts so, and keeps it so.                                     *)
LEMMA GateStart == GateInit => GateInv
<1> SUFFICES ASSUME GateInit PROVE GateInv
  OBVIOUS
<1>1. Fetching = {}
  BY DEF GateInit, Fetching
<1>2. Outstanding = {}
  BY <1>1 DEF Outstanding
<1>3. Counted /\ CallsAreBounded
  BY <1>2, FS_EmptySet, GateAssumption DEF Counted, CallsAreBounded, GateInit
<1>4. QED
  BY <1>3 DEF GateInv, GateInit, Places

(* No step of the gate breaks it.                                          *)
LEMMA GateStep == GateInv /\ [GateNext]_gateVars => GateInv'
<1> SUFFICES ASSUME GateInv, [GateNext]_gateVars PROVE GateInv'
  OBVIOUS
<1>1. ASSUME NEW r \in Requests, request[r] # "fetching", Tries(r) PROVE GateInv'
  <2>1. CASE Held(r)
    BY <1>1, <2>1, HoldKeepsGate DEF Tries
  <2>2. CASE ~Held(r)
    BY <1>1, <2>2, AdmitKeepsGate DEF Tries
  <2>3. QED
    BY <2>1, <2>2
<1>2. CASE \E r \in Requests : Issue(r)
  BY <1>1, <1>2 DEF Issue
<1>3. CASE \E r \in Requests : Resume(r)
  BY <1>1, <1>3 DEF Resume
<1>4. CASE \E r \in Requests : Finish(r)
  BY <1>4, FinishKeepsGate
<1>5. CASE UNCHANGED gateVars
  BY <1>5 DEF gateVars, GateInv, Counted, CallsAreBounded, Outstanding, Fetching
<1>6. QED
  BY <1>2, <1>3, <1>4, <1>5 DEF GateNext

(* The strengthened invariant is inductive.                                *)
THEOREM GateInvHolds == GateSpec => []GateInv
<1>1. QED
  BY GateStart, GateStep, PTL DEF GateSpec

(* The endpoint never sees more than Limit calls at once, but for a single *)
(* request that alone is wider.                                            *)
THEOREM GateKeepsCeiling == GateSpec => []CallsAreBounded
<1>1. GateInv => CallsAreBounded
  BY DEF GateInv
<1>2. QED
  BY <1>1, GateInvHolds, PTL

-----------------------------------------------------------------------------
(* The two computations of a root.  Queues are told apart by their members *)
(* alone.                                                                  *)

IsQueue(q) == Len(q) \in Nat /\ q = [i \in 1..Len(q) |-> q[i]]

LEMMA FunctionIsQueue ==
    ASSUME NEW n \in Nat, NEW q, DOMAIN q = 1..n, q = [i \in 1..n |-> q[i]]
    PROVE  IsQueue(q) /\ Len(q) = n
BY DEF IsQueue

LEMMA RangeIsQueue ==
    ASSUME NEW n \in Int, NEW q, DOMAIN q = 1..n, q = [i \in 1..n |-> q[i]]
    PROVE  IsQueue(q)
<1>1. CASE n \in Nat
  BY <1>1, FunctionIsQueue
<1>2. CASE n \notin Nat
  <2>1. 1..n = 1..0
    BY <1>2
  <2>2. DOMAIN q = 1..0 /\ q = [i \in 1..0 |-> q[i]]
    BY <2>1
  <2> QED
    BY <2>2, FunctionIsQueue
<1> QED
  BY <1>1, <1>2

(* A pass, node by node.                                                   *)
PassNode(q, i) == IF 2*i <= Len(q) THEN Hash(q[2*i - 1], q[2*i]) ELSE q[2*i - 1]

LEMMA PassIs ==
    ASSUME NEW q, IsQueue(q)
    PROVE  /\ Pass(q) = [i \in 1..((Len(q) + 1) \div 2) |-> PassNode(q, i)]
           /\ IsQueue(Pass(q))
<1> DEFINE half  == Len(q) \div 2
           pairs == [i \in 1..half |-> Hash(q[2*i - 1], q[2*i])]
           n     == (Len(q) + 1) \div 2
           all   == [i \in 1..n |-> PassNode(q, i)]
<1>1. half \in Nat /\ n \in Nat /\ Len(q) \in Nat
  BY DEF IsQueue
<1>2. pairs \in Seq({pairs[i] : i \in 1..half}) /\ Len(pairs) = half
  BY <1>1
<1>3. ASSUME Len(q) % 2 = 0
      PROVE  Pass(q) = all
  <2>1. Len(q) = 2*half /\ n = half
    BY <1>1, <1>3
  <2>2. Pass(q) = pairs \o <<>>
    BY <1>3 DEF Pass
  <2>3. pairs \o <<>> = pairs
    <3> HIDE DEF pairs
    <3> QED
      BY <1>2
  <2>4. \A i \in 1..half : PassNode(q, i) = Hash(q[2*i - 1], q[2*i])
    BY <2>1 DEF PassNode
  <2>5. all = [i \in 1..half |-> PassNode(q, i)]
    BY <2>1
  <2>6. all = pairs
    <3> HIDE DEF all, half, n
    <3> QED
      BY <2>4, <2>5
  <2> QED
    BY <2>2, <2>3, <2>6
<1>4. ASSUME Len(q) % 2 = 1
      PROVE  Pass(q) = all
  <2> DEFINE last == q[Len(q)]
  <2>1. Len(q) = 2*half + 1 /\ n = half + 1
    BY <1>1, <1>4
  <2>2. Pass(q) = pairs \o <<last>>
    BY <1>4 DEF Pass
  <2> DEFINE both == [i \in 1..(half + 1) |-> IF i <= half THEN pairs[i] ELSE last]
  <2>3. pairs \o <<last>> = both
    <3> HIDE DEF pairs, last, half
    <3>1. half \in Nat /\ Len(pairs) = half
      BY <1>1, <1>2
    <3>2. DOMAIN (pairs \o <<last>>) = 1..(half + 1)
      BY <3>1
    <3>3. \A i \in 1..(half + 1) :
            (pairs \o <<last>>)[i] = IF i <= half THEN pairs[i] ELSE last
      BY <3>1
    <3>4. pairs \o <<last>> = [i \in 1..(half + 1) |-> (pairs \o <<last>>)[i]]
      BY <1>2, <3>2
    <3> HIDE DEF both
    <3>5. [i \in 1..(half + 1) |-> (pairs \o <<last>>)[i]] = both
      BY <3>3 DEF both
    <3> QED
      BY <3>4, <3>5
  <2>4. ASSUME NEW i \in 1..(half + 1)
        PROVE  (IF i <= half THEN pairs[i] ELSE last) = PassNode(q, i)
    <3>1. CASE i <= half
      <4> HIDE DEF half, n, last
      <4> QED
        BY <1>1, <2>1, <3>1 DEF PassNode
    <3>2. CASE ~(i <= half)
      <4> HIDE DEF half, n, pairs
      <4>1. i = half + 1 /\ 2*i - 1 = Len(q) /\ ~(2*i <= Len(q))
        BY <1>1, <2>1, <3>2
      <4> QED
        BY <3>2, <4>1 DEF PassNode
    <3> QED
      BY <3>1, <3>2
  <2>5. all = [i \in 1..(half + 1) |-> PassNode(q, i)]
    BY <2>1
  <2>6. all = both
    <3> HIDE DEF all, half, n, pairs, last
    <3> QED
      BY <2>4, <2>5
  <2> QED
    BY <2>2, <2>3, <2>6
<1>5. Pass(q) = all
  BY <1>1, <1>3, <1>4
<1>6. IsQueue(all)
  <2>1. DOMAIN all = 1..n /\ all = [i \in 1..n |-> all[i]]
    OBVIOUS
  <2> HIDE DEF all, n
  <2> QED
    BY <1>1, <2>1, FunctionIsQueue
<1> QED
  BY <1>5, <1>6

(* A node moved from the front to the back.                                *)
LEMMA MovedToBack ==
    ASSUME NEW q, IsQueue(q), Len(q) >= 1
    PROVE  Append(Tail(q), q[1])
             = [i \in 1..Len(q) |-> IF i < Len(q) THEN q[i + 1] ELSE q[1]]
<1> DEFINE t == Tail(q)
<1>1. t = [i \in 1..(Len(q) - 1) |-> q[i + 1]]
  <2>1. q \in Seq({q[i] : i \in 1..Len(q)})
    BY DEF IsQueue
  <2>2. q # <<>>
    BY DEF IsQueue
  <2>3. t \in Seq({q[i] : i \in 1..Len(q)})
    BY <2>1, <2>2
  <2>4. Len(t) = Len(q) - 1
    BY <2>1, <2>2
  <2>5. \A i \in 1..(Len(q) - 1) : t[i] = q[i + 1]
    BY <2>1, <2>2
  <2> HIDE DEF t
  <2>6. t = [i \in 1..Len(t) |-> t[i]]
    BY <2>3
  <2> QED
    BY <2>4, <2>5, <2>6
<1>2. Len(q) - 1 \in Nat
  BY DEF IsQueue
<1> HIDE DEF t
<1>3. Len(t) = Len(q) - 1
  BY <1>1, <1>2, FunctionIsQueue
<1>4. Append(t, q[1]) = [i \in 1..(Len(t) + 1) |-> IF i = Len(t) + 1 THEN q[1] ELSE t[i]]
  OBVIOUS
<1>5. Len(t) + 1 = Len(q)
  BY <1>3 DEF IsQueue
<1> QED
  BY <1>1, <1>4, <1>5 DEF IsQueue, t

(* A pair taken from the front, its hash put at the back.                  *)
LEMMA PairToBack ==
    ASSUME NEW q, IsQueue(q), Len(q) >= 2, NEW x
    PROVE  Append(SubSeq(q, 3, Len(q)), x)
             = [i \in 1..(Len(q) - 1) |-> IF i < Len(q) - 1 THEN q[i + 2] ELSE x]
BY DEF IsQueue

Pairings(after, q, m) ==
    after = [n \in 0..m |-> IF n = 0 THEN q ELSE TakesPair(after[n - 1])]

LEMMA PairingsExist ==
    ASSUME NEW q, NEW m \in Nat
    PROVE  \E after : Pairings(after, q, m)
<1> DEFINE G == {n \in Nat : \E after : Pairings(after, q, n)}
<1>1. 0 \in G
  <2>1. Pairings([n \in 0..0 |-> q], q, 0)
    BY DEF Pairings
  <2> QED
    BY <2>1
<1>2. ASSUME NEW k \in Nat, k \in G
      PROVE  k + 1 \in G
  <2>1. PICK f : Pairings(f, q, k)
    BY <1>2
  <2> DEFINE g == [n \in 0..(k + 1) |-> IF n <= k THEN f[n] ELSE TakesPair(f[k])]
  <2>2. \A n \in 0..(k + 1) : g[n] = IF n = 0 THEN q ELSE TakesPair(g[n - 1])
    BY <2>1 DEF Pairings
  <2>3. Pairings(g, q, k + 1)
    BY <2>2 DEF Pairings
  <2> QED
    BY <2>3
<1> HIDE DEF G
<1>3. \A n \in Nat : n \in G
  BY <1>1, <1>2, ByCounting
<1> QED
  BY <1>3 DEF G

(* What n pairs of a pass leave.                                           *)
Paired(q, n) ==
    [i \in 1..(Len(q) - n) |->
       IF i <= Len(q) - 2*n THEN q[2*n + i]
       ELSE Hash(q[2*(i - (Len(q) - 2*n)) - 1], q[2*(i - (Len(q) - 2*n))])]

LEMMA PairingsAre ==
    ASSUME NEW q, IsQueue(q), NEW m \in Nat, 2*m <= Len(q), NEW after, Pairings(after, q, m)
    PROVE  \A n \in 0..m : after[n] = Paired(q, n)
<1> DEFINE G == {n \in Nat : n <= m => after[n] = Paired(q, n)}
<1>1. 0 \in G
  <2>1. after[0] = q
    BY DEF Pairings
  <2>2. Paired(q, 0) = q
    BY DEF Paired, IsQueue
  <2> QED
    BY <2>1, <2>2
<1>2. ASSUME NEW n \in Nat, n \in G, n + 1 <= m
      PROVE  after[n + 1] = Paired(q, n + 1)
  <2> DEFINE left == Paired(q, n)
             L    == Len(q) - n
  <2>1. after[n + 1] = TakesPair(left)
    BY <1>2 DEF Pairings
  <2>2. L \in Nat /\ L >= 2 /\ 2 <= Len(q) - 2*n
    BY <1>2 DEF IsQueue
  <2>3. DOMAIN left = 1..L /\ left = [i \in 1..L |-> left[i]]
    BY DEF Paired
  <2>4. IsQueue(left) /\ Len(left) = L
    BY <2>2, <2>3, FunctionIsQueue
  <2>5. left[1] = q[2*(n + 1) - 1] /\ left[2] = q[2*(n + 1)]
    BY <2>2 DEF Paired, IsQueue
  <2>6. TakesPair(left) = [i \in 1..(L - 1) |-> IF i < L - 1 THEN left[i + 2]
                                                ELSE Hash(left[1], left[2])]
    <3> HIDE DEF left, L
    <3> QED
      BY <2>2, <2>4, PairToBack DEF TakesPair
  <2>7. ASSUME NEW i \in 1..(L - 1)
        PROVE  (IF i < L - 1 THEN left[i + 2] ELSE Hash(left[1], left[2]))
                 = IF i <= Len(q) - 2*(n + 1) THEN q[2*(n + 1) + i]
                   ELSE Hash(q[2*(i - (Len(q) - 2*(n + 1))) - 1],
                             q[2*(i - (Len(q) - 2*(n + 1)))])
    <3>1. Len(q) \in Nat
      BY DEF IsQueue
    <3>2. CASE i = L - 1
      <4>1. i - (Len(q) - 2*(n + 1)) = n + 1 /\ ~(i <= Len(q) - 2*(n + 1))
        BY <3>1, <3>2
      <4> QED
        BY <2>5, <3>1, <3>2, <4>1
    <3>3. CASE i < L - 1 /\ i + 2 <= Len(q) - 2*n
      <4>1. left[i + 2] = q[2*n + (i + 2)]
        BY <2>2, <3>1, <3>3 DEF Paired
      <4>2. 2*n + (i + 2) = 2*(n + 1) + i /\ i <= Len(q) - 2*(n + 1)
        BY <3>1, <3>3
      <4> QED
        BY <3>3, <4>1, <4>2
    <3>4. CASE i < L - 1 /\ ~(i + 2 <= Len(q) - 2*n)
      <4>1. left[i + 2] = Hash(q[2*((i + 2) - (Len(q) - 2*n)) - 1],
                               q[2*((i + 2) - (Len(q) - 2*n))])
        BY <2>2, <3>1, <3>4 DEF Paired
      <4>2. /\ (i + 2) - (Len(q) - 2*n) = i - (Len(q) - 2*(n + 1))
            /\ ~(i <= Len(q) - 2*(n + 1))
        BY <3>1, <3>4
      <4> QED
        BY <3>4, <4>1, <4>2
    <3> QED
      BY <2>2, <3>1, <3>2, <3>3, <3>4
  <2>8. L - 1 = Len(q) - (n + 1)
    BY DEF IsQueue
  <2> HIDE DEF left, L
  <2> QED
    BY <2>1, <2>6, <2>7, <2>8 DEF Paired
<1>3. \A n \in Nat : n \in G => n + 1 \in G
  BY <1>2
<1> HIDE DEF G
<1>4. \A n \in Nat : n \in G
  BY <1>1, <1>3, ByCounting
<1> QED
  BY <1>4 DEF G

(* A pass comes to the same in both.                                       *)
LEMMA PassesAgree ==
    ASSUME NEW q, IsQueue(q)
    PROVE  ContractPass(q) = Pass(q)
<1> DEFINE half  == Len(q) \div 2
           after == CHOOSE f : Pairings(f, q, half)
           left  == after[half]
           L     == Len(q) - half
<1>1. half \in Nat /\ 2*half <= Len(q) /\ Len(q) \in Nat /\ L \in Nat
  BY DEF IsQueue
<1>2. ContractPass(q) = IF Len(q) % 2 = 1 THEN Append(Tail(left), left[1]) ELSE left
  BY DEF ContractPass, Pairings
<1>3. Pairings(after, q, half)
  <2> HIDE DEF half
  <2> QED
    BY <1>1, PairingsExist
<1>4. left = Paired(q, half)
  <2> HIDE DEF half, after
  <2>1. half \in 0..half
    BY <1>1
  <2> QED
    BY <1>1, <1>3, <2>1, PairingsAre
<1>5. L = (Len(q) + 1) \div 2
  BY <1>1
<1>6. Pass(q) = [i \in 1..L |-> PassNode(q, i)]
  BY <1>5, PassIs
<1> HIDE DEF after, left
<1>7. CASE Len(q) % 2 = 0
  <2>1. Len(q) = 2*half
    BY <1>1, <1>7
  <2>2. ASSUME NEW i \in 1..L
        PROVE  Paired(q, half)[i] = PassNode(q, i)
    <3> HIDE DEF half
    <3> QED
      BY <1>1, <2>1, <2>2 DEF Paired, PassNode
  <2>3. Paired(q, half) = [i \in 1..L |-> Paired(q, half)[i]]
    BY DEF Paired
  <2>4. ContractPass(q) = Paired(q, half)
    BY <1>2, <1>4, <1>7
  <2> DEFINE paired == Paired(q, half)
  <2> HIDE DEF half, L, paired
  <2>5. \A i \in 1..L : paired[i] = PassNode(q, i)
    BY <2>2 DEF paired
  <2>6. paired = [i \in 1..L |-> paired[i]]
    BY <2>3 DEF paired
  <2>7. paired = Pass(q)
    BY <1>6, <2>5, <2>6
  <2> QED
    BY <2>4, <2>7 DEF paired
<1>8. CASE Len(q) % 2 = 1
  <2>1. Len(q) = 2*half + 1 /\ L = half + 1
    BY <1>1, <1>8
  <2>2. IsQueue(left) /\ Len(left) = L
    <3>1. DOMAIN left = 1..L /\ left = [i \in 1..L |-> left[i]]
      BY <1>4 DEF Paired
    <3> HIDE DEF L, half
    <3> QED
      BY <1>1, <3>1, FunctionIsQueue
  <2>3. Append(Tail(left), left[1]) = [i \in 1..L |-> IF i < L THEN left[i + 1] ELSE left[1]]
    <3> HIDE DEF L, half
    <3> QED
      BY <1>1, <2>1, <2>2, MovedToBack
  <2>4. ASSUME NEW i \in 1..L
        PROVE  (IF i < L THEN left[i + 1] ELSE left[1])
                 = PassNode(q, i)
    <3> HIDE DEF half, L
    <3>1. CASE i = L
      <4>1. left[1] = q[2*half + 1]
        BY <1>1, <1>4, <2>1 DEF Paired, L
      <4> QED
        BY <1>1, <2>1, <3>1, <4>1 DEF PassNode
    <3>2. CASE i < L
      <4>1. left[i + 1] = Hash(q[2*((i + 1) - (Len(q) - 2*half)) - 1],
                               q[2*((i + 1) - (Len(q) - 2*half))])
        BY <1>1, <1>4, <2>1, <3>2 DEF Paired, L
      <4>2. (i + 1) - (Len(q) - 2*half) = i /\ 2*i <= Len(q)
        BY <1>1, <2>1, <3>2
      <4> QED
        BY <3>2, <4>1, <4>2 DEF PassNode
    <3> QED
      BY <1>1, <3>1, <3>2
  <2> HIDE DEF half, L
  <2> QED
    BY <1>2, <1>6, <1>8, <2>3, <2>4
<1> QED
  BY <1>1, <1>7, <1>8

Passings(after, q, m) ==
    after = [n \in 0..m |-> IF n = 0 THEN q ELSE Pass(after[n - 1])]

ContractPassings(after, q, m) ==
    after = [n \in 0..m |-> IF n = 0 THEN q ELSE ContractPass(after[n - 1])]

LEMMA PassingsExist ==
    ASSUME NEW q, NEW m \in Nat
    PROVE  \E after : Passings(after, q, m)
<1> DEFINE G == {n \in Nat : \E after : Passings(after, q, n)}
<1>1. 0 \in G
  <2>1. Passings([n \in 0..0 |-> q], q, 0)
    BY DEF Passings
  <2> QED
    BY <2>1
<1>2. ASSUME NEW k \in Nat, k \in G
      PROVE  k + 1 \in G
  <2>1. PICK f : Passings(f, q, k)
    BY <1>2
  <2> DEFINE g == [n \in 0..(k + 1) |-> IF n <= k THEN f[n] ELSE Pass(f[k])]
  <2>2. \A n \in 0..(k + 1) : g[n] = IF n = 0 THEN q ELSE Pass(g[n - 1])
    BY <2>1 DEF Passings
  <2>3. Passings(g, q, k + 1)
    BY <2>2 DEF Passings
  <2> QED
    BY <2>3
<1> HIDE DEF G
<1>3. \A n \in Nat : n \in G
  BY <1>1, <1>2, ByCounting
<1> QED
  BY <1>3 DEF G

(* Every pass of either leaves a queue.                                    *)
LEMMA PassingsAreQueues ==
    ASSUME NEW q, IsQueue(q), NEW m \in Nat, NEW after,
           Passings(after, q, m) \/ ContractPassings(after, q, m)
    PROVE  \A n \in 0..m : IsQueue(after[n])
<1> DEFINE G == {n \in Nat : n <= m => IsQueue(after[n])}
<1>1. 0 \in G
  BY DEF Passings, ContractPassings
<1>2. ASSUME NEW n \in Nat, n \in G, n + 1 <= m
      PROVE  IsQueue(after[n + 1])
  <2>1. IsQueue(after[n])
    BY <1>2
  <2>2. after[n + 1] = Pass(after[n]) \/ after[n + 1] = ContractPass(after[n])
    BY <1>2 DEF Passings, ContractPassings
  <2> QED
    BY <2>1, <2>2, PassIs, PassesAgree
<1>3. \A n \in Nat : n \in G => n + 1 \in G
  BY <1>2
<1> HIDE DEF G
<1>4. \A n \in Nat : n \in G
  BY <1>1, <1>3, ByCounting
<1> QED
  BY <1>4 DEF G

(* Passes of the one are passes of the other.                              *)
LEMMA PassingsAgree ==
    ASSUME NEW q, IsQueue(q), NEW m \in Nat, NEW after
    PROVE  Passings(after, q, m) <=> ContractPassings(after, q, m)
<1>1. ASSUME Passings(after, q, m) \/ ContractPassings(after, q, m), NEW n \in 0..m, n # 0
      PROVE  Pass(after[n - 1]) = ContractPass(after[n - 1])
  <2>1. n - 1 \in 0..m
    BY <1>1
  <2>2. IsQueue(after[n - 1])
    BY <1>1, <2>1, PassingsAreQueues
  <2> QED
    BY <2>2, PassesAgree
<1>2. ASSUME Passings(after, q, m)
      PROVE  ContractPassings(after, q, m)
  BY <1>1, <1>2 DEF Passings, ContractPassings
<1>3. ASSUME ContractPassings(after, q, m)
      PROVE  Passings(after, q, m)
  BY <1>1, <1>3 DEF Passings, ContractPassings
<1> QED
  BY <1>2, <1>3

(* There is only one way through the passes.                               *)
LEMMA PassingsAreOne ==
    ASSUME NEW q, NEW m \in Nat, NEW f, NEW g, Passings(f, q, m), Passings(g, q, m)
    PROVE  f = g
<1> DEFINE G == {n \in Nat : n <= m => f[n] = g[n]}
<1>1. 0 \in G
  BY DEF Passings
<1>2. ASSUME NEW n \in Nat, n \in G, n + 1 <= m
      PROVE  f[n + 1] = g[n + 1]
  <2>1. f[n] = g[n]
    BY <1>2
  <2>2. f[n + 1] = Pass(f[n]) /\ g[n + 1] = Pass(g[n])
    BY <1>2 DEF Passings
  <2> QED
    BY <2>1, <2>2
<1>3. \A n \in Nat : n \in G => n + 1 \in G
  BY <1>2
<1> HIDE DEF G
<1>4. \A n \in Nat : n \in G
  BY <1>1, <1>3, ByCounting
<1>5. \A n \in 0..m : f[n] = g[n]
  BY <1>4 DEF G
<1>6. f = [n \in 0..m |-> f[n]] /\ g = [n \in 0..m |-> g[n]]
  BY DEF Passings
<1> QED
  BY <1>5, <1>6

(* So the folds agree on every queue.                                      *)
LEMMA FoldsAgree ==
    ASSUME NEW q, IsQueue(q)
    PROVE  ContractFold(q) = Fold(q)
<1> DEFINE m == Len(q)
           f == CHOOSE after : Passings(after, q, m)
           g == CHOOSE after : ContractPassings(after, q, m)
<1>1. m \in Nat
  BY DEF IsQueue
<1>2. Fold(q) = f[m][1] /\ ContractFold(q) = g[m][1]
  BY DEF Fold, ContractFold, Passings, ContractPassings
<1> HIDE DEF m
<1>3. Passings(f, q, m)
  BY <1>1, PassingsExist
<1>4. ContractPassings(g, q, m)
  <2>1. ContractPassings(f, q, m)
    BY <1>1, <1>3, PassingsAgree
  <2> HIDE DEF f
  <2> QED
    BY <2>1
<1> HIDE DEF f, g
<1>5. Passings(g, q, m)
  BY <1>1, <1>4, PassingsAgree
<1>6. f = g
  BY <1>1, <1>3, <1>5, PassingsAreOne
<1> QED
  BY <1>2, <1>6

(* Doubling from one gets past any number.                                 *)
LEMMA NextPow2Is ==
    ASSUME NEW n \in Nat \ {0}
    PROVE  NextPow2(n) \in 1..(2 * n)
<1> DEFINE S        == 1..(2 * n)
           Done     == {p \in S : p >= n}
           result   == [p \in S |-> p]
           next     == [p \in S |-> 2 * p]
           size     == [p \in S |-> 2 * n - p]
           Up(f)    == f = [p \in S |-> IF p >= n THEN p ELSE f[2 * p]]
           up       == CHOOSE f : Up(f)
<1>1. \A p \in S : size[p] \in Nat
  OBVIOUS
<1>2. \A p \in S : p \notin Done => next[p] \in S /\ size[next[p]] < size[p]
  <2>1. ASSUME NEW p \in S, p \notin Done
        PROVE  next[p] \in S /\ size[next[p]] < size[p]
    <3>1. p < n /\ 2 * p \in S /\ next[p] = 2 * p
      BY <2>1
    <3>2. size[p] = 2 * n - p /\ size[2 * p] = 2 * n - 2 * p
      BY <3>1
    <3> QED
      BY <3>1, <3>2
  <2> QED
    BY <2>1
<1>3. \E f : Loops(f, S, Done, result, next)
  <2> HIDE DEF S, Done, result, next, size
  <2> QED
    BY <1>1, <1>2, LoopsEnd
<1>4. \E f : Up(f)
  <2>1. PICK f : f = [p \in S |-> IF p \in Done THEN result[p] ELSE f[next[p]]]
    BY <1>3 DEF Loops
  <2>2. \A p \in S : (IF p \in Done THEN result[p] ELSE f[next[p]])
                      = IF p >= n THEN p ELSE f[2 * p]
    OBVIOUS
  <2>3. Up(f)
    <3> HIDE DEF Done, result, next, S
    <3> QED
      BY <2>1, <2>2
  <2> QED
    BY <2>3
<1>5. Up(up)
  <2> HIDE DEF Up
  <2> QED
    BY <1>4
<1>6. NextPow2(n) = up[1]
  BY DEF NextPow2
<1> HIDE DEF up
<1> DEFINE G == {k \in Nat : \A p \in S : 2 * n - p <= k => up[p] \in S}
<1>7. 0 \in G
  <2>1. ASSUME NEW p \in S, 2 * n - p <= 0
        PROVE  up[p] \in S
    <3>1. p >= n
      BY <2>1
    <3> QED
      BY <1>5, <3>1
  <2> QED
    BY <2>1
<1>8. ASSUME NEW k \in Nat, k \in G
      PROVE  k + 1 \in G
  <2>1. ASSUME NEW p \in S, 2 * n - p <= k + 1
        PROVE  up[p] \in S
    <3>1. CASE p >= n
      BY <1>5, <3>1
    <3>2. CASE p < n
      <4>1. 2 * p \in S /\ 2 * n - 2 * p <= k
        BY <2>1, <3>2
      <4>2. up[2 * p] \in S
        BY <1>8, <4>1
      <4>3. up[p] = up[2 * p]
        BY <1>5, <3>2
      <4> QED
        BY <4>2, <4>3
    <3> QED
      BY <3>1, <3>2
  <2> QED
    BY <2>1
<1>9. \A k \in Nat : k \in G
  <2> HIDE DEF G
  <2> QED
    BY <1>7, <1>8, ByCounting
<1>10. 1 \in S /\ 2 * n \in Nat /\ 2 * n - 1 <= 2 * n
  OBVIOUS
<1>11. up[1] \in S
  BY <1>9, <1>10
<1> QED
  BY <1>6, <1>11

(* The padded file has a length.                                           *)
LEMMA PaddedIsNat ==
    ASSUME NEW n \in Nat \ {0}
    PROVE  PaddedChunkCount(n) \in Nat /\ ContractPadded(n) = PaddedChunkCount(n)
<1> DEFINE p2   == NextPow2(n)
           unit == IF p2 >= 16 THEN p2 \div 16 ELSE 1
<1>1. p2 \in Nat
  BY NextPow2Is
<1> HIDE DEF p2
<1>2. unit \in Nat \ {0}
  BY <1>1
<1> HIDE DEF unit
<1>3. CeilDiv(n, unit) \in Nat
  BY <1>2 DEF CeilDiv
<1>4. CeilDiv(n, unit) * unit \in Nat
  BY <1>2, <1>3
<1>5. /\ PaddedChunkCount(n) = IF p2 = n THEN n ELSE CeilDiv(n, unit) * unit
      /\ ContractPadded(n) = IF p2 = n THEN n ELSE CeilDiv(n, unit) * unit
  BY DEF PaddedChunkCount, ContractPadded, p2, unit
<1> QED
  BY <1>4, <1>5

(* Every file has one root, whichever computes it (index.ts, ZgMerkle.sol).*)
THEOREM RootsAgree ==
    ASSUME NEW file, file.chunks \in Nat \ {0}
    PROVE  ZgMerkleRoot(file) = ContractRoot(file)
<1> DEFINE padded   == PaddedChunkCount(file.chunks)
           leaves   == Leaves(file)
           number   == CeilDiv(padded, SegmentChunks)
           Count(s) == IF padded - s * SegmentChunks > SegmentChunks
                       THEN SegmentChunks ELSE padded - s * SegmentChunks
           Part(s)  == [c \in 1..Count(s - 1) |-> Leaf(file, (s - 1) * SegmentChunks + c)]
           Cut(s)   == SubSeq(leaves, (s - 1) * SegmentChunks + 1,
                              IF s * SegmentChunks < Len(leaves) THEN s * SegmentChunks
                              ELSE Len(leaves))
<1>1. padded \in Nat /\ ContractPadded(file.chunks) = padded /\ SegmentChunks \in Nat \ {0}
  BY PaddedIsNat, MerkleAssumption
<1>2. /\ leaves = [i \in 1..padded |-> Leaf(file, i)]
      /\ Len(leaves) = padded
  BY <1>1 DEF Leaves
<1>3. ContractRoot(file) = ContractFold([s \in 1..number |-> ContractFold(Part(s))])
  BY <1>1 DEF ContractRoot
<1>4. ZgMerkleRoot(file) = Fold([s \in 1..number |-> Fold(Cut(s))])
  <2>1. Segments(leaves) = [s \in 1..number |-> Cut(s)]
    BY <1>2 DEF Segments
  <2> HIDE DEF Cut, number, leaves
  <2>2. DOMAIN Segments(leaves) = 1..number /\ \A s \in 1..number : Segments(leaves)[s] = Cut(s)
    BY <2>1
  <2> QED
    BY <2>2 DEF ZgMerkleRoot, leaves
<1> HIDE DEF padded, leaves
<1>5. number \in Int
  BY <1>1 DEF CeilDiv
<1>6. ASSUME NEW s \in 1..number
      PROVE  Fold(Cut(s)) = ContractFold(Part(s))
  <2> DEFINE k == (s - 1) * SegmentChunks
  <2>1. k \in Nat /\ s * SegmentChunks = k + SegmentChunks /\ s \in Nat
    BY <1>1, <1>5
  <2> HIDE DEF number
  <2> DEFINE end == IF k + SegmentChunks < padded THEN k + SegmentChunks ELSE padded
             count == IF padded - k > SegmentChunks THEN SegmentChunks ELSE padded - k
  <2>2. Cut(s) = SubSeq(leaves, k + 1, end) /\ Part(s) = [c \in 1..count |-> Leaf(file, k + c)]
    BY <1>2, <2>1
  <2> HIDE DEF k
  <2>3. count = end - k /\ end <= padded /\ end \in Int /\ count \in Int
    BY <1>1, <2>1
  <2> HIDE DEF end, count, Cut, Part
  <2>4. Part(s) = Cut(s)
    BY <1>1, <1>2, <2>1, <2>2, <2>3
  <2>5. IsQueue(Part(s))
    <3>1. DOMAIN Part(s) = 1..count /\ Part(s) = [c \in 1..count |-> Part(s)[c]]
      BY <2>2
    <3> QED
      BY <2>3, <3>1, RangeIsQueue
  <2> QED
    BY <2>4, <2>5, FoldsAgree
<1> HIDE DEF Cut, Part
<1>7. IsQueue([s \in 1..number |-> Fold(Cut(s))])
  <2> DEFINE roots == [s \in 1..number |-> Fold(Cut(s))]
  <2>1. DOMAIN roots = 1..number /\ roots = [s \in 1..number |-> roots[s]]
    OBVIOUS
  <2> HIDE DEF number, roots
  <2>2. IsQueue(roots)
    BY <1>5, <2>1, RangeIsQueue
  <2> QED
    BY <2>2 DEF roots
<1>8. [s \in 1..number |-> Fold(Cut(s))] = [s \in 1..number |-> ContractFold(Part(s))]
  BY <1>6
<1> QED
  BY <1>3, <1>4, <1>7, <1>8, FoldsAgree
-----------------------------------------------------------------------------
(* The inductive invariant.                                                *)

LoadType == [at : {"none", "asked", "answered"}, file : Files \cup {Nothing, Failure}]

StoreTypeOK ==
    /\ cache \in [Documents -> Files \cup {NotCached, Null}]
    /\ load \in [Documents -> LoadType]
    /\ asked \in [Documents -> Nat]
    /\ failed \in [Documents -> Nat]

(* A fetch that runs, and a document that is known, are each paid for by   *)
(* one fetch more than threw; with neither, every fetch there was threw.   *)
Fetched(d) ==
    /\ asked[d] <= failed[d] + 1
    /\ load[d] # NoLoad => cache[d] = NotCached
    /\ load[d] = NoLoad /\ cache[d] = NotCached => asked[d] <= failed[d]

(* What memory has of a document is the document, or the indexer's word in *)
(* this session that there is none.                                        *)
Vouched(value, d) == value = Parsed(d) \/ (value = Null /\ d \in denied)

Believed(d) == cache[d] = NotCached \/ Vouched(cache[d], d)

StoreInv == StoreTypeOK /\ \A d \in Documents : Fetched(d) /\ Believed(d)

Heard == {"none", "asked", "known", "lost"}

ReadingType ==
    [at : {"none", "batch", "singles", "storage", "token", "read", "failed"},
     spec : Files \cup {Nothing, Null}, token : Heard]

(* What a page may show of a document, when the indexer has denied these.  *)
Shows(spec, d, none) == spec = SpecOf(Parsed(d)) \/ (spec = Null /\ d \in none)

(* A reading has nothing of its document yet, or what a page may show.     *)
Holds(read, d, none) ==
    /\ read \in ReadingType
    /\ (read.spec = Nothing /\ read.at # "read") \/ Shows(read.spec, d, none)

(* Every reading there is, or will be.                                     *)
Readings(rd, none) ==
    /\ rd = [w \in Attempts |-> rd[w]]
    /\ \A w \in Attempts : Holds(rd[w], SpecRoot[w[1]], none)

PageType ==
    [at : {"idle", "reading", "again", "shown"}, try : Nat, created : Heard,
     shown : Files \cup {Nothing, Null, Failure}]

PageTypeOK ==
    /\ page \in [Pages -> PageType]
    /\ \A p \in Pages : page[p].try <= Retries[p]

SessionInv == StoreInv /\ Readings(reading, denied) /\ PageTypeOK /\ OnlyProvedIsShown

ReadInv == GateInv /\ SessionInv

-----------------------------------------------------------------------------
(* The store.                                                              *)

(* The markers are told apart from each other and from every file.         *)
LEMMA MarkersDiffer ==
    /\ NotCached # Null /\ NotCached # Failure /\ Null # Failure /\ Null # Nothing
    /\ {Nothing, NotCached, Null, Failure} \cap Files = {}
    /\ NoLoad.at = "none" /\ Asked.at = "asked" /\ NoLoad # Asked
    /\ NoLoad \in LoadType /\ Asked \in LoadType
    /\ SpecOf(Null) = Null
<1>1. /\ NotCached.shape = "not cached" /\ Null.shape = "null"
      /\ Failure.shape = "failure" /\ Nothing.shape = "nothing"
  BY DEF NotCached, Null, Failure, Nothing
<1>2. NotCached # Null /\ NotCached # Failure /\ Null # Failure /\ Null # Nothing
  BY <1>1
<1>3. {Nothing, NotCached, Null, Failure} \cap Files = {}
  BY StoreAssumption
<1>4. SpecOf(Null) = Null
  BY DEF SpecOf
<1> QED
  BY <1>2, <1>3, <1>4 DEF NoLoad, Asked, LoadType

(* A text that proves a document is that document.                         *)
LEMMA ProvedIsItself ==
    ASSUME NEW d \in Documents, NEW text, Proves(text, d)
    PROVE  text = d /\ text \in Texts
<1>1. text \in Texts
  BY DEF Proves, Proved
<1> QED
  BY <1>1, StoreAssumption

(* What a document reads as is never a marker of what is not known.        *)
LEMMA ParsedIsKnown ==
    ASSUME NEW d \in Documents
    PROVE  /\ Parsed(d) \in {d, Null} /\ Parsed(d) # NotCached /\ Parsed(d) # Failure
           /\ SpecOf(Parsed(d)) \in {d, Null} /\ SpecOf(Parsed(d)) # Nothing
           /\ d \in Files /\ d # Failure
<1>1. d \in Files
  BY StoreAssumption
<1>2. d \notin {Nothing, NotCached, Null, Failure}
  BY <1>1, MarkersDiffer
<1> QED
  BY <1>1, <1>2, MarkersDiffer DEF Parsed, SpecOf

(* The disk gives the document or nothing.                                 *)
LEMMA DiskIsProved ==
    ASSUME NEW d \in Documents
    PROVE  ReadPersisted(d) \in {NotCached, Parsed(d)}
BY ProvedIsItself DEF ReadPersisted

(* Asking starts a fetch only where none runs and nothing is known.        *)
LEMMA GetKeeps ==
    ASSUME StoreInv, NEW D \in SUBSET Documents, Get(D)
    PROVE  StoreInv' /\ denied' = denied
<1> DEFINE misses == {d \in D : cache[d] = NotCached /\ load[d] = NoLoad}
           starts == {d \in D : cache[d] = NotCached /\ ~Joins(d) /\ ReadPersisted(d) = NotCached}
<1>1. /\ cache' = [d \in Documents |-> IF d \in misses THEN ReadPersisted(d) ELSE cache[d]]
      /\ load' = [d \in Documents |-> IF d \in starts THEN Asked ELSE load[d]]
      /\ asked' = [d \in Documents |-> asked[d] + (IF d \in starts THEN 1 ELSE 0)]
      /\ UNCHANGED <<failed, denied>>
  BY DEF Get
<1>2. StoreTypeOK
  BY DEF StoreInv
<1>3. StoreTypeOK'
  <2>1. cache' \in [Documents -> Files \cup {NotCached, Null}]
    BY <1>1, <1>2, DiskIsProved, ParsedIsKnown DEF StoreTypeOK
  <2>2. load' \in [Documents -> LoadType]
    BY <1>1, <1>2, MarkersDiffer DEF StoreTypeOK
  <2>3. asked' \in [Documents -> Nat] /\ failed' \in [Documents -> Nat]
    BY <1>1, <1>2 DEF StoreTypeOK
  <2> QED
    BY <2>1, <2>2, <2>3 DEF StoreTypeOK
<1>4. ASSUME NEW d \in Documents
      PROVE  Fetched(d)' /\ Believed(d)'
  <2>1. /\ Fetched(d) /\ Believed(d)
        /\ asked[d] \in Nat /\ failed[d] \in Nat /\ failed'[d] = failed[d]
    BY <1>1, <1>2 DEF StoreInv, StoreTypeOK
  <2>2. CASE d \in starts
    <3>1. /\ cache[d] = NotCached /\ load[d] = NoLoad /\ cache'[d] = NotCached
          /\ load'[d] = Asked /\ asked'[d] = asked[d] + 1
      BY <1>1, <2>2 DEF Joins
    <3> QED
      BY <2>1, <3>1, MarkersDiffer DEF Fetched, Believed
  <2>3. CASE d \in misses \ starts
    <3>1. /\ cache[d] = NotCached /\ load[d] = NoLoad
          /\ ReadPersisted(d) # NotCached
          /\ cache'[d] = ReadPersisted(d)
          /\ load'[d] = NoLoad /\ asked'[d] = asked[d]
      BY <1>1, <2>1, <2>3 DEF Joins
    <3>2. cache'[d] = Parsed(d) /\ cache'[d] # NotCached
      BY <3>1, DiskIsProved
    <3> QED
      BY <2>1, <3>1, <3>2 DEF Fetched, Believed, Vouched
  <2>4. CASE d \notin misses
    <3>1. cache'[d] = cache[d] /\ load'[d] = load[d] /\ asked'[d] = asked[d]
      BY <1>1, <2>1, <2>4 DEF Joins
    <3> QED
      BY <1>1, <2>1, <3>1 DEF Fetched, Believed, Vouched
  <2> QED
    BY <2>2, <2>3, <2>4
<1> QED
  BY <1>1, <1>3, <1>4 DEF StoreInv

(* An answer that has arrived is believed by nobody yet.                   *)
LEMMA RespondsKeeps ==
    ASSUME StoreInv, NEW d \in Documents, Responds(d)
    PROVE  StoreInv'
<1>1. PICK file \in Files \cup {Failure} :
        /\ load[d].at = "asked"
        /\ load' = [load EXCEPT ![d] = [at |-> "answered", file |-> file]]
        /\ UNCHANGED <<cache, asked, failed, denied>>
  BY DEF Responds
<1>2. StoreTypeOK'
  BY <1>1 DEF StoreInv, StoreTypeOK, LoadType
<1>3. load[d] # NoLoad /\ load'[d] # NoLoad
  <2>1. load'[d].at = "answered"
    BY <1>1 DEF StoreInv, StoreTypeOK
  <2> QED
    BY <1>1, <2>1, MarkersDiffer
<1>4. \A e \in Documents \ {d} : load'[e] = load[e]
  BY <1>1 DEF StoreInv, StoreTypeOK
<1>5. \A e \in Documents : Fetched(e)' /\ Believed(e)'
  BY <1>1, <1>3, <1>4 DEF StoreInv, Fetched, Believed, Vouched
<1> QED
  BY <1>2, <1>5 DEF StoreInv

(* The result of a fetch: the document, a word that there is none, or a    *)
(* failure.                                                                *)
LEMMA ResultIs ==
    ASSUME NEW d \in Documents, NEW file
    PROVE  LET text == Decoded[file] IN
           \/ ResultOf(file, d) = Failure
           \/ file # Failure /\ ResultOf(file, d) = Parsed(d) /\ Proves(text, d)
           \/ ResultOf(file, d) = Null /\ ~Proves(text, d)
<1> DEFINE text == Decoded[file]
<1>1. CASE file = Failure
  BY <1>1 DEF ResultOf
<1>2. CASE file # Failure /\ Proves(text, d)
  <2>1. ResultOf(file, d) = Parsed(text)
    BY <1>2 DEF ResultOf
  <2> QED
    BY <1>2, <2>1, ProvedIsItself
<1>3. CASE file # Failure /\ ~Proves(text, d)
  BY <1>3 DEF ResultOf
<1> QED
  BY <1>1, <1>2, <1>3

(* What settles is kept only if proved, or if there is no document.        *)
LEMMA SettlesKeeps ==
    ASSUME StoreInv, NEW d \in Documents, Settles(d)
    PROVE  /\ StoreInv'
           /\ denied \subseteq denied'
           /\ LET result == ResultOf(load[d].file, d)
              IN \/ result = Failure
                 \/ result = Parsed(d)
                 \/ result = Null /\ d \in denied'
<1> DEFINE file   == load[d].file
           text   == Decoded[file]
           result == ResultOf(file, d)
<1>1. /\ load[d].at = "answered"
      /\ load' = [load EXCEPT ![d] = NoLoad]
      /\ cache' = [cache EXCEPT ![d] = IF result = Failure THEN NotCached ELSE result]
      /\ failed' = [failed EXCEPT ![d] = failed[d] + (IF result = Failure THEN 1 ELSE 0)]
      /\ denied' = IF result = Null /\ ~Proves(text, d) THEN denied \cup {d} ELSE denied
      /\ asked' = asked
  BY DEF Settles
<1>2. /\ StoreTypeOK /\ Fetched(d) /\ Believed(d)
      /\ asked[d] \in Nat /\ failed[d] \in Nat
  BY DEF StoreInv, StoreTypeOK
<1>3. \/ result = Failure
      \/ result = Parsed(d) /\ Proves(text, d)
      \/ result = Null /\ ~Proves(text, d)
  BY <1>2, ResultIs
<1> HIDE DEF file, text, result
<1>4. result = Failure \/ (result \in Files \cup {Null} /\ result # NotCached)
  BY <1>3, ParsedIsKnown, MarkersDiffer
<1>5. StoreTypeOK'
  BY <1>1, <1>2, <1>4, MarkersDiffer DEF StoreTypeOK
<1>6. denied \subseteq denied' /\ \A e \in Documents \ {d} : e \in denied' <=> e \in denied
  BY <1>1
<1>7. ASSUME NEW e \in Documents, e # d
      PROVE  Fetched(e)' /\ Believed(e)'
  <2>1. /\ load'[e] = load[e] /\ cache'[e] = cache[e] /\ failed'[e] = failed[e]
        /\ asked'[e] = asked[e] /\ Fetched(e) /\ Believed(e)
    BY <1>1, <1>2, <1>7 DEF StoreInv, StoreTypeOK
  <2> QED
    BY <1>6, <1>7, <2>1 DEF Fetched, Believed, Vouched
<1>8. /\ load'[d] = NoLoad
      /\ cache'[d] = IF result = Failure THEN NotCached ELSE result
      /\ failed'[d] = failed[d] + (IF result = Failure THEN 1 ELSE 0)
      /\ asked'[d] = asked[d]
  BY <1>1, <1>2 DEF StoreTypeOK
<1>9. ASSUME result # Failure
      PROVE  /\ result = Parsed(d) \/ (result = Null /\ d \in denied')
  BY <1>1, <1>3, <1>9
<1>10. Fetched(d)'
  BY <1>2, <1>4, <1>8 DEF Fetched
<1>11. Believed(d)'
  BY <1>8, <1>9 DEF Believed, Vouched
<1>12. \A e \in Documents : Fetched(e)' /\ Believed(e)'
  BY <1>7, <1>10, <1>11
<1> QED
  BY <1>5, <1>6, <1>9, <1>12 DEF StoreInv, file, text, result

-----------------------------------------------------------------------------
(* The readings and the pages.                                             *)

(* A try is a page's, and a page's current one is a try.                   *)
LEMMA AttemptsAre ==
    /\ \A w \in Attempts : w[1] \in Pages /\ SpecRoot[w[1]] \in Documents
    /\ PageTypeOK => \A p \in Pages : Current(p) \in Attempts /\ Current(p)[1] = p
<1>1. ASSUME NEW w \in Attempts
      PROVE  w[1] \in Pages /\ SpecRoot[w[1]] \in Documents
  <2>1. w[1] \in Pages
    BY DEF Attempts
  <2> QED
    BY <2>1, ReadsAssumption
<1>2. ASSUME PageTypeOK, NEW p \in Pages
      PROVE  Current(p) \in Attempts /\ Current(p)[1] = p
  <2>1. page[p].try \in 0..Retries[p]
    BY <1>2, ReadsAssumption DEF PageTypeOK, PageType
  <2> QED
    BY <2>1 DEF Current, Attempts
<1> QED
  BY <1>1, <1>2

(* What is asked of the gate are requests it knows.                        *)
LEMMA RequestsAreKnown ==
    ASSUME NEW w \in Attempts
    PROVE  Batch(w) \in Requests /\ \A i \in 1..Width[w[1]] : Call(w, i) \in Requests
BY ReadsAssumption DEF PageRequests

(* What may be shown of a document is the document or a null.              *)
LEMMA ShowsType ==
    ASSUME NEW d \in Documents, NEW none, NEW spec, Shows(spec, d, none)
    PROVE  spec \in Files \cup {Null} /\ spec # Nothing
BY ParsedIsKnown, MarkersDiffer DEF Shows

(* A reading that has its document ends as its token does.                 *)
LEMMA AwaitsHolds ==
    ASSUME NEW d \in Documents, NEW none, NEW read \in ReadingType,
           (read.spec = Nothing /\ read.at # "read") \/ Shows(read.spec, d, none)
    PROVE  Holds(Awaits(read), d, none)
<1>1. CASE read.spec = Nothing
  BY <1>1, ShowsType DEF Holds, Awaits
<1>2. CASE read.spec # Nothing
  <2> DEFINE at == IF read.token = "known" THEN "read"
                   ELSE IF read.token = "lost" THEN "failed" ELSE "token"
  <2>1. Awaits(read) = [read EXCEPT !.at = at]
    BY <1>2 DEF Awaits
  <2>2. at \in {"read", "failed", "token"}
    OBVIOUS
  <2> HIDE DEF at
  <2>3. Awaits(read) \in ReadingType /\ Awaits(read).spec = read.spec
    BY <2>1, <2>2 DEF ReadingType
  <2> QED
    BY <1>2, <2>3 DEF Holds
<1> QED
  BY <1>1, <1>2

(* One reading moves.                                                      *)
LEMMA ReadingMoves ==
    ASSUME Readings(reading, denied), denied' = denied,
           NEW w \in Attempts, NEW next, Holds(next, SpecRoot[w[1]], denied),
           reading' = [reading EXCEPT ![w] = next]
    PROVE  Readings(reading', denied')
<1>1. DOMAIN reading = Attempts
  BY DEF Readings
<1>2. reading' = [v \in Attempts |-> IF v = w THEN next ELSE reading[v]]
  BY <1>1
<1>3. reading' = [v \in Attempts |-> reading'[v]]
  BY <1>2
<1>4. \A v \in Attempts : Holds(reading'[v], SpecRoot[v[1]], denied')
  BY <1>2 DEF Readings
<1> QED
  BY <1>3, <1>4 DEF Readings

(* What the indexer has denied it goes on denying.                         *)
LEMMA HoldsStays ==
    ASSUME NEW read, NEW d, NEW none, NEW more, none \subseteq more, Holds(read, d, none)
    PROVE  Holds(read, d, more)
BY DEF Holds, Shows

(* A reading begun again, or given up.                                     *)
LEMMA ThrownType ==
    ASSUME PageTypeOK, NEW p \in Pages
    PROVE  /\ Thrown(p) \in PageType
           /\ Thrown(p).try <= Retries[p]
           /\ Thrown(p).at # "shown" \/ Thrown(p).shown = Failure
<1>1. /\ page[p] \in PageType
      /\ page[p].try <= Retries[p] /\ Retries[p] \in Nat /\ page[p].try \in Nat
  BY ReadsAssumption DEF PageTypeOK, PageType
<1>2. CASE page[p].try < Retries[p]
  <2>1. page[p].try + 1 \in Nat /\ page[p].try + 1 <= Retries[p]
    BY <1>1, <1>2
  <2>2. Thrown(p) = [page[p] EXCEPT !.at = "again", !.try = page[p].try + 1]
    BY <1>2 DEF Thrown
  <2> QED
    BY <1>1, <2>1, <2>2 DEF PageType
<1>3. CASE ~(page[p].try < Retries[p])
  <2>1. Thrown(p) = [page[p] EXCEPT !.at = "shown", !.shown = Failure]
    BY <1>3 DEF Thrown
  <2> QED
    BY <1>1, <2>1 DEF PageType
<1> QED
  BY <1>2, <1>3

(* A page turned over a reading shows a failure, or what the reading holds. *)
LEMMA TurnedIs ==
    ASSUME PageTypeOK, NEW p \in Pages, NEW created \in Heard,
           NEW none, NEW read, Holds(read, SpecRoot[p], none)
    PROVE  LET next == Turned(p, read, created) IN
           /\ next \in PageType /\ next.try <= Retries[p]
           /\ \/ next.at # "shown"
              \/ next = page[p]
              \/ next.shown = Failure
              \/ Shows(next.shown, SpecRoot[p], none)
<1> DEFINE next == Turned(p, read, created)
           lost == read.at = "failed" \/ (created = "lost" /\ (p \notin Lists \/ read.at = "read"))
<1>1. page[p] \in PageType /\ page[p].try <= Retries[p]
  BY DEF PageTypeOK
<1>2. CASE page[p].at # "reading"
  BY <1>1, <1>2 DEF Turned
<1>3. CASE page[p].at = "reading" /\ lost
  <2>1. next = Thrown(p)
    BY <1>3 DEF Turned
  <2> QED
    BY <2>1, ThrownType
<1>4. CASE page[p].at = "reading" /\ ~lost /\ read.at = "read" /\ created = "known"
  <2>1. next = [page[p] EXCEPT !.at = "shown", !.created = created, !.shown = read.spec]
    BY <1>4 DEF Turned
  <2>2. SpecRoot[p] \in Documents
    BY ReadsAssumption
  <2>3. Shows(read.spec, SpecRoot[p], none)
    BY <1>4 DEF Holds
  <2>4. read.spec \in Files \cup {Null}
    BY <2>2, <2>3, ShowsType
  <2> QED
    BY <1>1, <2>1, <2>3, <2>4 DEF PageType
<1>5. CASE page[p].at = "reading" /\ ~lost /\ ~(read.at = "read" /\ created = "known")
  <2>1. next = [page[p] EXCEPT !.created = created]
    BY <1>5 DEF Turned
  <2> QED
    BY <1>1, <1>5, <2>1 DEF PageType
<1> QED
  BY <1>2, <1>3, <1>4, <1>5

(* Pages turned over sound readings show what is vouched for.              *)
LEMMA PagesTurned ==
    ASSUME PageTypeOK, OnlyProvedIsShown, denied \subseteq denied',
           NEW rd, Readings(rd, denied'), NEW heard \in [Pages -> Heard],
           page' = [p \in Pages |-> Turned(p, rd[Current(p)], heard[p])]
    PROVE  PageTypeOK' /\ OnlyProvedIsShown'
<1> DEFINE next(p) == Turned(p, rd[Current(p)], heard[p])
<1>1. ASSUME NEW p \in Pages
      PROVE  /\ next(p) \in PageType /\ next(p).try <= Retries[p]
             /\ \/ next(p).at # "shown"
                \/ next(p) = page[p]
                \/ next(p).shown = Failure
                \/ Shows(next(p).shown, SpecRoot[p], denied')
  <2>1. Holds(rd[Current(p)], SpecRoot[p], denied')
    BY AttemptsAre DEF Readings
  <2>2. heard[p] \in Heard
    OBVIOUS
  <2> QED
    BY <2>1, <2>2, TurnedIs
<1>2. page' = [p \in Pages |-> next(p)]
  OBVIOUS
<1> HIDE DEF next
<1>3. PageTypeOK'
  BY <1>1, <1>2 DEF PageTypeOK
<1>4. OnlyProvedIsShown'
  <2>1. ASSUME NEW p \in Pages, page'[p].at = "shown"
        PROVE  \/ page'[p].shown = Failure
               \/ Shows(page'[p].shown, SpecRoot[p], denied')
    <3>1. page'[p] = next(p)
      BY <1>2
    <3>2. page[p].at = "shown" => page[p].shown = Failure \/ Shows(page[p].shown, SpecRoot[p], denied')
      BY DEF OnlyProvedIsShown, Shows
    <3> QED
      BY <1>1, <2>1, <3>1, <3>2
  <2> QED
    BY <2>1 DEF OnlyProvedIsShown, Shows
<1> QED
  BY <1>3, <1>4

(* The same, when it is the readings that moved and when it is the index.  *)
LEMMA PagesTurnKeeps ==
    ASSUME PageTypeOK, OnlyProvedIsShown, denied \subseteq denied',
           Readings(reading', denied'), PagesTurn
    PROVE  PageTypeOK' /\ OnlyProvedIsShown'
<1> DEFINE heard == [p \in Pages |-> page[p].created]
<1>1. heard \in [Pages -> Heard]
  BY DEF PageTypeOK, PageType
<1>2. page' = [p \in Pages |-> Turned(p, reading'[Current(p)], heard[p])]
  BY DEF PagesTurn
<1> HIDE DEF heard
<1> QED
  BY <1>1, <1>2, PagesTurned

LEMMA IndexTurnsKeeps ==
    ASSUME PageTypeOK, OnlyProvedIsShown, denied' = denied,
           Readings(reading, denied), NEW created \in Heard, IndexTurns(created)
    PROVE  PageTypeOK' /\ OnlyProvedIsShown'
<1> DEFINE heard == [p \in Pages |-> created]
<1>1. heard \in [Pages -> Heard]
  OBVIOUS
<1>2. page' = [p \in Pages |-> Turned(p, reading[Current(p)], heard[p])]
  BY DEF IndexTurns
<1> HIDE DEF heard
<1> QED
  BY <1>1, <1>2, PagesTurned

(* What is known of a document when a reading asks may be shown; what is   *)
(* not is waited for.                                                      *)
LEMMA MarketReadKeeps ==
    ASSUME SessionInv, NEW w \in Attempts, MarketRead(w)
    PROVE  SessionInv'
<1> DEFINE d     == SpecRoot[w[1]]
           known == Known(d)
           read  == [at |-> "storage",
                     spec |-> IF known = NotCached THEN Nothing ELSE SpecOf(known),
                     token |-> IF token = TokenKnown THEN "known" ELSE "asked"]
<1>1. d \in Documents
  BY AttemptsAre
<1>2. Get({d}) /\ reading' = [reading EXCEPT ![w] = Awaits(read)] /\ PagesTurn
  BY DEF MarketRead
<1>3. StoreInv' /\ denied' = denied
  BY <1>1, <1>2, GetKeeps DEF SessionInv
<1>4. known = NotCached \/ known = Parsed(d) \/ (known = Null /\ d \in denied)
  <2>1. Believed(d)
    BY <1>1 DEF SessionInv, StoreInv
  <2> QED
    BY <1>1, <2>1, DiskIsProved DEF Known, Believed, Vouched
<1> HIDE DEF known, d
<1>5. read.spec = Nothing \/ Shows(read.spec, d, denied)
  BY <1>4, MarkersDiffer DEF Shows
<1>6. read \in ReadingType /\ read.at # "read"
  <2>1. read.spec \in Files \cup {Nothing, Null}
    BY <1>1, <1>5, ShowsType
  <2>2. read.at = "storage" /\ read.token \in Heard
    BY DEF Heard
  <2> QED
    BY <2>1, <2>2 DEF ReadingType
<1> HIDE DEF read
<1>7. Holds(Awaits(read), d, denied)
  BY <1>1, <1>5, <1>6, AwaitsHolds
<1>8. Readings(reading', denied')
  BY <1>2, <1>3, <1>7, ReadingMoves DEF SessionInv, d
<1>9. PageTypeOK' /\ OnlyProvedIsShown'
  BY <1>2, <1>3, <1>8, PagesTurnKeeps DEF SessionInv
<1> QED
  BY <1>3, <1>8, <1>9 DEF SessionInv

(* Readings that waited for a document have what its fetch brought.        *)
LEMMA DocumentSettlesKeeps ==
    ASSUME SessionInv, NEW d \in Documents, DocumentSettles(d)
    PROVE  SessionInv'
<1> DEFINE result == ResultOf(load[d].file, d)
           next(w) == IF reading[w].at # "storage" \/ SpecRoot[w[1]] # d THEN reading[w]
                      ELSE IF result = Failure THEN [reading[w] EXCEPT !.at = "failed"]
                      ELSE Awaits([reading[w] EXCEPT !.spec = SpecOf(result)])
<1>1. Settles(d) /\ reading' = [w \in Attempts |-> next(w)] /\ PagesTurn
  BY DEF DocumentSettles
<1>2. /\ StoreInv' /\ denied \subseteq denied'
      /\ \/ result = Failure
         \/ result = Parsed(d)
         \/ result = Null /\ d \in denied'
  BY <1>1, SettlesKeeps DEF SessionInv
<1> HIDE DEF result
<1>3. result # Failure => Shows(SpecOf(result), d, denied')
  BY <1>2, MarkersDiffer DEF Shows
<1>4. ASSUME NEW w \in Attempts
      PROVE  Holds(next(w), SpecRoot[w[1]], denied')
  <2>1. Holds(reading[w], SpecRoot[w[1]], denied')
    BY <1>2, HoldsStays DEF SessionInv, Readings
  <2>2. CASE reading[w].at # "storage" \/ SpecRoot[w[1]] # d
    BY <2>1, <2>2
  <2>3. CASE reading[w].at = "storage" /\ SpecRoot[w[1]] = d /\ result = Failure
    <3>1. next(w) = [reading[w] EXCEPT !.at = "failed"]
      BY <2>3
    <3> HIDE DEF next
    <3> QED
      BY <2>1, <3>1 DEF Holds, ReadingType
  <2>4. CASE reading[w].at = "storage" /\ SpecRoot[w[1]] = d /\ result # Failure
    <3> DEFINE read == [reading[w] EXCEPT !.spec = SpecOf(result)]
    <3>1. next(w) = Awaits(read)
      BY <2>4
    <3>2. SpecOf(result) \in Files \cup {Null}
      BY <1>3, <2>4, ShowsType
    <3>3. read \in ReadingType /\ read.spec = SpecOf(result)
      BY <2>1, <3>2 DEF Holds, ReadingType
    <3> HIDE DEF next, read
    <3> QED
      BY <1>3, <2>4, <3>1, <3>3, AwaitsHolds
  <2> QED
    BY <2>2, <2>3, <2>4
<1> HIDE DEF next
<1>5. Readings(reading', denied')
  <2>1. reading' = [w \in Attempts |-> reading'[w]] /\ \A w \in Attempts : reading'[w] = next(w)
    BY <1>1
  <2> QED
    BY <1>4, <2>1 DEF Readings
<1>6. PageTypeOK' /\ OnlyProvedIsShown'
  BY <1>1, <1>2, <1>5, PagesTurnKeeps DEF SessionInv
<1> QED
  BY <1>2, <1>5, <1>6 DEF SessionInv

(* Nothing of the store, the readings or the pages moves.                  *)
LEMMA SessionStays ==
    ASSUME SessionInv, UNCHANGED <<storeVars, reading, page>>
    PROVE  SessionInv'
BY DEF SessionInv, StoreInv, StoreTypeOK, Fetched, Believed, Vouched, storeVars,
       PageTypeOK, OnlyProvedIsShown

LEMMA StoreStays ==
    ASSUME StoreInv, UNCHANGED storeVars
    PROVE  StoreInv' /\ denied' = denied
BY DEF StoreInv, StoreTypeOK, Fetched, Believed, Vouched, storeVars

(* Beginning asks for nothing of the store yet.                            *)
LEMMA BeginsKeeps ==
    ASSUME SessionInv, NEW p \in Pages, page[p].at # "shown", Begins(p)
    PROVE  SessionInv'
<1> DEFINE w == Current(p)
           next == [reading[w] EXCEPT !.at = "batch"]
<1>1. /\ UNCHANGED storeVars
      /\ reading' = [reading EXCEPT ![w] = next]
      /\ page' = [page EXCEPT ![p].at = "reading", ![p].created = "asked"]
  BY DEF Begins
<1>2. StoreInv' /\ denied' = denied
  BY <1>1, StoreStays DEF SessionInv
<1>3. w \in Attempts
  BY AttemptsAre DEF SessionInv
<1>4. Holds(next, SpecRoot[w[1]], denied)
  <2>1. Holds(reading[w], SpecRoot[w[1]], denied)
    BY <1>3 DEF SessionInv, Readings
  <2> HIDE DEF w
  <2> QED
    BY <2>1 DEF Holds, ReadingType
<1> HIDE DEF next, w
<1>5. Readings(reading', denied')
  BY <1>1, <1>2, <1>3, <1>4, ReadingMoves DEF SessionInv
<1>6. PageTypeOK' /\ OnlyProvedIsShown'
  BY <1>1, <1>2 DEF SessionInv, PageTypeOK, PageType, Heard, OnlyProvedIsShown
<1> QED
  BY <1>2, <1>5, <1>6 DEF SessionInv

(* A batch completes a reading or is taken apart.                          *)
LEMMA BatchAnswersKeeps ==
    ASSUME SessionInv, NEW w \in Attempts, BatchAnswers(w)
    PROVE  SessionInv'
<1>1. CASE MarketRead(w)
  BY <1>1, MarketReadKeeps
<1>2. CASE /\ reading' = [reading EXCEPT ![w].at = "singles"]
           /\ UNCHANGED <<storeVars, page, token, scan>>
  <2> DEFINE next == [reading[w] EXCEPT !.at = "singles"]
  <2>1. reading' = [reading EXCEPT ![w] = next]
    BY <1>2
  <2>2. StoreInv' /\ denied' = denied
    BY <1>2, StoreStays DEF SessionInv
  <2>3. Holds(next, SpecRoot[w[1]], denied)
    BY DEF SessionInv, Readings, Holds, ReadingType
  <2> HIDE DEF next
  <2>4. Readings(reading', denied')
    BY <2>1, <2>2, <2>3, ReadingMoves DEF SessionInv
  <2>5. PageTypeOK' /\ OnlyProvedIsShown'
    BY <1>2, <2>2 DEF SessionInv, PageTypeOK, OnlyProvedIsShown
  <2> QED
    BY <2>2, <2>4, <2>5 DEF SessionInv
<1> QED
  BY <1>1, <1>2 DEF BatchAnswers

(* A single call completes a reading, waits for the others, or ends it.    *)
LEMMA SingleAnswersKeeps ==
    ASSUME SessionInv, NEW w \in Attempts, NEW i \in 1..Width[w[1]], SingleAnswers(w, i)
    PROVE  SessionInv'
<1>1. CASE MarketRead(w)
  BY <1>1, MarketReadKeeps
<1>2. CASE UNCHANGED <<storeVars, page, reading, token, scan>>
  BY <1>2, SessionStays
<1>3. CASE /\ reading' = [reading EXCEPT ![w].at = "failed"]
           /\ PagesTurn
           /\ UNCHANGED <<storeVars, token, scan>>
  <2> DEFINE next == [reading[w] EXCEPT !.at = "failed"]
  <2>1. reading' = [reading EXCEPT ![w] = next]
    BY <1>3
  <2>2. StoreInv' /\ denied' = denied
    BY <1>3, StoreStays DEF SessionInv
  <2>3. Holds(next, SpecRoot[w[1]], denied)
    BY DEF SessionInv, Readings, Holds, ReadingType
  <2> HIDE DEF next
  <2>4. Readings(reading', denied')
    BY <2>1, <2>2, <2>3, ReadingMoves DEF SessionInv
  <2>5. PageTypeOK' /\ OnlyProvedIsShown'
    BY <1>3, <2>2, <2>4, PagesTurnKeeps DEF SessionInv
  <2> QED
    BY <2>2, <2>4, <2>5 DEF SessionInv
<1> QED
  BY <1>1, <1>2, <1>3 DEF SingleAnswers

(* Readings that have their document end with the token.                   *)
LEMMA TokenAnswersKeeps ==
    ASSUME SessionInv, NEW r \in Requests, TokenAnswers(r)
    PROVE  SessionInv'
<1>1. PICK heard \in {"known", "lost"} :
        reading' = [w \in Attempts |->
           IF reading[w].token = "asked" THEN Awaits([reading[w] EXCEPT !.token = heard])
           ELSE reading[w]]
  BY DEF TokenAnswers
<1>2. UNCHANGED storeVars /\ PagesTurn
  BY DEF TokenAnswers
<1>3. StoreInv' /\ denied' = denied
  BY <1>2, StoreStays DEF SessionInv
<1>4. ASSUME NEW w \in Attempts
      PROVE  Holds(reading'[w], SpecRoot[w[1]], denied')
  <2> DEFINE read == [reading[w] EXCEPT !.token = heard]
  <2>1. Holds(reading[w], SpecRoot[w[1]], denied) /\ SpecRoot[w[1]] \in Documents
    BY AttemptsAre DEF SessionInv, Readings
  <2>2. read \in ReadingType /\ read.spec = reading[w].spec /\ read.at = reading[w].at
    BY <2>1 DEF Holds, ReadingType, Heard
  <2>3. reading'[w] = IF reading[w].token = "asked" THEN Awaits(read) ELSE reading[w]
    BY <1>1
  <2> HIDE DEF read
  <2>4. Holds(Awaits(read), SpecRoot[w[1]], denied)
    BY <2>1, <2>2, AwaitsHolds DEF Holds
  <2> QED
    BY <1>3, <2>1, <2>3, <2>4
<1>5. Readings(reading', denied')
  BY <1>1, <1>4 DEF Readings
<1>6. PageTypeOK' /\ OnlyProvedIsShown'
  BY <1>2, <1>3, <1>5, PagesTurnKeeps DEF SessionInv
<1> QED
  BY <1>3, <1>5, <1>6 DEF SessionInv

(* The creation log asks for every document, for nobody, and may be the    *)
(* last thing a page waited for.                                           *)
LEMMA LogsAnswerKeeps ==
    ASSUME SessionInv, NEW r \in Requests, LogsAnswer(r)
    PROVE  SessionInv'
<1>1. StoreInv' /\ denied' = denied
  <2>1. Get(Documents) \/ UNCHANGED storeVars
    BY DEF LogsAnswer
  <2>2. CASE Get(Documents)
    BY <2>2, GetKeeps DEF SessionInv
  <2>3. CASE UNCHANGED storeVars
    BY <2>3, StoreStays DEF SessionInv
  <2> QED
    BY <2>1, <2>2, <2>3
<1>2. reading' = reading
  BY DEF LogsAnswer
<1>3. UNCHANGED page \/ IndexTurns("known") \/ IndexTurns("lost")
  BY DEF LogsAnswer
<1>4. PageTypeOK' /\ OnlyProvedIsShown'
  <2>1. CASE UNCHANGED page
    BY <1>1, <2>1 DEF SessionInv, PageTypeOK, OnlyProvedIsShown
  <2>2. CASE IndexTurns("known") \/ IndexTurns("lost")
    BY <1>1, <2>2, IndexTurnsKeeps DEF SessionInv, Heard
  <2> QED
    BY <1>3, <2>1, <2>2
<1> QED
  BY <1>1, <1>2, <1>4 DEF SessionInv

(* So may the times of its blocks.                                         *)
LEMMA BlocksAnswerKeeps ==
    ASSUME SessionInv, NEW r \in Requests, BlocksAnswer(r)
    PROVE  SessionInv'
<1>1. PICK heard \in {"known", "lost"} : IndexTurns(heard)
  BY DEF BlocksAnswer
<1>2. StoreInv' /\ denied' = denied /\ reading' = reading
  BY StoreStays DEF BlocksAnswer, SessionInv
<1>3. PageTypeOK' /\ OnlyProvedIsShown'
  BY <1>1, <1>2, IndexTurnsKeeps DEF SessionInv, Heard
<1> QED
  BY <1>2, <1>3 DEF SessionInv

(* The indexer alone moves no page.                                        *)
LEMMA IndexerRespondsKeeps ==
    ASSUME SessionInv, NEW d \in Documents, IndexerResponds(d)
    PROVE  SessionInv'
<1>1. StoreInv' /\ denied' = denied
  BY RespondsKeeps DEF IndexerResponds, Responds, SessionInv
<1> QED
  BY <1>1 DEF IndexerResponds, SessionInv, PageTypeOK, OnlyProvedIsShown

-----------------------------------------------------------------------------
(* The theorems.                                                           *)

(* A session begins with nothing in memory, whatever is on the disk.       *)
LEMMA ReadStart == ReadsInit => ReadInv
<1> SUFFICES ASSUME ReadsInit PROVE ReadInv
  OBVIOUS
<1>1. GateInv
  BY GateStart DEF ReadsInit
<1>2. /\ cache = [d \in Documents |-> NotCached]
      /\ load = [d \in Documents |-> NoLoad]
      /\ asked = [d \in Documents |-> 0]
      /\ failed = [d \in Documents |-> 0]
      /\ page = [p \in Pages |-> Idle]
      /\ reading = [w \in Attempts |-> NotBegun]
  BY DEF ReadsInit, NewSession
<1>3. StoreTypeOK
  BY <1>2, MarkersDiffer DEF StoreTypeOK
<1>4. \A d \in Documents : Fetched(d) /\ Believed(d)
  BY <1>2 DEF Fetched, Believed
<1>5. Idle \in PageType /\ Idle.at = "idle" /\ Idle.try = 0
  BY DEF Idle, PageType, Heard
<1>6. PageTypeOK
  BY <1>2, <1>5, ReadsAssumption DEF PageTypeOK
<1>7. OnlyProvedIsShown
  BY <1>2, <1>5 DEF OnlyProvedIsShown
<1>8. Readings(reading, denied)
  <2>1. NotBegun \in ReadingType /\ NotBegun.spec = Nothing /\ NotBegun.at = "none"
    BY DEF NotBegun, ReadingType, Heard
  <2> QED
    BY <1>2, <2>1 DEF Readings, Holds
<1> QED
  BY <1>1, <1>3, <1>4, <1>6, <1>7, <1>8 DEF ReadInv, SessionInv, StoreInv

(* Every step is one of the gate's, or leaves the gate alone.              *)
LEMMA StepKeepsGate == GateInv /\ [ReadsNext]_readVars => GateInv'
<1> SUFFICES ASSUME GateInv, [ReadsNext]_readVars PROVE GateInv'
  OBVIOUS
<1>1. UNCHANGED gateVars => GateInv'
  BY GateStep
<1>2. \A r \in Requests : Issue(r) \/ Resume(r) \/ Finish(r) => GateInv'
  BY GateStep DEF GateNext
<1>3. CASE UNCHANGED readVars
  BY <1>1, <1>3 DEF readVars
<1>4. CASE \E p \in Pages : Opens(p) \/ AsksAgain(p)
  BY <1>1, <1>4 DEF Opens, AsksAgain, Begins
<1>5. CASE \E r \in Requests : Send(r)
  BY <1>2, <1>5 DEF Send, Sends
<1>6. CASE \E d \in Documents : IndexerResponds(d) \/ DocumentSettles(d)
  BY <1>1, <1>6 DEF IndexerResponds, DocumentSettles
<1>7. CASE Answer
  <2>1. \E r \in Requests : Finish(r)
    BY <1>7, RequestsAreKnown
       DEF Answer, BatchAnswers, SingleAnswers, AnswersNobody, TokenAnswers, LogsAnswer, BlocksAnswer
  <2> QED
    BY <1>2, <2>1
<1> QED
  BY <1>3, <1>4, <1>5, <1>6, <1>7 DEF ReadsNext, Progress

(* And keeps what the session holds.                                       *)
LEMMA StepKeepsSession == SessionInv /\ [ReadsNext]_readVars => SessionInv'
<1> SUFFICES ASSUME SessionInv, [ReadsNext]_readVars PROVE SessionInv'
  OBVIOUS
<1>1. CASE UNCHANGED readVars
  BY <1>1, SessionStays DEF readVars
<1>2. CASE \E p \in Pages : Opens(p) \/ AsksAgain(p)
  BY <1>2, BeginsKeeps DEF Opens, AsksAgain
<1>3. CASE \E r \in Requests : Send(r)
  BY <1>3, SessionStays DEF Send, Sends
<1>4. CASE \E d \in Documents : IndexerResponds(d)
  BY <1>4, IndexerRespondsKeeps
<1>5. CASE Answer
  <2>1. ASSUME NEW w \in Attempts, NEW i \in 1..Width[w[1]], AnswersNobody(w, i)
        PROVE  SessionInv'
    BY <2>1, SessionStays DEF AnswersNobody
  <2> QED
    BY <1>5, <2>1, BatchAnswersKeeps, SingleAnswersKeeps, TokenAnswersKeeps, LogsAnswerKeeps,
       BlocksAnswerKeeps DEF Answer
<1>6. CASE \E d \in Documents : DocumentSettles(d)
  BY <1>6, DocumentSettlesKeeps
<1> QED
  BY <1>1, <1>2, <1>3, <1>4, <1>5, <1>6 DEF ReadsNext, Progress

(* The invariant of a session: the gate's ceiling, what the store and the  *)
(* readings hold, and what the pages show of it.                           *)
THEOREM ReadingStaysSound == ReadsSpec => []ReadInv
<1>1. ReadInv /\ [ReadsNext]_readVars => ReadInv'
  BY StepKeepsGate, StepKeepsSession DEF ReadInv
<1> QED
  BY <1>1, ReadStart, PTL DEF ReadsSpec

(* What a page shows of a document is the document its market committed    *)
(* to, whatever the indexer and the disk held (zg-storage.ts, chain.ts).   *)
THEOREM PagesShowTheProved == ReadsSpec => []OnlyProvedIsShown
<1>1. ReadInv => OnlyProvedIsShown
  BY DEF ReadInv, SessionInv
<1> QED
  BY <1>1, ReadingStaysSound, PTL

(* A document is fetched again in a session only after a fetch threw,      *)
(* however many pages ask and whoever asks first.                          *)
THEOREM FetchesAreShared == ReadsSpec => []OneFetchPerDocument
<1>1. ReadInv => OneFetchPerDocument
  BY DEF ReadInv, SessionInv, StoreInv, Fetched, OneFetchPerDocument
<1> QED
  BY <1>1, ReadingStaysSound, PTL

(* The endpoint's ceiling stands under everything the pages ask: batches,  *)
(* single calls, retries, the token and the scan.                          *)
THEOREM ReadingKeepsCeiling == ReadsSpec => []CallsAreBounded
<1>1. ReadInv => CallsAreBounded
  BY DEF ReadInv, GateInv
<1> QED
  BY <1>1, ReadingStaysSound, PTL

(* A document that is text proves itself, because the two computations of  *)
(* its root agree.                                                         *)
LEMMA TextProvesItself ==
    ASSUME NEW d \in Documents, Decoded[d] = d
    PROVE  Proves(Decoded[d], d)
<1>1. d \in Files /\ d.chunks \in Nat \ {0} /\ d \in Texts
  BY StoreAssumption
<1>2. ZgMerkleRoot(d) = ContractRoot(d)
  BY <1>1, RootsAgree
<1> QED
  BY <1>1, <1>2 DEF Proves, Proved

(* A document that is text is never refused: when the file that was        *)
(* anchored arrives, every reading that waits for it has it (index.ts,     *)
(* ZgMerkle.sol).                                                          *)
THEOREM DocumentsAreTaken == ReadsSpec => HonestAnswersAreTaken
<1>1. ASSUME NEW d \in Documents, [at |-> "answered", file |-> d] = NoLoad
      PROVE  FALSE
  BY <1>1, MarkersDiffer
<1>2. ASSUME ReadInv, [ReadsNext]_readVars, NEW d \in Documents,
             load[d] = [at |-> "answered", file |-> d], load'[d] = NoLoad
      PROVE  DocumentSettles(d)
  <2>1. load[d] # NoLoad /\ DOMAIN load = Documents
    BY <1>1, <1>2 DEF ReadInv, SessionInv, StoreInv, StoreTypeOK
  <2>2. load' # load
    BY <1>2, <2>1
  <2>3. ASSUME NEW D \in SUBSET Documents, Get(D) PROVE FALSE
    <3>1. load'[d] = Asked \/ load'[d] = load[d]
      BY <2>3 DEF Get
    <3> QED
      BY <1>2, <2>1, <3>1, MarkersDiffer
  <2>4. ASSUME NEW w \in Attempts, MarketRead(w) PROVE FALSE
    BY <2>3, <2>4, AttemptsAre DEF MarketRead
  <2>5. ~(UNCHANGED storeVars)
    BY <2>2 DEF storeVars
  <2>6. ~(UNCHANGED readVars)
    BY <2>5 DEF readVars
  <2>7. \A p \in Pages : ~Opens(p) /\ ~AsksAgain(p)
    BY <2>5 DEF Opens, AsksAgain, Begins
  <2>8. \A r \in Requests : ~Send(r)
    BY <2>5 DEF Send, Sends
  <2>9. ~Answer
    <3>1. \A w \in Attempts : ~BatchAnswers(w)
      BY <2>4, <2>5 DEF BatchAnswers
    <3>2. \A w \in Attempts : \A i \in 1..Width[w[1]] : ~SingleAnswers(w, i) /\ ~AnswersNobody(w, i)
      BY <2>4, <2>5 DEF SingleAnswers, AnswersNobody
    <3>3. \A r \in Requests : ~TokenAnswers(r) /\ ~LogsAnswer(r) /\ ~BlocksAnswer(r)
      BY <2>3, <2>5 DEF TokenAnswers, LogsAnswer, BlocksAnswer
    <3> QED
      BY <3>1, <3>2, <3>3 DEF Answer
  <2>10. ASSUME NEW e \in Documents, IndexerResponds(e) PROVE FALSE
    <3>1. PICK file \in Files \cup {Failure} :
            load' = [load EXCEPT ![e] = [at |-> "answered", file |-> file]]
      BY <2>10 DEF IndexerResponds, Responds
    <3>2. load'[d] = load[d] \/ load'[d].at = "answered"
      BY <2>1, <3>1
    <3> QED
      BY <1>2, <2>1, <3>2, MarkersDiffer
  <2>11. PICK e \in Documents : DocumentSettles(e)
    BY <1>2, <2>6, <2>7, <2>8, <2>9, <2>10 DEF ReadsNext, Progress
  <2>12. load' = [load EXCEPT ![e] = NoLoad]
    BY <2>11 DEF DocumentSettles, Settles
  <2>13. e = d
    BY <1>2, <2>1, <2>12
  <2> QED
    BY <2>11, <2>13
<1>3. ASSUME NEW d \in Documents, Decoded[d] = d, ReadInv, DocumentSettles(d),
             load[d] = [at |-> "answered", file |-> d],
             NEW w \in Attempts, reading[w].at = "storage", SpecRoot[w[1]] = d
      PROVE  /\ reading'[w].spec = SpecOf(Parsed(d))
             /\ reading'[w].at = "failed" <=> reading[w].token = "lost"
  <2> DEFINE spec == SpecOf(Parsed(d))
             read == [reading[w] EXCEPT !.spec = spec]
  <2>1. ResultOf(load[d].file, d) = Parsed(d) /\ Parsed(d) # Failure
    BY <1>3, TextProvesItself, ParsedIsKnown DEF ResultOf
  <2>2. reading'[w] = Awaits(read)
    BY <1>3, <2>1 DEF DocumentSettles
  <2>3. spec # Nothing /\ spec \in Files \cup {Null}
    BY ParsedIsKnown
  <2>4. reading[w] \in ReadingType
    BY <1>3 DEF ReadInv, SessionInv, Readings, Holds
  <2> HIDE DEF spec
  <2>5. read \in ReadingType /\ read.spec = spec /\ read.token = reading[w].token
    BY <2>3, <2>4 DEF ReadingType
  <2> HIDE DEF read
  <2>6. Awaits(read) = [read EXCEPT !.at = IF read.token = "known" THEN "read"
                                           ELSE IF read.token = "lost" THEN "failed" ELSE "token"]
    BY <2>3, <2>5 DEF Awaits
  <2> QED
    BY <2>2, <2>5, <2>6 DEF ReadingType, spec
<1>4. ASSUME ReadInv, [ReadsNext]_readVars, NEW d \in Documents, Decoded[d] = d
      PROVE  IsTaken(d)
  BY <1>2, <1>3, <1>4 DEF IsTaken
<1>5. ReadInv /\ [ReadsNext]_readVars
        => [\A d \in Documents : Decoded[d] = d => IsTaken(d)]_readVars
  BY <1>4
<1> QED
  BY <1>5, ReadingStaysSound, PTL DEF ReadsSpec, HonestAnswersAreTaken
=============================================================================

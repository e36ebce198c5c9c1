---------------------------- MODULE TotalProofs ----------------------------
(***************************************************************************)
(* Least members, counting and loops, and sums over finite sets, for the   *)
(* theorems about money, shares and searches.  The community modules       *)
(* define a sum by recursion over subsets; the lemmas here unfold it, one  *)
(* member at a time and in any order, by looking at a smallest set for     *)
(* which a claim would fail.                                               *)
(***************************************************************************)
EXTENDS Integers, FiniteSetTheorems, FiniteSetsExt, TLAPS

-----------------------------------------------------------------------------
(* Smallest counterexamples.                                               *)

(* Among subsets of a finite set there is a smallest.                      *)
LEMMA SmallestSubset ==
    ASSUME NEW S, IsFiniteSet(S), NEW B \in SUBSET SUBSET S, B # {}
    PROVE  \E T \in B : \A U \in B : U \subseteq T => U = T
<1>1. IsWellFoundedOn(StrictSubsetOrdering(S), FiniteSubsetsOf(S))
  BY FS_StrictSubsetOrderingWellFounded
<1>2. B \subseteq FiniteSubsetsOf(S)
  BY FS_FiniteSubsetsOfFinite
<1>3. \E T \in B : \A U \in B : ~ (<<U, T>> \in StrictSubsetOrdering(S))
  BY <1>1, <1>2, WFMin
<1> QED
  BY <1>3 DEF StrictSubsetOrdering

(* Among naturals there is a least.                                        *)
LEMMA LeastNatural ==
    ASSUME NEW N \in SUBSET Nat, N # {}
    PROVE  \E x \in N : \A y \in N : x <= y
<1> DEFINE Below == {0..(x - 1) : x \in N}
<1>1. \A x \in N : 0..(x - 1) \in FiniteSubsetsOf(Nat)
  BY FS_Interval DEF FiniteSubsetsOf
<1>2. Below \subseteq FiniteSubsetsOf(Nat) /\ Below # {}
  BY <1>1
<1>3. IsWellFoundedOn(StrictSubsetOrdering(Nat), FiniteSubsetsOf(Nat))
  BY FS_StrictSubsetOrderingWellFounded
<1>4. \E b \in Below : \A c \in Below : ~ (<<c, b>> \in StrictSubsetOrdering(Nat))
  <2> HIDE DEF Below
  <2> QED
    BY <1>2, <1>3, WFMin
<1>5. PICK x \in N : \A y \in N :
        ~ (<<0..(y - 1), 0..(x - 1)>> \in StrictSubsetOrdering(Nat))
  BY <1>4
<1>6. ASSUME NEW y \in N, y < x
      PROVE  FALSE
  <2>1. y \in 0..(x - 1) /\ y \notin 0..(y - 1) /\ 0..(y - 1) \subseteq 0..(x - 1)
    BY <1>6
  <2>2. 0..(y - 1) \in SUBSET Nat /\ 0..(x - 1) \in SUBSET Nat
    OBVIOUS
  <2> QED
    BY <1>5, <2>1, <2>2 DEF StrictSubsetOrdering
<1> QED
  BY <1>5, <1>6

(* What holds of zero and passes on to the next holds of every number.     *)
LEMMA ByCounting ==
    ASSUME NEW G, 0 \in G, \A n \in Nat : n \in G => n + 1 \in G
    PROVE  \A n \in Nat : n \in G
<1> DEFINE Bad == {n \in Nat : n \notin G}
<1> SUFFICES ASSUME Bad # {} PROVE FALSE
  OBVIOUS
<1>1. PICK x \in Bad : \A y \in Bad : x <= y
  BY LeastNatural
<1>2. x # 0 /\ x - 1 \in Nat
  OBVIOUS
<1>3. x - 1 \in G
  BY <1>1, <1>2
<1> QED
  BY <1>2, <1>3

(* The least and the greatest of a set of numbers are in it.               *)
LEMMA MinOfSet ==
    ASSUME NEW S \in SUBSET Nat, S # {}
    PROVE  Min(S) \in S /\ \A y \in S : Min(S) <= y
<1>1. \E x \in S : \A y \in S : x <= y
  BY LeastNatural
<1> QED
  BY <1>1 DEF Min

LEMMA MaxOfSet ==
    ASSUME NEW n \in Nat, NEW S \in SUBSET (1..n), S # {}
    PROVE  Max(S) \in S /\ \A y \in S : y <= Max(S)
<1> DEFINE T == {n - x : x \in S}
<1>1. T \in SUBSET Nat /\ T # {}
  OBVIOUS
<1> HIDE DEF T
<1>2. PICK t \in T : \A u \in T : t <= u
  BY <1>1, LeastNatural
<1>3. PICK x \in S : t = n - x
  BY DEF T
<1>4. \A y \in S : n - x <= n - y
  BY <1>2, <1>3 DEF T
<1>5. \A y \in S : x >= y
  <2> TAKE y \in S
  <2>1. x \in Int /\ y \in Int /\ n - x <= n - y
    BY <1>4
  <2> QED
    BY <2>1
<1>6. Max(S) \in S /\ \A y \in S : Max(S) >= y
  BY <1>5 DEF Max
<1>7. \A y \in S : y <= Max(S)
  <2> TAKE y \in S
  <2>1. S \subseteq Int
    OBVIOUS
  <2>2. Max(S) \in Int /\ y \in Int
    BY <1>6, <2>1
  <2> QED
    BY <1>6, <2>2
<1> QED
  BY <1>6, <1>7

(* The recursive function that stands for a loop.                          *)
Loops(f, S, Done, result, next) ==
    f = [s \in S |-> IF s \in Done THEN result[s] ELSE f[next[s]]]

(* A loop that comes closer to its end at every turn has a result.         *)
LEMMA LoopsEnd ==
    ASSUME NEW S, NEW Done, NEW result, NEW next, NEW size,
           \A s \in S : size[s] \in Nat,
           \A s \in S : s \notin Done => next[s] \in S /\ size[next[s]] < size[s]
    PROVE  \E f : Loops(f, S, Done, result, next)
<1> DEFINE Turn(f, s)  == IF s \in Done THEN result[s] ELSE f[next[s]]
           UpTo(f, n)  == \A s \in S : size[s] < n => f[s] = Turn(f, s)
           G           == {n \in Nat : \E f : UpTo(f, n)}
<1>1. 0 \in G
  OBVIOUS
<1>2. ASSUME NEW n \in Nat, n \in G
      PROVE  n + 1 \in G
  <2>1. PICK f : UpTo(f, n)
    BY <1>2
  <2> DEFINE g == [s \in S |-> Turn(f, s)]
  <2>2. ASSUME NEW s \in S, size[s] < n + 1
        PROVE  g[s] = Turn(g, s)
    <3>1. CASE s \in Done
      BY <3>1
    <3>2. CASE s \notin Done
      <4>1. next[s] \in S /\ size[next[s]] < n
        BY <2>2, <3>2
      <4> QED
        BY <2>1, <3>2, <4>1
    <3> QED
      BY <3>1, <3>2
  <2> HIDE DEF g
  <2>3. UpTo(g, n + 1)
    BY <2>2
  <2> QED
    BY <2>3
<1> HIDE DEF G
<1>3. \A n \in Nat : n \in G
  BY <1>1, <1>2, ByCounting
<1> DEFINE part(n) == CHOOSE f : UpTo(f, n)
           whole   == [s \in S |-> part(size[s] + 1)[s]]
<1>4. \A n \in Nat : UpTo(part(n), n)
  BY <1>3 DEF G
<1> HIDE DEF part
<1>5. \A n, m \in Nat : \A s \in S : size[s] < n /\ size[s] < m => part(n)[s] = part(m)[s]
  <2> DEFINE Apart(s) == \E n, m \in Nat : size[s] < n /\ size[s] < m /\ part(n)[s] # part(m)[s]
             N == {size[s] : s \in {s \in S : Apart(s)}}
  <2> SUFFICES ASSUME N # {} PROVE FALSE
    OBVIOUS
  <2>1. N \in SUBSET Nat
    OBVIOUS
  <2>2. \E x \in N : \A y \in N : x <= y
    <3> HIDE DEF N
    <3> QED
      BY <2>1, LeastNatural
  <2>3. PICK s \in S : Apart(s) /\ \A t \in S : Apart(t) => size[s] <= size[t]
    BY <2>2
  <2>4. PICK n \in Nat, m \in Nat : size[s] < n /\ size[s] < m /\ part(n)[s] # part(m)[s]
    BY <2>3
  <2>5. part(n)[s] = Turn(part(n), s) /\ part(m)[s] = Turn(part(m), s)
    BY <1>4, <2>4
  <2>6. s \notin Done
    BY <2>4, <2>5
  <2>7. next[s] \in S /\ size[next[s]] < size[s] /\ part(n)[next[s]] # part(m)[next[s]]
    BY <2>4, <2>5, <2>6
  <2>8. size[next[s]] \in Nat /\ size[s] \in Nat /\ ~(size[s] <= size[next[s]])
    BY <2>7
  <2> QED
    BY <2>3, <2>4, <2>7, <2>8
<1>6. ASSUME NEW s \in S
      PROVE  whole[s] = Turn(whole, s)
  <2>1. size[s] + 1 \in Nat /\ whole[s] = Turn(part(size[s] + 1), s)
    BY <1>4
  <2>2. CASE s \in Done
    BY <2>1, <2>2
  <2>3. CASE s \notin Done
    <3>1. /\ next[s] \in S /\ size[next[s]] \in Nat /\ size[next[s]] < size[s]
          /\ size[s] \in Nat /\ size[next[s]] + 1 \in Nat
      BY <2>3
    <3>2. part(size[s] + 1)[next[s]] = part(size[next[s]] + 1)[next[s]]
      BY <1>5, <2>1, <3>1
    <3> QED
      BY <2>1, <2>3, <3>1, <3>2
  <2> QED
    BY <2>2, <2>3
<1>7. whole = [s \in S |-> Turn(whole, s)]
  BY <1>6
<1> QED
  BY <1>7 DEF Loops

(* What holds of the empty set, and of a set when it holds of the set      *)
(* without any one member, holds.                                          *)
LEMMA ByMembers ==
    ASSUME NEW S, IsFiniteSet(S), NEW G,
           {} \in G,
           \A T \in SUBSET S : T # {} /\ (\A x \in T : T \ {x} \in G) => T \in G
    PROVE  \A T \in SUBSET S : T \in G
<1> DEFINE Bad == (SUBSET S) \ G
<1> SUFFICES ASSUME Bad # {}
             PROVE  FALSE
  OBVIOUS
<1>1. PICK T \in Bad : \A U \in Bad : U \subseteq T => U = T
  <2> HIDE DEF Bad
  <2>1. Bad \in SUBSET SUBSET S
    BY DEF Bad
  <2> QED
    BY <2>1, SmallestSubset
<1>2. \A x \in T : T \ {x} \in G
  BY <1>1
<1> QED
  BY <1>1, <1>2

-----------------------------------------------------------------------------
(* The recursion behind a sum.                                             *)

(* The sum of a function's values over a set of its arguments.             *)
Total(f, S) == MapThenSumSet(LAMBDA x : f[x], S)

TakeOne(f, g, s) ==
    IF s = {} THEN 0
    ELSE LET x == CHOOSE x \in s : TRUE IN f[x] + g[s \ {x}]

Unfolds(f, g, S) == g = [s \in SUBSET S |-> TakeOne(f, g, s)]

(* Two functions that unfold the same sum agree where both are defined.    *)
LEMMA OneUnfolding ==
    ASSUME NEW f, NEW S, NEW T, NEW g, NEW h, IsFiniteSet(S),
           Unfolds(f, g, S), Unfolds(f, h, T), T \subseteq S
    PROVE  \A s \in SUBSET T : g[s] = h[s]
<1> DEFINE G == {s \in SUBSET T : g[s] = h[s]}
<1>1. IsFiniteSet(T)
  BY FS_Subset
<1>2. {} \in G
  BY DEF Unfolds, TakeOne
<1>3. ASSUME NEW s \in SUBSET T, s # {}, \A x \in s : s \ {x} \in G
      PROVE  s \in G
  <2> DEFINE x == CHOOSE x \in s : TRUE
  <2>1. x \in s
    BY <1>3
  <2>2. g[s] = f[x] + g[s \ {x}] /\ h[s] = f[x] + h[s \ {x}]
    BY <1>3 DEF Unfolds, TakeOne
  <2> HIDE DEF x
  <2>3. g[s \ {x}] = h[s \ {x}]
    BY <1>3, <2>1
  <2> QED
    BY <2>2, <2>3
<1> HIDE DEF G
<1>4. \A s \in SUBSET T : s \in G
  BY <1>1, <1>2, <1>3, ByMembers
<1> QED
  BY <1>4 DEF G

(* Every finite sum has an unfolding.                                      *)
LEMMA UnfoldingExists ==
    ASSUME NEW f, NEW S, IsFiniteSet(S)
    PROVE  \E g : Unfolds(f, g, S)
<1> DEFINE G == {T \in SUBSET S : \E g : Unfolds(f, g, T)}
<1>1. {} \in G
  <2>1. Unfolds(f, [s \in SUBSET {} |-> 0], {})
    BY DEF Unfolds, TakeOne
  <2> QED
    BY <2>1
<1>2. ASSUME NEW T \in SUBSET S, T # {}, \A x \in T : T \ {x} \in G
      PROVE  T \in G
  <2> DEFINE part(x) == CHOOSE g : Unfolds(f, g, T \ {x})
             below   == [s \in SUBSET T |-> part(CHOOSE x \in T \ s : TRUE)[s]]
             whole   == [s \in SUBSET T |-> IF s = T THEN TakeOne(f, below, T) ELSE below[s]]
  <2>1. \A x \in T : Unfolds(f, part(x), T \ {x})
    BY <1>2
  <2>2. \A x, y \in T : \A s \in SUBSET (T \ {x, y}) : part(x)[s] = part(y)[s]
    <3> SUFFICES ASSUME NEW x \in T, NEW y \in T, NEW s \in SUBSET (T \ {x, y})
                 PROVE  part(x)[s] = part(y)[s]
      OBVIOUS
    <3> DEFINE both == [t \in SUBSET (T \ {x, y}) |-> part(x)[t]]
    <3> HIDE DEF part
    <3>1. Unfolds(f, both, T \ {x, y})
      <4>1. \A t \in SUBSET (T \ {x, y}) : t # {} =>
               /\ (CHOOSE z \in t : TRUE) \in t
               /\ \A z \in t : t \ {z} \in SUBSET (T \ {x, y})
        OBVIOUS
      <4>2. \A t \in SUBSET (T \ {x, y}) : part(x)[t] = TakeOne(f, part(x), t)
        BY <2>1 DEF Unfolds
      <4>3. \A t \in SUBSET (T \ {x, y}) : TakeOne(f, part(x), t) = TakeOne(f, both, t)
        BY <4>1 DEF TakeOne
      <4> HIDE DEF both
      <4>4. both = [t \in SUBSET (T \ {x, y}) |-> TakeOne(f, both, t)]
        BY <4>2, <4>3 DEF both
      <4> QED
        BY <4>4 DEF Unfolds
    <3> HIDE DEF both
    <3>2. IsFiniteSet(T \ {x}) /\ IsFiniteSet(T \ {y})
      BY FS_Subset
    <3>3. T \ {x, y} \subseteq T \ {x} /\ T \ {x, y} \subseteq T \ {y}
      OBVIOUS
    <3>4. Unfolds(f, part(x), T \ {x}) /\ Unfolds(f, part(y), T \ {y})
      BY <2>1
    <3>5. \A t \in SUBSET (T \ {x, y}) : part(x)[t] = both[t]
      BY <3>1, <3>2, <3>3, <3>4, OneUnfolding
    <3>6. \A t \in SUBSET (T \ {x, y}) : part(y)[t] = both[t]
      BY <3>1, <3>2, <3>3, <3>4, OneUnfolding
    <3> QED
      BY <3>5, <3>6
  <2> HIDE DEF part
  <2>3. ASSUME NEW s \in SUBSET T, s # T, NEW x \in T \ s
        PROVE  below[s] = part(x)[s]
    <3>1. (CHOOSE y \in T \ s : TRUE) \in T \ s
      BY <2>3
    <3> QED
      BY <2>2, <2>3, <3>1
  <2>4. \A s \in SUBSET T : s # {} => (CHOOSE z \in s : TRUE) \in s
    OBVIOUS
  <2> HIDE DEF below
  <2>5. ASSUME NEW s \in SUBSET T, s # T
        PROVE  below[s] = TakeOne(f, below, s)
    <3>1. PICK x \in T \ s : TRUE
      BY <2>5
    <3>2. below[s] = TakeOne(f, part(x), s)
      <4>1. part(x) = [t \in SUBSET (T \ {x}) |-> TakeOne(f, part(x), t)]
        BY <2>1 DEF Unfolds
      <4>2. part(x)[s] = TakeOne(f, part(x), s)
        BY <2>5, <4>1
      <4> QED
        BY <2>3, <2>5, <3>1, <4>2
    <3>3. s # {} => below[s \ {CHOOSE z \in s : TRUE}] = part(x)[s \ {CHOOSE z \in s : TRUE}]
      BY <2>3, <2>4, <2>5, <3>1
    <3> QED
      BY <3>2, <3>3 DEF TakeOne
  <2>6. \A s \in SUBSET T : TakeOne(f, whole, s) = TakeOne(f, below, s)
    <3> SUFFICES ASSUME NEW s \in SUBSET T, s # {}
                 PROVE  TakeOne(f, whole, s) = TakeOne(f, below, s)
      BY DEF TakeOne
    <3>1. s \ {CHOOSE z \in s : TRUE} # T
      BY <2>4
    <3> QED
      BY <3>1 DEF TakeOne
  <2>7. \A s \in SUBSET T : whole[s] = TakeOne(f, whole, s)
    BY <2>5, <2>6
  <2> DEFINE w == whole
  <2>8. w = [s \in SUBSET T |-> w[s]]
    OBVIOUS
  <2> HIDE DEF w, whole
  <2>9. w = [s \in SUBSET T |-> TakeOne(f, w, s)]
    BY <2>7, <2>8 DEF w
  <2> QED
    BY <2>9 DEF Unfolds
<1> HIDE DEF G
<1>3. \A T \in SUBSET S : T \in G
  BY <1>1, <1>2, ByMembers
<1>4. S \in SUBSET S
  OBVIOUS
<1> QED
  BY <1>3, <1>4 DEF G

(* So a sum is what one member adds to the sum over the others.            *)
LEMMA TotalTakesOne ==
    ASSUME NEW f, NEW S, IsFiniteSet(S)
    PROVE  /\ S = {} => Total(f, S) = 0
           /\ S # {} => LET x == CHOOSE x \in S : TRUE
                        IN Total(f, S) = f[x] + Total(f, S \ {x})
<1> DEFINE iter(T) == CHOOSE g : Unfolds(f, g, T)
<1>1. \A T : Total(f, T) = iter(T)[T]
  BY DEF Total, MapThenSumSet, MapThenFoldSet, Unfolds, TakeOne
<1>2. \A T \in SUBSET S : Unfolds(f, iter(T), T)
  BY UnfoldingExists, FS_Subset
<1> HIDE DEF iter
<1>3. iter(S)[S] = TakeOne(f, iter(S), S)
  BY <1>2 DEF Unfolds
<1>4. \A T \in SUBSET S : iter(S)[T] = iter(T)[T]
  BY <1>2, OneUnfolding
<1> QED
  BY <1>1, <1>3, <1>4 DEF TakeOne

-----------------------------------------------------------------------------
(* What a sum is worth.                                                    *)

(* Nothing adds up to zero.                                                *)
LEMMA TotalOfNone == \A f : Total(f, {}) = 0
BY FS_EmptySet, TotalTakesOne

(* Integers add up to an integer.                                          *)
LEMMA TotalIsInteger ==
    ASSUME NEW f, NEW S, IsFiniteSet(S), \A x \in S : f[x] \in Int
    PROVE  \A T \in SUBSET S : Total(f, T) \in Int
<1> DEFINE G == {T \in SUBSET S : Total(f, T) \in Int}
<1>1. {} \in G
  BY TotalOfNone
<1>2. ASSUME NEW T \in SUBSET S, T # {}, \A x \in T : T \ {x} \in G
      PROVE  T \in G
  <2> DEFINE one == CHOOSE x \in T : TRUE
  <2>1. one \in T /\ f[one] \in Int
    BY <1>2
  <2>2. Total(f, T) = f[one] + Total(f, T \ {one})
    BY <1>2, FS_Subset, TotalTakesOne
  <2> HIDE DEF one
  <2> QED
    BY <1>2, <2>1, <2>2
<1> HIDE DEF G
<1>3. \A T \in SUBSET S : T \in G
  BY <1>1, <1>2, ByMembers
<1> QED
  BY <1>3 DEF G

(* Members may be taken in any order.                                      *)
LEMMA TotalOfMembers ==
    ASSUME NEW f, NEW S, IsFiniteSet(S), \A x \in S : f[x] \in Int
    PROVE  /\ Total(f, S) \in Int
           /\ \A x \in S : Total(f, S) = f[x] + Total(f, S \ {x})
<1> DEFINE G == {T \in SUBSET S : \A x \in T : Total(f, T) = f[x] + Total(f, T \ {x})}
<1>1. {} \in G
  OBVIOUS
<1>2. ASSUME NEW T \in SUBSET S, T # {}, \A x \in T : T \ {x} \in G
      PROVE  T \in G
  <2> DEFINE one == CHOOSE x \in T : TRUE
  <2>1. one \in T /\ f[one] \in Int
    BY <1>2
  <2>2. Total(f, T) = f[one] + Total(f, T \ {one})
    BY <1>2, FS_Subset, TotalTakesOne
  <2> HIDE DEF one
  <2>3. ASSUME NEW x \in T, x # one
        PROVE  Total(f, T) = f[x] + Total(f, T \ {x})
    <3>1. Total(f, T \ {one}) = f[x] + Total(f, (T \ {one}) \ {x})
      BY <1>2, <2>1, <2>3
    <3>2. Total(f, T \ {x}) = f[one] + Total(f, (T \ {one}) \ {x})
      <4>1. Total(f, T \ {x}) = f[one] + Total(f, (T \ {x}) \ {one})
        BY <1>2, <2>1, <2>3
      <4>2. (T \ {one}) \ {x} = (T \ {x}) \ {one}
        OBVIOUS
      <4> QED
        BY <4>1, <4>2
    <3>3. Total(f, (T \ {one}) \ {x}) \in Int
      BY TotalIsInteger
    <3>4. f[x] \in Int
      BY <2>3
    <3>5. \A u, v, w \in Int : u + (v + w) = v + (u + w)
      OBVIOUS
    <3> HIDE DEF G
    <3> QED
      BY <2>1, <2>2, <3>1, <3>2, <3>3, <3>4, <3>5
  <2> QED
    BY <2>2, <2>3
<1> HIDE DEF G
<1>3. \A T \in SUBSET S : T \in G
  BY <1>1, <1>2, ByMembers
<1>4. S \in SUBSET S
  OBVIOUS
<1> QED
  BY <1>3, <1>4, TotalIsInteger DEF G

(* Functions with the same values have the same sum.                       *)
LEMMA TotalOfSame ==
    ASSUME NEW f, NEW g, NEW S, IsFiniteSet(S),
           \A x \in S : f[x] \in Int, \A x \in S : g[x] = f[x]
    PROVE  Total(g, S) = Total(f, S)
<1> DEFINE G == {T \in SUBSET S : Total(g, T) = Total(f, T)}
<1>1. {} \in G
  BY TotalOfNone
<1>2. ASSUME NEW T \in SUBSET S, T # {}, \A x \in T : T \ {x} \in G
      PROVE  T \in G
  <2>1. PICK x \in T : TRUE
    BY <1>2
  <2>2. IsFiniteSet(T) /\ (\A y \in T : f[y] \in Int) /\ (\A y \in T : g[y] \in Int)
    BY FS_Subset
  <2>3. Total(f, T) = f[x] + Total(f, T \ {x}) /\ Total(g, T) = g[x] + Total(g, T \ {x})
    BY <2>1, <2>2, TotalOfMembers
  <2> QED
    BY <1>2, <2>1, <2>3
<1> HIDE DEF G
<1>3. \A T \in SUBSET S : T \in G
  BY <1>1, <1>2, ByMembers
<1>4. S \in SUBSET S
  OBVIOUS
<1> QED
  BY <1>3, <1>4 DEF G

(* Changing one value changes the sum by as much.                          *)
LEMMA TotalOfChanged ==
    ASSUME NEW f, NEW g, NEW S, IsFiniteSet(S), NEW x \in S,
           \A y \in S : f[y] \in Int, g[x] \in Int, \A y \in S \ {x} : g[y] = f[y]
    PROVE  Total(g, S) = Total(f, S) - f[x] + g[x]
<1>1. IsFiniteSet(S \ {x})
  BY FS_Subset
<1>2. Total(g, S \ {x}) = Total(f, S \ {x}) /\ Total(f, S \ {x}) \in Int
  BY <1>1, TotalOfSame, TotalOfMembers
<1>3. Total(f, S) = f[x] + Total(f, S \ {x}) /\ Total(g, S) = g[x] + Total(g, S \ {x})
  BY TotalOfMembers
<1> QED
  BY <1>2, <1>3

(* What one loses and another gains is not lost to the total.              *)
LEMMA TotalOfMoved ==
    ASSUME NEW f, NEW g, NEW S, IsFiniteSet(S), NEW x \in S, NEW y \in S, x # y,
           \A z \in S : f[z] \in Int, NEW n \in Int,
           g[x] = f[x] - n, g[y] = f[y] + n, \A z \in S \ {x, y} : g[z] = f[z]
    PROVE  Total(g, S) = Total(f, S)
<1> DEFINE h == [z \in S |-> IF z = x THEN f[x] - n ELSE f[z]]
<1>1. h[x] \in Int /\ h[x] = f[x] - n /\ \A z \in S \ {x} : h[z] = f[z]
  OBVIOUS
<1>2. /\ \A z \in S : h[z] \in Int
      /\ g[y] \in Int
      /\ \A z \in S \ {y} : g[z] = h[z]
      /\ h[y] = f[y]
  OBVIOUS
<1> HIDE DEF h
<1>3. Total(h, S) = Total(f, S) - f[x] + h[x]
  BY <1>1, TotalOfChanged
<1>4. Total(g, S) = Total(h, S) - h[y] + g[y]
  BY <1>2, TotalOfChanged
<1>5. Total(f, S) \in Int
  BY TotalOfMembers
<1> QED
  BY <1>1, <1>2, <1>3, <1>4, <1>5

(* One value compared at a time: a sum of less is less.                    *)
LEMMA TotalOfLess ==
    ASSUME NEW f, NEW g, NEW S, IsFiniteSet(S),
           \A x \in S : f[x] \in Int, \A x \in S : g[x] \in Int,
           \A x \in S : f[x] <= g[x]
    PROVE  Total(f, S) <= Total(g, S)
<1> DEFINE G == {T \in SUBSET S : Total(f, T) <= Total(g, T)}
<1>1. {} \in G
  BY TotalOfNone
<1>2. ASSUME NEW T \in SUBSET S, T # {}, \A x \in T : T \ {x} \in G
      PROVE  T \in G
  <2>1. PICK x \in T : TRUE
    BY <1>2
  <2>2. IsFiniteSet(T) /\ IsFiniteSet(T \ {x})
    BY FS_Subset
  <2>3. Total(f, T) = f[x] + Total(f, T \ {x}) /\ Total(g, T) = g[x] + Total(g, T \ {x})
    BY <2>1, <2>2, TotalOfMembers
  <2>4. Total(f, T \ {x}) \in Int /\ Total(g, T \ {x}) \in Int
    BY <2>2, TotalOfMembers
  <2> QED
    BY <1>2, <2>1, <2>3, <2>4
<1> HIDE DEF G
<1>3. \A T \in SUBSET S : T \in G
  BY <1>1, <1>2, ByMembers
<1>4. S \in SUBSET S
  OBVIOUS
<1> QED
  BY <1>3, <1>4 DEF G

(* A sum of multiples is the multiple of the sum.                          *)
LEMMA TotalOfMultiples ==
    ASSUME NEW f, NEW g, NEW S, NEW c \in Int, IsFiniteSet(S),
           \A x \in S : f[x] \in Int, \A x \in S : g[x] = c * f[x]
    PROVE  Total(g, S) = c * Total(f, S)
<1> DEFINE G == {T \in SUBSET S : Total(g, T) = c * Total(f, T)}
<1>1. {} \in G
  <2>1. c * 0 = 0
    OBVIOUS
  <2> QED
    BY <2>1, TotalOfNone
<1>2. ASSUME NEW T \in SUBSET S, T # {}, \A x \in T : T \ {x} \in G
      PROVE  T \in G
  <2>1. PICK x \in T : TRUE
    BY <1>2
  <2>2. IsFiniteSet(T) /\ IsFiniteSet(T \ {x}) /\ \A y \in S : g[y] \in Int
    BY FS_Subset
  <2>3. Total(f, T) = f[x] + Total(f, T \ {x}) /\ Total(g, T) = g[x] + Total(g, T \ {x})
    <3>1. (\A y \in T : f[y] \in Int) /\ (\A y \in T : g[y] \in Int)
      BY <2>2
    <3> HIDE DEF G
    <3> QED
      BY <2>1, <2>2, <3>1, TotalOfMembers
  <2>4. Total(f, T \ {x}) \in Int /\ f[x] \in Int /\ g[x] = c * f[x]
    BY <2>1, <2>2, TotalOfMembers
  <2>5. Total(g, T \ {x}) = c * Total(f, T \ {x})
    BY <1>2, <2>1
  <2>6. \A u, v \in Int : c * u + c * v = c * (u + v)
    OBVIOUS
  <2>7. Total(g, T) = c * Total(f, T)
    BY <2>3, <2>4, <2>5, <2>6
  <2> QED
    BY <2>7
<1> HIDE DEF G
<1>3. \A T \in SUBSET S : T \in G
  BY <1>1, <1>2, ByMembers
<1>4. S \in SUBSET S
  OBVIOUS
<1> QED
  BY <1>3, <1>4 DEF G

(* A sum of sums is the sum of the two.                                    *)
LEMMA TotalOfSums ==
    ASSUME NEW f, NEW g, NEW h, NEW S, IsFiniteSet(S),
           \A x \in S : f[x] \in Int, \A x \in S : g[x] \in Int,
           \A x \in S : h[x] = f[x] + g[x]
    PROVE  Total(h, S) = Total(f, S) + Total(g, S)
<1> DEFINE G == {T \in SUBSET S : Total(h, T) = Total(f, T) + Total(g, T)}
<1>1. {} \in G
  <2>1. 0 = 0 + 0
    OBVIOUS
  <2> QED
    BY <2>1, TotalOfNone
<1>2. ASSUME NEW T \in SUBSET S, T # {}, \A x \in T : T \ {x} \in G
      PROVE  T \in G
  <2>1. PICK x \in T : TRUE
    BY <1>2
  <2>2. IsFiniteSet(T) /\ IsFiniteSet(T \ {x}) /\ \A y \in S : h[y] \in Int
    BY FS_Subset
  <2>3. /\ Total(f, T) = f[x] + Total(f, T \ {x})
        /\ Total(g, T) = g[x] + Total(g, T \ {x})
        /\ Total(h, T) = h[x] + Total(h, T \ {x})
    <3> HIDE DEF G
    <3> QED
      BY <2>1, <2>2, TotalOfMembers
  <2>4. Total(f, T \ {x}) \in Int /\ Total(g, T \ {x}) \in Int /\ f[x] \in Int /\ g[x] \in Int
    BY <2>1, <2>2, TotalOfMembers
  <2>5. Total(h, T \ {x}) = Total(f, T \ {x}) + Total(g, T \ {x}) /\ h[x] = f[x] + g[x]
    BY <1>2, <2>1
  <2>6. Total(h, T) = Total(f, T) + Total(g, T)
    BY <2>3, <2>4, <2>5
  <2> QED
    BY <2>6
<1> HIDE DEF G
<1>3. \A T \in SUBSET S : T \in G
  BY <1>1, <1>2, ByMembers
<1>4. S \in SUBSET S
  OBVIOUS
<1> QED
  BY <1>3, <1>4 DEF G

(* Adding the same to some of the values adds it as often as there are     *)
(* such.                                                                   *)
LEMMA TotalOfRaised ==
    ASSUME NEW f, NEW g, NEW S, NEW A \in SUBSET S, NEW c \in Int, IsFiniteSet(S),
           \A x \in S : f[x] \in Int,
           \A x \in S : g[x] = f[x] + (IF x \in A THEN c ELSE 0)
    PROVE  Total(g, S) = Total(f, S) + c * Cardinality(A)
<1> DEFINE G == {T \in SUBSET S : Total(g, T) = Total(f, T) + c * Cardinality(A \cap T)}
<1>1. {} \in G
  <2>1. Cardinality(A \cap {}) = 0
    BY FS_EmptySet
  <2>2. 0 = 0 + c * 0
    OBVIOUS
  <2> QED
    BY <2>1, <2>2, TotalOfNone
<1>2. ASSUME NEW T \in SUBSET S, T # {}, \A x \in T : T \ {x} \in G
      PROVE  T \in G
  <2>1. PICK x \in T : TRUE
    BY <1>2
  <2>2. IsFiniteSet(T) /\ IsFiniteSet(T \ {x}) /\ \A y \in S : g[y] \in Int
    BY FS_Subset
  <2>3. Total(f, T) = f[x] + Total(f, T \ {x}) /\ Total(g, T) = g[x] + Total(g, T \ {x})
    BY <2>1, <2>2, TotalOfMembers
  <2>4. Total(f, T \ {x}) \in Int /\ f[x] \in Int
    BY <2>1, <2>2, TotalOfMembers
  <2>5. Total(g, T \ {x}) = Total(f, T \ {x}) + c * Cardinality(A \cap (T \ {x}))
    BY <1>2, <2>1
  <2>6. IsFiniteSet(A \cap T) /\ A \cap (T \ {x}) = (A \cap T) \ {x}
    BY FS_Subset
  <2>7. /\ Cardinality(A \cap T) \in Nat
        /\ Cardinality(A \cap (T \ {x})) =
             IF x \in A THEN Cardinality(A \cap T) - 1 ELSE Cardinality(A \cap T)
    BY <2>1, <2>6, FS_CardinalityType, FS_RemoveElement
  <2>8. c * Cardinality(A \cap T) =
          c * Cardinality(A \cap (T \ {x})) + (IF x \in A THEN c ELSE 0)
    <3>1. \A n \in Nat : c * n = c * (n - 1) + c
      OBVIOUS
    <3> QED
      BY <2>7, <3>1
  <2>9. g[x] = f[x] + (IF x \in A THEN c ELSE 0)
    BY <2>1
  <2>10. c * Cardinality(A \cap (T \ {x})) \in Int
    <3>1. Cardinality(A \cap (T \ {x})) \in Int
      BY <2>7
    <3> QED
      BY <3>1
  <2>11. Total(g, T) = Total(f, T) + c * Cardinality(A \cap T)
    BY <2>3, <2>4, <2>5, <2>8, <2>9, <2>10
  <2> QED
    BY <2>11
<1> HIDE DEF G
<1>3. \A T \in SUBSET S : T \in G
  BY <1>1, <1>2, ByMembers
<1>4. S \in SUBSET S /\ A \cap S = A
  OBVIOUS
<1> QED
  BY <1>3, <1>4 DEF G

(* No natural is more than a sum of naturals it is part of.                *)
LEMMA TotalBoundsMembers ==
    ASSUME NEW f, NEW S, IsFiniteSet(S), \A x \in S : f[x] \in Nat
    PROVE  /\ Total(f, S) \in Nat
           /\ \A x \in S : f[x] <= Total(f, S)
<1>1. ASSUME NEW T \in SUBSET S
      PROVE  Total(f, T) \in Nat
  <2> DEFINE zero == [x \in S |-> 0]
             g    == [x \in S |-> 0 * f[x]]
  <2>1. IsFiniteSet(T)
    BY FS_Subset
  <2>2. \A x \in T : g[x] = 0 * f[x] /\ g[x] \in Int /\ g[x] <= f[x] /\ f[x] \in Int
    OBVIOUS
  <2> HIDE DEF g
  <2>3. Total(g, T) = 0 * Total(f, T) /\ Total(g, T) <= Total(f, T) /\ Total(f, T) \in Int
    BY <2>1, <2>2, TotalOfMultiples, TotalOfLess, TotalOfMembers
  <2> QED
    BY <2>3
<1>2. ASSUME NEW x \in S
      PROVE  f[x] <= Total(f, S)
  <2>1. Total(f, S) = f[x] + Total(f, S \ {x})
    BY TotalOfMembers
  <2>2. Total(f, S \ {x}) \in Nat
    BY <1>1
  <2> QED
    BY <2>1, <2>2
<1> QED
  BY <1>1, <1>2
=============================================================================

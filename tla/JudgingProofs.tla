--------------------------- MODULE JudgingProofs ---------------------------
(***************************************************************************)
(* What a committee cites, what it commits without backing and what it     *)
(* decides by arithmetic, for all documents, answers and replies: bodies   *)
(* nested to any depth, paths of any length, rules of any number of        *)
(* sentences.                                                              *)
(***************************************************************************)
EXTENDS JudgingProperties, TotalProofs

-----------------------------------------------------------------------------
(* Following a path, a step at a time.                                     *)

Taken(g, value, steps, n) ==
    g = [i \in 0..n |-> IF i = 0 THEN value ELSE Child(g[i - 1], steps[i])]

Reached(h, value, steps, n) ==
    h = [i \in 0..n |-> IF i = 0 THEN {value}
                        ELSE {w \in UNION {Inside(v) : v \in h[i - 1]} :
                                \E v \in h[i - 1] : Leads(v, steps[i], w)}]

LEMMA TakenExists ==
    ASSUME NEW value, NEW steps
    PROVE  \A n \in Nat : \E g : Taken(g, value, steps, n)
<1> DEFINE G == {n \in Nat : \E g : Taken(g, value, steps, n)}
<1>1. 0 \in G
  <2>1. Taken([i \in 0..0 |-> value], value, steps, 0)
    BY DEF Taken
  <2> QED
    BY <2>1
<1>2. ASSUME NEW n \in Nat, n \in G
      PROVE  n + 1 \in G
  <2>1. PICK g : Taken(g, value, steps, n)
    BY <1>2
  <2> DEFINE more == [i \in 0..(n + 1) |->
                        IF i <= n THEN g[i] ELSE Child(g[n], steps[n + 1])]
  <2>2. \A i \in 0..n : g[i] = IF i = 0 THEN value ELSE Child(g[i - 1], steps[i])
    BY <2>1 DEF Taken
  <2>3. \A i \in 0..(n + 1) :
          more[i] = IF i = 0 THEN value ELSE Child(more[i - 1], steps[i])
    <3> SUFFICES ASSUME NEW i \in 0..(n + 1)
                 PROVE  more[i] = IF i = 0 THEN value ELSE Child(more[i - 1], steps[i])
      OBVIOUS
    <3>1. CASE i <= n
      BY <2>2, <3>1
    <3>2. CASE i = n + 1
      BY <3>2
    <3> QED
      BY <3>1, <3>2
  <2> DEFINE f == more
  <2>4. f = [i \in 0..(n + 1) |-> f[i]]
    OBVIOUS
  <2> HIDE DEF f, more
  <2>5. Taken(f, value, steps, n + 1)
    BY <2>3, <2>4 DEF f, Taken
  <2> QED
    BY <2>5
<1> HIDE DEF G
<1>3. \A n \in Nat : n \in G
  BY <1>1, <1>2, ByCounting
<1> QED
  BY <1>3 DEF G

LEMMA ReachedExists ==
    ASSUME NEW value, NEW steps
    PROVE  \A n \in Nat : \E h : Reached(h, value, steps, n)
<1> DEFINE next(S, step) == {w \in UNION {Inside(v) : v \in S} :
                               \E v \in S : Leads(v, step, w)}
           G == {n \in Nat : \E h : Reached(h, value, steps, n)}
<1>1. 0 \in G
  <2>1. Reached([i \in 0..0 |-> {value}], value, steps, 0)
    BY DEF Reached
  <2> QED
    BY <2>1
<1>2. ASSUME NEW n \in Nat, n \in G
      PROVE  n + 1 \in G
  <2>1. PICK h : Reached(h, value, steps, n)
    BY <1>2
  <2> DEFINE more == [i \in 0..(n + 1) |->
                        IF i <= n THEN h[i] ELSE next(h[n], steps[n + 1])]
  <2>2. \A i \in 0..n : h[i] = IF i = 0 THEN {value} ELSE next(h[i - 1], steps[i])
    BY <2>1 DEF Reached
  <2> HIDE DEF next
  <2>3. \A i \in 0..(n + 1) :
          more[i] = IF i = 0 THEN {value} ELSE next(more[i - 1], steps[i])
    <3> SUFFICES ASSUME NEW i \in 0..(n + 1)
                 PROVE  more[i] = IF i = 0 THEN {value} ELSE next(more[i - 1], steps[i])
      OBVIOUS
    <3>1. CASE i <= n
      <4>1. more[i] = h[i] /\ (i # 0 => more[i - 1] = h[i - 1])
        BY <3>1
      <4> HIDE DEF more
      <4> QED
        BY <2>2, <3>1, <4>1
    <3>2. CASE i = n + 1
      BY <3>2
    <3> QED
      BY <3>1, <3>2
  <2> DEFINE f == more
  <2>4. f = [i \in 0..(n + 1) |-> f[i]]
    OBVIOUS
  <2> HIDE DEF f, more
  <2>5. f = [i \in 0..(n + 1) |-> IF i = 0 THEN {value} ELSE next(f[i - 1], steps[i])]
    BY <2>3, <2>4 DEF f
  <2>6. Reached(f, value, steps, n + 1)
    BY <2>5 DEF next, Reached
  <2> QED
    BY <2>6
<1> HIDE DEF G
<1>3. \A n \in Nat : n \in G
  BY <1>1, <1>2, ByCounting
<1> QED
  BY <1>3 DEF G

LEMMA PathsAreFollowed ==
    ASSUME NEW value, NEW steps, Len(steps) \in Nat
    PROVE  /\ \E g : /\ Taken(g, value, steps, Len(steps))
                     /\ ApplyPath(value, steps) = g[Len(steps)]
           /\ \E h : /\ Reached(h, value, steps, Len(steps))
                     /\ Found(value, steps) = h[Len(steps)]
<1> DEFINE g == CHOOSE g : Taken(g, value, steps, Len(steps))
           h == CHOOSE h : Reached(h, value, steps, Len(steps))
<1>1. ApplyPath(value, steps) = g[Len(steps)]
  BY DEF ApplyPath, Taken
<1>2. Found(value, steps) = h[Len(steps)]
  BY DEF Found, Reached
<1>3. Taken(g, value, steps, Len(steps)) /\ Reached(h, value, steps, Len(steps))
  BY TakenExists, ReachedExists
<1> HIDE DEF g, h
<1> QED
  BY <1>1, <1>2, <1>3

-----------------------------------------------------------------------------
(* A path leads to what its steps, one after the other, select.            *)

Step(step) ==
    \/ step.kind = "member"
    \/ step.kind = "index" /\ step.at \in Int

LEMMA ValueShape ==
    ASSUME NEW v \in Values
    PROVE  /\ v.type \in {"null", "scalar", "array", "object"}
           /\ v.type = "null" <=> v = Null
           /\ v.type = "array" => v.items \in Seq(Values)
           /\ v.type = "object" => \A name \in DOMAIN v.members : v.members[name] \in Values
           /\ Inside(v) \subseteq Values
<1>1. Null.type = "null"
  BY DEF Null
<1>2. /\ v.type \in {"null", "scalar", "array", "object"}
      /\ v.type = "null" <=> v = Null
      /\ v.type = "array" => v.items \in Seq(Values)
      /\ v.type = "object" => \A name \in DOMAIN v.members : v.members[name] \in Values
  BY <1>1, ValuesAssumption
<1>3. CASE v.type = "array"
  <2>1. Inside(v) = {v.items[k] : k \in DOMAIN v.items}
    BY <1>3 DEF Inside
  <2> QED
    BY <1>2, <1>3, <2>1
<1>4. CASE v.type = "object"
  <2>1. Inside(v) = {v.members[name] : name \in DOMAIN v.members}
    BY <1>4 DEF Inside
  <2> QED
    BY <1>2, <1>4, <2>1
<1>5. CASE v.type \notin {"array", "object"}
  <2>1. Inside(v) = {}
    BY <1>5 DEF Inside
  <2> QED
    BY <1>2, <2>1
<1> QED
  BY <1>2, <1>3, <1>4, <1>5

LEMMA StepSelects ==
    ASSUME NEW v \in Values, NEW step, Step(step)
    PROVE  \/ /\ Child(v, step) = Absent
              /\ \A w \in Inside(v) : ~Leads(v, step, w)
           \/ /\ Child(v, step) \in Inside(v)
              /\ \A w \in Inside(v) : Leads(v, step, w) <=> w = Child(v, step)
<1>1. CASE step.kind = "index" /\ v.type = "array"
  <2> DEFINE n  == Len(v.items)
             at == IF step.at < 0 THEN n + step.at ELSE step.at
  <2>1. /\ n \in Nat
        /\ DOMAIN v.items = 1..n
        /\ step.at \in Int
    BY <1>1, ValueShape DEF Step
  <2>2. Inside(v) = {v.items[k] : k \in 1..n}
    BY <1>1, <2>1 DEF Inside
  <2>3. \A w : Leads(v, step, w) <=>
               \E k \in 1..n : v.items[k] = w /\ step.at \in {k - 1, k - 1 - n}
    BY <1>1, <2>1 DEF Leads
  <2>4. Child(v, step) = IF at >= 0 /\ at < n THEN v.items[at + 1] ELSE Absent
    BY <1>1 DEF Child
  <2> HIDE DEF n
  <2>5. \A k \in 1..n : step.at \in {k - 1, k - 1 - n} <=> k = at + 1
    BY <2>1
  <2>6. CASE at >= 0 /\ at < n
    <3>1. at + 1 \in 1..n
      BY <2>1, <2>6
    <3>2. Child(v, step) = v.items[at + 1]
      BY <2>4, <2>6
    <3> HIDE DEF at
    <3> QED
      BY <2>2, <2>3, <2>5, <3>1, <3>2
  <2>7. CASE ~(at >= 0 /\ at < n)
    <3>1. at + 1 \notin 1..n
      BY <2>1, <2>7
    <3>2. Child(v, step) = Absent
      BY <2>4, <2>7
    <3> HIDE DEF at
    <3> QED
      BY <2>3, <2>5, <3>1, <3>2
  <2> QED
    BY <2>6, <2>7
<1>2. CASE step.kind = "index" /\ v.type # "array"
  BY <1>2 DEF Child, Leads
<1>3. CASE step.kind # "index" /\ v.type = "object"
  BY <1>3 DEF Child, Leads, Inside
<1>4. CASE step.kind # "index" /\ v.type # "object"
  BY <1>4 DEF Child, Leads
<1> QED
  BY <1>1, <1>2, <1>3, <1>4

LEMMA NothingLeadsOn ==
    ASSUME NEW step, Step(step)
    PROVE  Child(Absent, step) = Absent
BY DEF Child, Absent

(* Either both ways of following a path come to nothing, or both come to   *)
(* the same value.                                                         *)
Selects(value, steps) ==
    \/ ApplyPath(value, steps) = Absent /\ Found(value, steps) = {}
    \/ /\ ApplyPath(value, steps) \in Values
       /\ Found(value, steps) = {ApplyPath(value, steps)}

LEMMA PathsAgree ==
    ASSUME NEW value \in Values, NEW steps, Len(steps) \in Nat,
           \A i \in 1..Len(steps) : Step(steps[i])
    PROVE  Selects(value, steps)
<1>1. PICK g : /\ Taken(g, value, steps, Len(steps))
               /\ ApplyPath(value, steps) = g[Len(steps)]
  BY PathsAreFollowed
<1>2. PICK h : /\ Reached(h, value, steps, Len(steps))
               /\ Found(value, steps) = h[Len(steps)]
  BY PathsAreFollowed
<1> DEFINE N == Len(steps)
           Same(i) == \/ g[i] = Absent /\ h[i] = {}
                      \/ g[i] \in Values /\ h[i] = {g[i]}
           G == {i \in Nat : i <= N => Same(i)}
<1>3. \A i \in 0..N : g[i] = IF i = 0 THEN value ELSE Child(g[i - 1], steps[i])
  BY <1>1 DEF Taken
<1>4. \A i \in 0..N :
        h[i] = IF i = 0 THEN {value}
               ELSE {w \in UNION {Inside(v) : v \in h[i - 1]} :
                       \E v \in h[i - 1] : Leads(v, steps[i], w)}
  BY <1>2 DEF Reached
<1>5. 0 \in G
  <2>0. 0 \in 0..N
    OBVIOUS
  <2>1. g[0] = value /\ h[0] = {value}
    BY <1>3, <1>4, <2>0
  <2>2. Same(0)
    BY <2>1
  <2> HIDE DEF Same
  <2> QED
    BY <2>2
<1>6. ASSUME NEW i \in Nat, i \in G
      PROVE  i + 1 \in G
  <2> SUFFICES ASSUME i + 1 <= N
               PROVE  Same(i + 1)
    <3> HIDE DEF Same
    <3> QED
      OBVIOUS
  <2>0. Same(i)
    <3> HIDE DEF Same
    <3> QED
      BY <1>6
  <2>1. /\ i <= N
        /\ i + 1 \in 0..N
        /\ i + 1 # 0
        /\ (i + 1) - 1 = i
        /\ Step(steps[i + 1])
    OBVIOUS
  <2>2. g[i + 1] = Child(g[i], steps[i + 1])
    BY <1>3, <2>1
  <2>3. h[i + 1] = {w \in UNION {Inside(v) : v \in h[i]} :
                      \E v \in h[i] : Leads(v, steps[i + 1], w)}
    BY <1>4, <2>1
  <2>4. CASE g[i] = Absent /\ h[i] = {}
    BY <2>1, <2>2, <2>3, <2>4, NothingLeadsOn
  <2>5. CASE g[i] \in Values /\ h[i] = {g[i]}
    <3>1. h[i + 1] = {w \in Inside(g[i]) : Leads(g[i], steps[i + 1], w)}
      BY <2>3, <2>5
    <3>2. Inside(g[i]) \subseteq Values
      BY <2>5, ValueShape
    <3> QED
      BY <2>1, <2>2, <2>5, <3>1, <3>2, StepSelects
  <2> QED
    BY <2>0, <2>4, <2>5
<1> HIDE DEF G
<1>7. N \in G
  BY <1>5, <1>6, ByCounting
<1> QED
  BY <1>1, <1>2, <1>7 DEF G, Selects

-----------------------------------------------------------------------------
(* What is refused, and why.                                               *)

(* No refusal is given when none applies, and only then.                   *)
LEMMA FirstOfNone ==
    ASSUME NEW refusals, NEW n \in Nat, DOMAIN refusals = 1..n,
           \A i \in 1..n : refusals[i][2] # "none"
    PROVE  FirstOf(refusals) = "none" <=> \A i \in 1..n : ~refusals[i][1]
<1> DEFINE applies == {i \in 1..n : refusals[i][1]}
<1>1. FirstOf(refusals) = IF applies = {} THEN "none" ELSE refusals[Min(applies)][2]
  BY DEF FirstOf
<1>2. applies # {} => Min(applies) \in applies
  <2>1. applies \in SUBSET Nat
    OBVIOUS
  <2> HIDE DEF applies
  <2> QED
    BY <2>1, MinOfSet
<1>3. applies = {} <=> \A i \in 1..n : ~refusals[i][1]
  OBVIOUS
<1>4. applies \subseteq 1..n
  OBVIOUS
<1> HIDE DEF applies
<1> QED
  BY <1>1, <1>2, <1>3, <1>4

LEMMA UnreadRefusals ==
    ASSUME NEW source
    PROVE  FirstOf(RefusedUnread(source)) = "none" <=>
             /\ source.kind \in Schemes
             /\ source.url.scheme \in Schemes
             /\ ~IsPrivateHost(source.url)
             /\ ClassifySelector(source.selector) = "path" => ParsePath(source.selector)
<1> DEFINE r == RefusedUnread(source)
<1>1. /\ DOMAIN r = 1..4
      /\ r[1] = <<source.kind \notin Schemes, "unsupported-kind">>
      /\ r[2] = <<source.url.scheme \notin Schemes, "unsupported-url">>
      /\ r[3] = <<IsPrivateHost(source.url), "blocked-host">>
      /\ r[4] = <<ClassifySelector(source.selector) = "path" /\ ~ParsePath(source.selector),
                  "unsupported-selector">>
  BY DEF RefusedUnread
<1> HIDE DEF r
<1>2. \A i \in 1..4 : i = 1 \/ i = 2 \/ i = 3 \/ i = 4
  OBVIOUS
<1>3. \A i \in 1..4 : r[i][2] # "none"
  BY <1>1, <1>2
<1>4. FirstOf(r) = "none" <=> \A i \in 1..4 : ~r[i][1]
  BY <1>1, <1>3, FirstOfNone
<1>5. FirstOf(r) = "none" <=> ~r[1][1] /\ ~r[2][1] /\ ~r[3][1] /\ ~r[4][1]
  BY <1>2, <1>4
<1>6. FirstOf(RefusedUnread(source)) = FirstOf(r)
  BY DEF r
<1>7. /\ r[1][1] = (source.kind \notin Schemes)
      /\ r[2][1] = (source.url.scheme \notin Schemes)
      /\ r[3][1] = IsPrivateHost(source.url)
      /\ r[4][1] = (ClassifySelector(source.selector) = "path" /\ ~ParsePath(source.selector))
  BY <1>1
<1> QED
  BY <1>5, <1>6, <1>7

LEMMA NetworkRefusals ==
    ASSUME NEW response
    PROVE  FirstOf(RefusedByNetwork(response)) = "none" <=>
             /\ "timeout" \notin {response.headers, response.arrival}
             /\ "network" \notin {response.headers, response.arrival}
             /\ response.success
             /\ response.bytes # 0
<1> DEFINE r == RefusedByNetwork(response)
<1>1. /\ DOMAIN r = 1..4
      /\ r[1] = <<"timeout" \in {response.headers, response.arrival}, "timeout">>
      /\ r[2] = <<"network" \in {response.headers, response.arrival}, "network">>
      /\ r[3] = <<~response.success, "http-status">>
      /\ r[4] = <<response.bytes = 0, "empty-body">>
  BY DEF RefusedByNetwork
<1> HIDE DEF r
<1>2. \A i \in 1..4 : i = 1 \/ i = 2 \/ i = 3 \/ i = 4
  OBVIOUS
<1>3. \A i \in 1..4 : r[i][2] # "none"
  BY <1>1, <1>2
<1>4. FirstOf(r) = "none" <=> \A i \in 1..4 : ~r[i][1]
  BY <1>1, <1>3, FirstOfNone
<1>5. FirstOf(r) = "none" <=> ~r[1][1] /\ ~r[2][1] /\ ~r[3][1] /\ ~r[4][1]
  BY <1>2, <1>4
<1>6. FirstOf(RefusedByNetwork(response)) = FirstOf(r)
  BY DEF r
<1>7. /\ r[1][1] = ("timeout" \in {response.headers, response.arrival})
      /\ r[2][1] = ("network" \in {response.headers, response.arrival})
      /\ r[3][1] = (~response.success)
      /\ r[4][1] = (response.bytes = 0)
  BY <1>1
<1> QED
  BY <1>5, <1>6, <1>7

LEMMA SelectorRefusals ==
    ASSUME NEW source, NEW response
    PROVE  FirstOf(RefusedBySelector(source, response)) = "none" <=>
             /\ ~Truncated(response)
             /\ response.body.type # "text"
             /\ Selected(source, response).type \notin {"absent", "null"}
<1> DEFINE r == RefusedBySelector(source, response)
<1>1. /\ DOMAIN r = 1..3
      /\ r[1] = <<Truncated(response), "too-large">>
      /\ r[2] = <<response.body.type = "text", "malformed-body">>
      /\ r[3] = <<Selected(source, response).type \in {"absent", "null"}, "no-match">>
  BY DEF RefusedBySelector
<1> HIDE DEF r
<1>2. \A i \in 1..3 : i = 1 \/ i = 2 \/ i = 3
  OBVIOUS
<1>3. \A i \in 1..3 : r[i][2] # "none"
  BY <1>1, <1>2
<1>4. FirstOf(r) = "none" <=> \A i \in 1..3 : ~r[i][1]
  BY <1>1, <1>3, FirstOfNone
<1>5. FirstOf(r) = "none" <=> ~r[1][1] /\ ~r[2][1] /\ ~r[3][1]
  BY <1>2, <1>4
<1>6. FirstOf(RefusedBySelector(source, response)) = FirstOf(r)
  BY DEF r
<1>7. /\ r[1][1] = Truncated(response)
      /\ r[2][1] = (response.body.type = "text")
      /\ r[3][1] = (Selected(source, response).type \in {"absent", "null"})
  BY <1>1
<1> QED
  BY <1>5, <1>6, <1>7

LEMMA DocumentRefusals ==
    ASSUME NEW response
    PROVE  FirstOf(RefusedAsDocument(response)) = "none" <=> ReadableChars(response) # 0
<1> DEFINE r == RefusedAsDocument(response)
<1>1. DOMAIN r = 1..1 /\ r[1] = <<ReadableChars(response) = 0, "empty-body">>
  BY DEF RefusedAsDocument
<1> HIDE DEF r
<1>2. \A i \in 1..1 : i = 1
  OBVIOUS
<1>3. \A i \in 1..1 : r[i][2] # "none"
  BY <1>1, <1>2
<1>4. FirstOf(r) = "none" <=> \A i \in 1..1 : ~r[i][1]
  BY <1>1, <1>3, FirstOfNone
<1>5. FirstOf(RefusedAsDocument(response)) = FirstOf(r)
  BY DEF r
<1>6. r[1][1] = (ReadableChars(response) = 0)
  BY <1>1
<1>7. FirstOf(r) = "none" <=> ~r[1][1]
  BY <1>2, <1>4
<1> QED
  BY <1>5, <1>6, <1>7

-----------------------------------------------------------------------------
(* A source is observed exactly when it can be read.                       *)

LEMMA DocumentsParse ==
    ASSUME spec \in Specs
    PROVE  /\ Len(spec.sources) \in Nat
           /\ Sources = 1..Len(spec.sources)
           /\ \A i \in Sources :
                LET source == spec.sources[i]
                    steps  == source.selector.steps
                IN /\ source.url = [scheme |-> source.url.scheme, host |-> source.url.host]
                   /\ source.url.host \in {"public", "private"}
                   /\ Len(steps) \in Nat
                   /\ DOMAIN steps = 1..Len(steps)
                   /\ \A k \in DOMAIN steps : steps[k] # Unsupported => Step(steps[k])
<1>1. spec.sources \in Seq(Range(spec.sources))
  BY SpecsAssumption
<1>2. ASSUME NEW i \in Sources
      PROVE  LET source == spec.sources[i]
                 steps  == source.selector.steps
             IN /\ source.url = [scheme |-> source.url.scheme, host |-> source.url.host]
                /\ source.url.host \in {"public", "private"}
                /\ Len(steps) \in Nat
                /\ DOMAIN steps = 1..Len(steps)
                /\ \A k \in DOMAIN steps : steps[k] # Unsupported => Step(steps[k])
  <2> DEFINE source == spec.sources[i]
             steps  == source.selector.steps
  <2>1. source \in Range(spec.sources)
    BY <1>2 DEF Sources, Range
  <2> HIDE DEF source
  <2>2. /\ source.url = [scheme |-> source.url.scheme, host |-> source.url.host]
        /\ source.url.host \in {"public", "private"}
        /\ steps \in Seq(Range(steps))
        /\ \A step \in Range(steps) :
             \/ step = Unsupported
             \/ step.kind = "member"
             \/ step.kind = "index" /\ step.at \in Int
    BY <2>1, SpecsAssumption
  <2>3. \A k \in DOMAIN steps : steps[k] \in Range(steps)
    BY DEF Range
  <2> HIDE DEF steps
  <2>4. \A k \in DOMAIN steps : steps[k] # Unsupported => Step(steps[k])
    BY <2>2, <2>3 DEF Step
  <2>5. Len(steps) \in Nat /\ DOMAIN steps = 1..Len(steps)
    BY <2>2
  <2> QED
    BY <2>2, <2>4, <2>5 DEF steps, source
<1> QED
  BY <1>1, <1>2 DEF Sources

LEMMA ByPathIsPath ==
    ASSUME NEW i
    PROVE  ClassifySelector(Declared(i).selector) = "path" <=> ByPath(i)
BY DEF ClassifySelector, ByPath

(* What was selected is what the path leads to.                            *)
LEMMA SelectedIsFound ==
    ASSUME spec \in Specs, NEW i \in Sources, responses[i] \in Responses,
           responses[i].body.type # "text", ~Truncated(responses[i]),
           ParsePath(Declared(i).selector)
    PROVE  LET selected == Selected(Declared(i), responses[i])
               found    == Found(responses[i].body, Declared(i).selector.steps)
           IN /\ selected.type \notin {"absent", "null"} <=> found \ {Null} # {}
              /\ selected.type # "absent" => found = {selected}
<1> DEFINE body     == responses[i].body
           steps    == Declared(i).selector.steps
           selected == Selected(Declared(i), responses[i])
           found    == Found(body, steps)
<1>1. body \in Values
  BY ResponsesAssumption
<1>2. selected = ApplyPath(body, steps)
  BY DEF Selected, IsJson
<1>3. Len(steps) \in Nat /\ \A k \in 1..Len(steps) : Step(steps[k])
  BY DocumentsParse DEF Declared, ParsePath
<1> HIDE DEF body, steps
<1>4. Selects(body, steps)
  BY <1>1, <1>3, PathsAgree
<1>5. \/ selected = Absent /\ found = {}
      \/ selected \in Values /\ found = {selected}
  BY <1>2, <1>4 DEF Selects
<1>6. Absent.type = "absent"
  BY DEF Absent
<1>7. selected \in Values => /\ selected.type # "absent"
                             /\ selected.type = "null" <=> selected = Null
  BY ValueShape
<1>8. /\ selected.type \notin {"absent", "null"} <=> found \ {Null} # {}
      /\ selected.type # "absent" => found = {selected}
  <2> HIDE DEF selected, found
  <2> QED
    BY <1>5, <1>6, <1>7
<1> QED
  BY <1>8 DEF body, steps

(* Any whole document that is not blank text can be read.                  *)
LEMMA DocumentIsReadable ==
    ASSUME NEW response \in Responses, response.bytes > 0
    PROVE  ReadableChars(response) # 0 <=>
             (response.body.type = "text" => response.body.chars > 0)
<1>1. /\ response.bytes \in Nat
      /\ \/ response.body.type = "text" /\ response.body.chars \in Nat
         \/ response.body \in Values /\ (response.body.type = "scalar" => response.body.chars > 0)
  BY ResponsesAssumption
<1>2. Kept(response) \in Nat \ {0}
  BY <1>1, EvidenceAssumption DEF Kept
<1>3. Null.chars = 4
  BY DEF Null
<1>4. CASE response.body.type = "text"
  <2>1. response.body \notin Values
    BY <1>4, ValueShape
  <2>2. response.body.chars \in Nat
    BY <1>1, <2>1
  <2> QED
    BY <1>4, <2>2 DEF ReadableChars
<1>5. CASE response.body.type # "text" /\ IsJson(response) /\ response.body.type \in {"scalar", "null"}
  <2>1. response.body \in Values
    BY <1>1, <1>5
  <2>2. response.body.type = "null" => response.body.chars = 4
    BY <1>3, <2>1, ValueShape
  <2>3. response.body.chars # 0
    BY <1>1, <1>5, <2>2
  <2>4. ReadableChars(response) = response.body.chars
    BY <1>5 DEF ReadableChars
  <2> QED
    BY <1>5, <2>3, <2>4
<1>6. CASE response.body.type # "text" /\ ~(IsJson(response) /\ response.body.type \in {"scalar", "null"})
  <2>1. ReadableChars(response) = Kept(response)
    BY <1>6 DEF ReadableChars
  <2> QED
    BY <1>2, <1>6, <2>1
<1> QED
  BY <1>4, <1>5, <1>6

LEMMA ObservedIsReadable ==
    ASSUME spec \in Specs, NEW i \in Sources, responses[i] \in Responses
    PROVE  Observations[i].ok <=> Readable(i)
<1> DEFINE source == Declared(i)
           answer == responses[i]
<1>1. Observations[i] = ObserveSource(source, answer)
  BY DEF Observations, Declared
<1>2. ObserveSource(source, answer).ok <=> Refusal(source, answer) = "none"
  BY DEF ObserveSource
<1>3. /\ source.url = [scheme |-> source.url.scheme, host |-> source.url.host]
      /\ source.url.host \in {"public", "private"}
  BY DocumentsParse DEF Declared
<1>4. /\ {answer.headers, answer.arrival} \subseteq {"ok", "timeout", "network"}
      /\ answer.bytes \in Nat
      /\ MaxBytes \in Nat
  BY ResponsesAssumption, EvidenceAssumption
<1> HIDE DEF source, answer
<1>5. /\ source.url.scheme \in Schemes /\ ~IsPrivateHost(source.url)
        <=> source.url \in [scheme : {"http", "https"}, host : {"public"}]
  BY <1>3 DEF Schemes, IsPrivateHost
<1>6. FirstOf(RefusedByNetwork(answer)) = "none" <=>
        /\ answer.headers = "ok" /\ answer.arrival = "ok"
        /\ answer.success
        /\ answer.bytes > 0
  BY <1>4, NetworkRefusals
<1>7. FirstOf(RefusedUnread(source)) = "none" <=>
        /\ source.kind \in {"http", "https"}
        /\ source.url \in [scheme : {"http", "https"}, host : {"public"}]
        /\ ByPath(i) => ParsePath(source.selector)
  BY <1>5, UnreadRefusals, ByPathIsPath DEF source, Schemes
<1>8. Refusal(source, answer) = "none" <=>
        /\ FirstOf(RefusedUnread(source)) = "none"
        /\ FirstOf(RefusedByNetwork(answer)) = "none"
        /\ IF ByPath(i) THEN FirstOf(RefusedBySelector(source, answer)) = "none"
                        ELSE FirstOf(RefusedAsDocument(answer)) = "none"
  BY ByPathIsPath DEF Refusal, source
<1>9. ParsePath(source.selector) <=> Unsupported \notin Range(source.selector.steps)
  BY DEF ParsePath, Range
<1>10. ASSUME ByPath(i), ParsePath(source.selector)
       PROVE  FirstOf(RefusedBySelector(source, answer)) = "none" <=>
                /\ answer.bytes <= MaxBytes
                /\ answer.body.type # "text"
                /\ Found(answer.body, source.selector.steps) \ {Null} # {}
  <2>1. ~Truncated(answer) <=> answer.bytes <= MaxBytes
    BY <1>4 DEF Truncated
  <2>2. answer.body.type # "text" /\ ~Truncated(answer) =>
          (Selected(source, answer).type \notin {"absent", "null"} <=>
             Found(answer.body, source.selector.steps) \ {Null} # {})
    BY <1>10, SelectedIsFound DEF source, answer
  <2> QED
    BY <2>1, <2>2, SelectorRefusals
<1>11. ASSUME answer.bytes > 0
       PROVE  FirstOf(RefusedAsDocument(answer)) = "none" <=>
                (answer.body.type = "text" => answer.body.chars > 0)
  BY <1>11, DocumentRefusals, DocumentIsReadable DEF answer
<1>12. Readable(i) <=>
         /\ source.kind \in {"http", "https"}
         /\ source.url \in [scheme : {"http", "https"}, host : {"public"}]
         /\ answer.headers = "ok" /\ answer.arrival = "ok"
         /\ answer.success
         /\ answer.bytes > 0
         /\ IF ByPath(i)
            THEN /\ Unsupported \notin Range(source.selector.steps)
                 /\ answer.bytes <= MaxBytes
                 /\ answer.body.type # "text"
                 /\ Found(answer.body, source.selector.steps) \ {Null} # {}
            ELSE answer.body.type = "text" => answer.body.chars > 0
  BY DEF Readable, source, answer
<1> QED
  BY <1>1, <1>2, <1>6, <1>7, <1>8, <1>9, <1>10, <1>11, <1>12

-----------------------------------------------------------------------------
(* What a receipt rests on.                                                *)

Decision == DecideByThreshold(spec.rules, Observations)

(* Made in code of a decision, or by a model that was shown the sources.   *)
ByCode(r) ==
    /\ Decision # Declines
    /\ r.route = "arithmetic"
    /\ r.outcome = Decision.outcome
    /\ r.provider = "none" /\ ~r.attested

ByAnswer(r) ==
    /\ r.route = "model"
    /\ r.outcome \in {NO, YES} => r.attested
    /\ r.shown = ObservationsSection(Observations)

Grounded(r) ==
    /\ r.citations = ObservedIndices(Observations)
    /\ ByCode(r) \/ ByAnswer(r)

(* Sources are answered before anybody judges, once and for all, and each  *)
(* receipt rests on those answers.                                         *)
JudgingInv ==
    /\ spec \in Specs
    /\ responses \in [Sources -> Responses \cup {NoResponse}]
    /\ stage = "reading" => receipts = <<>>
    /\ stage # "reading" => \A i \in Sources : responses[i] \in Responses
    /\ receipts \in Seq(Range(receipts))
    /\ \A r \in Range(receipts) : Grounded(r)

LEMMA RangeOfAppend ==
    ASSUME NEW s, s \in Seq(Range(s)), NEW x
    PROVE  /\ Range(Append(s, x)) = Range(s) \cup {x}
           /\ Append(s, x) \in Seq(Range(Append(s, x)))
<1> DEFINE t == Append(s, x)
<1>0. Len(s) \in Nat /\ DOMAIN s = 1..Len(s)
  OBVIOUS
<1>1. /\ t \in Seq(Range(s) \cup {x})
      /\ Len(t) = Len(s) + 1
      /\ DOMAIN t = 1..(Len(s) + 1)
      /\ \A i \in 1..Len(s) : t[i] = s[i]
      /\ t[Len(s) + 1] = x
  <2>1. s \in Seq(Range(s) \cup {x})
    <3>1. \A i \in 1..Len(s) : s[i] \in Range(s)
      BY <1>0 DEF Range
    <3> QED
      BY <1>0, <3>1
  <2> QED
    BY <2>1
<1> HIDE DEF t
<1>2. \A i \in DOMAIN t : i \in DOMAIN s \/ i = Len(s) + 1
  BY <1>0, <1>1
<1>3. Range(t) = Range(s) \cup {x}
  BY <1>0, <1>1, <1>2 DEF Range
<1> QED
  BY <1>1, <1>3 DEF t

LEMMA CommitIsGrounded ==
    ASSUME JudgingInv, stage = "judging", NEW judgement, Commit(judgement),
           Grounded(Receipt(judgement))
    PROVE  JudgingInv'
<1>1. /\ UNCHANGED <<spec, responses>>
      /\ receipts' = Append(receipts, Receipt(judgement))
      /\ stage' # "reading"
  BY DEF Commit
<1>2. /\ receipts' \in Seq(Range(receipts'))
      /\ Range(receipts') = Range(receipts) \cup {Receipt(judgement)}
  <2> HIDE DEF Grounded
  <2>1. receipts \in Seq(Range(receipts))
    BY DEF JudgingInv
  <2> QED
    BY <1>1, <2>1, RangeOfAppend
<1>3. \A r : Grounded(r)' <=> Grounded(r)
  BY <1>1 DEF Grounded, ByCode, ByAnswer, Decision, Observations, Sources
<1>4. Range(receipts)' = Range(receipts')
  BY DEF Range
<1> QED
  BY <1>1, <1>2, <1>3, <1>4 DEF JudgingInv, Sources

LEMMA ReceiptsAreGrounded ==
    ASSUME JudgingInv, stage = "judging"
    PROVE  /\ Decision # Declines => Grounded(Receipt(ByArithmetic(Decision)))
           /\ \A reply : Grounded(Receipt(ByModel(reply)))
<1>1. ASSUME Decision # Declines
      PROVE  Grounded(Receipt(ByArithmetic(Decision)))
  <2> DEFINE r == Receipt(ByArithmetic(Decision))
  <2>1. /\ r.citations = ObservedIndices(Observations)
        /\ r.route = "arithmetic"
        /\ r.outcome = Decision.outcome
        /\ r.provider = "none" /\ ~r.attested
    BY DEF Receipt, ByArithmetic, VoteOf
  <2> HIDE DEF r
  <2>2. Grounded(r)
    BY <1>1, <2>1 DEF Grounded, ByCode
  <2> QED
    BY <2>2 DEF r
<1>2. ASSUME NEW reply
      PROVE  Grounded(Receipt(ByModel(reply)))
  <2> DEFINE r == Receipt(ByModel(reply))
  <2>1. /\ r.citations = ObservedIndices(Observations)
        /\ r.route = "model"
        /\ r.attested = TeeVerified(reply)
        /\ r.outcome \notin {NO, YES} \/ TeeVerified(reply)
        /\ r.shown = ObservationsSection(Observations)
    BY DEF Receipt, ByModel, VoteOf, NO, YES, UNRESOLVABLE
  <2> HIDE DEF r
  <2>2. Grounded(r)
    BY <2>1 DEF Grounded, ByAnswer
  <2> QED
    BY <2>2 DEF r
<1> QED
  BY <1>1, <1>2

(* The inductive invariant of the committee's middle: nobody judges before *)
(* every source was answered or given up, answers do not change after      *)
(* that, and every receipt rests on them.                                  *)
THEOREM JudgingStaysGrounded == Spec => []JudgingInv
<1>1. Init => JudgingInv
  <2> SUFFICES ASSUME Init PROVE JudgingInv
    OBVIOUS
  <2>1. Range(receipts) = {} /\ receipts \in Seq(Range(receipts))
    BY DEF Init, Range
  <2> QED
    BY <2>1 DEF Init, JudgingInv
<1>2. JudgingInv /\ [Next]_judgingVars => JudgingInv'
  <2> SUFFICES ASSUME JudgingInv, [Next]_judgingVars PROVE JudgingInv'
    OBVIOUS
  <2>1. ASSUME UNCHANGED judgingVars
        PROVE  JudgingInv'
    BY <2>1 DEF JudgingInv, judgingVars, Grounded, ByCode, ByAnswer, Decision,
       Observations, Sources, Range
  <2>2. ASSUME NEW i \in Sources, Arrives(i)
        PROVE  JudgingInv'
    <3>1. receipts = <<>> /\ Range(receipts') = {} /\ UNCHANGED <<spec, receipts, stage>>
      BY <2>2 DEF JudgingInv, Arrives, Range
    <3>2. responses' \in [Sources -> Responses \cup {NoResponse}]
      BY <2>2 DEF JudgingInv, Arrives
    <3>3. stage' = "reading"
      BY <2>2 DEF Arrives
    <3>4. receipts' \in Seq(Range(receipts'))
      BY <3>1
    <3>5. Range(receipts)' = Range(receipts')
      BY DEF Range
    <3> QED
      BY <3>1, <3>2, <3>3, <3>4, <3>5 DEF JudgingInv, Sources
  <2>3. ASSUME Gathered
        PROVE  JudgingInv'
    <3>1. /\ UNCHANGED <<spec, responses, receipts>>
          /\ receipts = <<>>
          /\ stage' # "reading"
          /\ \A i \in Sources : responses[i] \in Responses
      BY <2>3 DEF JudgingInv, Gathered
    <3>2. Range(receipts)' = {}
      BY <3>1 DEF Range
    <3>3. receipts' \in Seq(Range(receipts)')
      BY <3>1
    <3> QED
      BY <3>1, <3>2, <3>3 DEF JudgingInv, Sources
  <2>4. ASSUME JudgeByArithmetic
        PROVE  JudgingInv'
    BY <2>4, ReceiptsAreGrounded, CommitIsGrounded DEF JudgeByArithmetic, Decision
  <2>5. ASSUME NEW reply \in Replies, JudgeByModel(reply)
        PROVE  JudgingInv'
    BY <2>5, ReceiptsAreGrounded, CommitIsGrounded DEF JudgeByModel
  <2>6. ASSUME Throw, stage = "judging"
        PROVE  JudgingInv'
    BY <2>6 DEF Throw, JudgingInv, Grounded, ByCode, ByAnswer, Decision,
       Observations, Sources, Range
  <2> QED
    BY <2>1, <2>2, <2>3, <2>4, <2>5, <2>6
    DEF Next, ReplyUnusable, MemberUnusable, Ended
<1> QED
  BY <1>1, <1>2, PTL DEF Spec

LEMMA JudgedAfterReading ==
    ASSUME JudgingInv, NEW r \in Range(receipts)
    PROVE  /\ stage # "reading"
           /\ Grounded(r)
           /\ \A i \in Sources : responses[i] \in Responses
<1>1. receipts # <<>>
  BY DEF Range
<1> QED
  BY <1>1 DEF JudgingInv

(* Every receipt cites exactly the sources that could be read, and every   *)
(* model was shown those and told the others are missing, for documents of *)
(* any depth and paths of any length.                                      *)
THEOREM ReceiptsCiteWhatWasRead == Spec => []CitationsWereRead
<1>1. JudgingInv => CitationsWereRead
  <2> SUFFICES ASSUME JudgingInv, NEW r \in Range(receipts)
               PROVE  /\ r.citations = {i \in Sources : Readable(i)}
                      /\ r.route = "model" =>
                           r.shown = [i \in Sources |->
                                        IF Readable(i) THEN "data" ELSE "NOT OBSERVED"]
    BY DEF CitationsWereRead
  <2>1. \A i \in Sources : Observations[i].ok <=> Readable(i)
    BY JudgedAfterReading, ObservedIsReadable DEF JudgingInv
  <2>2. DOMAIN Observations = Sources
    BY DEF Observations
  <2>3. Grounded(r)
    BY JudgedAfterReading
  <2>4. r.citations = {i \in Sources : Observations[i].ok}
    BY <2>2, <2>3 DEF Grounded, ObservedIndices
  <2>5. r.route = "model" =>
          r.shown = [i \in Sources |-> IF Observations[i].ok THEN "data" ELSE "NOT OBSERVED"]
    BY <2>2, <2>3 DEF Grounded, ByCode, ByAnswer, ObservationsSection
  <2> QED
    BY <2>1, <2>4, <2>5
<1> QED
  BY <1>1, JudgingStaysGrounded, PTL

(* A vote for a side rests on an attestation, or on a comparison in code    *)
(* over a source that was read and that names no provider.                 *)
THEOREM SidesAreBacked == Spec => []SidesHaveBacking
<1>1. JudgingInv => SidesHaveBacking
  <2> SUFFICES ASSUME JudgingInv, NEW r \in Range(receipts)
               PROVE  /\ r.outcome \in {NO, YES} =>
                            r.attested \/ (r.route = "arithmetic" /\ r.citations # {})
                      /\ r.route = "arithmetic" => r.provider = "none" /\ ~r.attested
    BY DEF SidesHaveBacking
  <2>1. Grounded(r)
    BY JudgedAfterReading
  <2>2. CASE ByAnswer(r)
    BY <2>2 DEF ByAnswer
  <2>3. CASE ByCode(r)
    <3>1. ReadsOneNumber(Observations)
      BY <2>3 DEF ByCode, Decision, DecideByThreshold
    <3>2. DOMAIN Observations = 1..Len(spec.sources)
      BY DocumentsParse DEF JudgingInv, Observations
    <3>3. Len(Observations) = Len(spec.sources)
      BY DocumentsParse DEF JudgingInv, Observations
    <3>4. 1 \in ObservedIndices(Observations)
      BY <3>1, <3>2, <3>3 DEF ReadsOneNumber, ObservedIndices
    <3> QED
      BY <2>1, <2>3, <3>4 DEF Grounded, ByCode
  <2> QED
    BY <2>1, <2>2, <2>3 DEF Grounded
<1> QED
  BY <1>1, JudgingStaysGrounded, PTL

-----------------------------------------------------------------------------
(* What is decided in code.                                                *)

LEMMA RulesParse ==
    ASSUME spec \in Specs, NEW k \in DOMAIN spec.rules
    PROVE  /\ DOMAIN spec.rules = 1..Len(spec.rules) /\ Len(spec.rules) \in Nat
           /\ spec.rules[k] \in Range(spec.rules)
           /\ Len(spec.rules[k]) \in Nat
           /\ DOMAIN spec.rules[k] = 1..Len(spec.rules[k])
           /\ \A i \in DOMAIN spec.rules[k] :
                \/ spec.rules[k][i] \in {YesIf, NoIf}
                \/ spec.rules[k][i].word \in {"negation", "strictly"}
<1>1. /\ spec.rules \in Seq(Range(spec.rules))
      /\ spec.rules[k] \in Range(spec.rules)
  BY SpecsAssumption DEF Range
<1>2. PICK sentence : sentence = spec.rules[k]
  OBVIOUS
<1>3. /\ sentence \in Seq(Range(sentence))
      /\ \A word \in Range(sentence) :
           word \in {YesIf, NoIf} \/ word.word \in {"negation", "strictly"}
  BY <1>1, <1>2, SpecsAssumption
<1>4. \A i \in DOMAIN sentence : sentence[i] \in Range(sentence)
  BY DEF Range
<1>5. DOMAIN sentence = 1..Len(sentence) /\ Len(sentence) \in Nat
  BY <1>3
<1>6. DOMAIN spec.rules = 1..Len(spec.rules) /\ Len(spec.rules) \in Nat
  BY <1>1
<1> QED
  BY <1>1, <1>2, <1>3, <1>4, <1>5, <1>6

(* Which sentence a decision is made of, and where it compares.            *)
LEMMA DecisionIsMade ==
    ASSUME JudgingInv, Decision # Declines
    PROVE  /\ ReadsOneNumber(Observations)
           /\ \E k \in DOMAIN spec.rules : \E at \in DOMAIN spec.rules[k] :
                LET sentence == spec.rules[k]
                IN /\ \A j \in DOMAIN spec.rules : j # k => Positions(spec.rules[j], "strictly") = {}
                   /\ Decides(sentence)
                   /\ Positions(sentence, "strictly") = {at}
                   /\ Decision.outcome = IF Holds(sentence[at].sign, Observations[1].number,
                                                  sentence[at].number)
                                         THEN YES ELSE NO
<1> DEFINE candidates == {i \in DOMAIN spec.rules : Positions(spec.rules[i], "strictly") # {}}
           sentence   == spec.rules[Min(candidates)]
           compares   == Positions(sentence, "strictly")
           compare    == sentence[Min(compares)]
<1>1. /\ ReadsOneNumber(Observations)
      /\ Cardinality(candidates) = 1
      /\ Decides(sentence)
      /\ Decision.outcome = IF Holds(compare.sign, Observations[1].number, compare.number)
                            THEN YES ELSE NO
  BY DEF Decision, DecideByThreshold
<1>2. spec \in Specs
  BY DEF JudgingInv
<1>3. spec.rules \in Seq(Range(spec.rules))
  BY <1>2, SpecsAssumption
<1>4. candidates \in SUBSET (1..Len(spec.rules)) /\ Len(spec.rules) \in Nat
  BY <1>3
<1>5. IsFiniteSet(candidates)
  <2>1. IsFiniteSet(1..Len(spec.rules))
    BY <1>4, FS_Interval
  <2> HIDE DEF candidates
  <2> QED
    BY <1>4, <2>1, FS_Subset
<1>6. PICK k : candidates = {k}
  <2> HIDE DEF candidates
  <2> QED
    BY <1>1, <1>5, FS_Singleton
<1>7. k \in DOMAIN spec.rules /\ k \in Nat
  BY <1>4, <1>6
<1>8. Min(candidates) = k
  <2> HIDE DEF candidates
  <2> QED
    BY <1>6, <1>7, MinOfSet
<1>9. sentence = spec.rules[k]
  BY <1>8
<1>10. /\ Len(sentence) \in Nat
       /\ DOMAIN sentence = 1..Len(sentence)
  BY <1>2, <1>7, <1>9, RulesParse
<1> HIDE DEF sentence
<1>11. compares \in SUBSET (1..Len(sentence)) /\ Cardinality(compares) = 1
  BY <1>1, <1>10 DEF Positions, Decides
<1>12. IsFiniteSet(compares)
  <2>1. IsFiniteSet(1..Len(sentence))
    BY <1>10, FS_Interval
  <2> HIDE DEF compares
  <2> QED
    BY <1>11, <2>1, FS_Subset
<1>13. PICK at : compares = {at}
  <2> HIDE DEF compares
  <2> QED
    BY <1>11, <1>12, FS_Singleton
<1>14. at \in DOMAIN sentence /\ at \in Nat
  BY <1>10, <1>11, <1>13
<1>15. Min(compares) = at
  <2> HIDE DEF compares
  <2> QED
    BY <1>13, <1>14, MinOfSet
<1>16. \A j \in DOMAIN spec.rules : j # k => Positions(spec.rules[j], "strictly") = {}
  BY <1>6
<1> QED
  BY <1>1, <1>7, <1>9, <1>13, <1>14, <1>15, <1>16

(* A sentence that is plainly worded and decides says what was compared.   *)
LEMMA SentenceSays ==
    ASSUME JudgingInv, PlainlyWorded, NEW k \in DOMAIN spec.rules,
           NEW at \in DOMAIN spec.rules[k],
           Positions(spec.rules[k], "strictly") = {at},
           Decides(spec.rules[k]),
           NEW number
    PROVE  SaysYes(spec.rules[k], number) <=>
             Holds(spec.rules[k][at].sign, number, spec.rules[k][at].number)
<1> PICK sentence : sentence = spec.rules[k]
  OBVIOUS
<1> DEFINE n      == Len(sentence)
           opened == {i \in 1..(at - 1) : sentence[i] \in {YesIf, NoIf}}
           clause == Max(opened)
           turned == {i \in clause..Len(sentence) : sentence[i].word = "negation"}
           grants == Positions(sentence, "yes if")
<1>1. spec \in Specs
  BY DEF JudgingInv
<1>2. /\ n \in Nat
      /\ DOMAIN sentence = 1..n
      /\ \A i \in 1..n : \/ sentence[i] \in {YesIf, NoIf}
                         \/ sentence[i].word \in {"negation", "strictly"}
      /\ sentence \in Range(spec.rules)
  BY <1>1, RulesParse
<1>3. /\ \A i \in 1..n :
           sentence[i].word = "negation" => sentence[i].text \in RecognisedNegations
      /\ \A i, j, c \in 1..n :
           sentence[i] = YesIf /\ sentence[j] = NoIf /\ sentence[c].word = "strictly"
             => ~(i < j /\ j < c)
  BY <1>1, <1>2 DEF PlainlyWorded
<1>4. /\ grants # {}
      /\ Min(grants) < at
      /\ ~Negated(sentence)
  BY DEF Decides
<1> HIDE DEF n
<1>5. /\ at \in 1..n
      /\ sentence[at].word = "strictly"
      /\ \A i \in 1..n : sentence[i].word = "strictly" => i = at
  BY <1>2 DEF Positions
<1>6. /\ YesIf.word = "yes if"
      /\ NoIf.word = "no if"
  BY DEF YesIf, NoIf
<1>7. grants \in SUBSET Nat
  <2>1. grants \subseteq 1..n
    BY <1>2 DEF Positions
  <2>2. 1..n \subseteq Nat
    OBVIOUS
  <2> HIDE DEF grants
  <2> QED
    BY <2>1, <2>2
<1>8. PICK first : first \in grants /\ first = Min(grants)
  <2> HIDE DEF grants
  <2> QED
    BY <1>4, <1>7, MinOfSet
<1>9. /\ first \in 1..n
      /\ first < at
      /\ sentence[first] = YesIf
  BY <1>2, <1>4, <1>6, <1>8 DEF Positions
<1>10. first \in opened
  BY <1>5, <1>9
<1>11. clause \in opened /\ \A y \in opened : y <= clause
  <2>1. opened \in SUBSET (1..(at - 1)) /\ at - 1 \in Nat
    BY <1>5
  <2> HIDE DEF opened
  <2> QED
    BY <1>10, <2>1, MaxOfSet
<1>12. /\ clause \in 1..n
       /\ clause < at
       /\ first <= clause
       /\ sentence[clause] \in {YesIf, NoIf}
  BY <1>2, <1>5, <1>10, <1>11
<1> HIDE DEF clause
<1>13. sentence[clause] = YesIf
  <2> SUFFICES ASSUME sentence[clause] = NoIf PROVE FALSE
    BY <1>12
  <2>1. first # clause
    BY <1>6, <1>9
  <2> QED
    BY <1>3, <1>5, <1>9, <1>12, <2>1
<1>14. turned = {}
  <2> SUFFICES ASSUME NEW i \in clause..n, sentence[i].word = "negation" PROVE FALSE
    BY DEF n
  <2>1. i \in 1..n
    BY <1>2, <1>12
  <2>2. sentence[i].text \in RecognisedNegations
    BY <1>3, <2>1
  <2>3. i \in Positions(sentence, "negation")
    BY <1>2, <2>1 DEF Positions
  <2> QED
    BY <1>4, <2>2, <2>3 DEF Negated
<1>15. Cardinality(turned) % 2 = 0
  <2>1. Cardinality(turned) = 0
    BY <1>14, FS_EmptySet
  <2> HIDE DEF turned
  <2> QED
    BY <2>1
<1>16. (CHOOSE i \in DOMAIN sentence : sentence[i].word = "strictly") = at
  BY <1>2, <1>5
<1> DEFINE met == IF sentence[at].sign = ">" THEN number > sentence[at].number
                                             ELSE number < sentence[at].number
<1>17. SaysYes(sentence, number) <=>
         ((met <=> (Cardinality(turned) % 2 = 0)) <=> (sentence[clause] = YesIf))
  BY <1>16 DEF SaysYes, clause
<1>18. Holds(sentence[at].sign, number, sentence[at].number) <=> met
  BY DEF Holds
<1> HIDE DEF met, turned
<1> QED
  BY <1>13, <1>15, <1>17, <1>18

(* The number a comparison is made of is the one the source reads as.      *)
LEMMA NumberIsRead ==
    ASSUME spec \in Specs, 1 \in Sources, responses[1] \in Responses,
           ReadsOneNumber(Observations), Len(spec.sources) = 1
    PROVE  /\ Readable(1)
           /\ Observations[1].number = NumberOf(1)
<1> DEFINE source == Declared(1)
           answer == responses[1]
<1>1. Observations[1] = ObserveSource(source, answer)
  BY DEF Observations, Declared
<1>2. /\ Observations[1].ok
      /\ ~Observations[1].clipped
      /\ Observations[1].number # NotANumber
  BY DEF ReadsOneNumber
<1>3. Readable(1)
  BY <1>2, ObservedIsReadable
<1>4. Refusal(source, answer) = "none"
  BY <1>1, <1>2 DEF ObserveSource
<1>5. CASE ByPath(1)
  <2> DEFINE selected == Selected(source, answer)
             found    == Found(answer.body, source.selector.steps)
  <2>1. ClassifySelector(source.selector) = "path"
    BY <1>5, ByPathIsPath
  <2>2. FirstOf(RefusedBySelector(source, answer)) = "none"
    BY <1>4, <2>1 DEF Refusal
  <2>3. FirstOf(RefusedUnread(source)) = "none"
    BY <1>4 DEF Refusal
  <2>4. /\ ~Truncated(answer)
        /\ answer.body.type # "text"
        /\ selected.type \notin {"absent", "null"}
    BY <2>2, SelectorRefusals
  <2>5. ParsePath(source.selector)
    BY <2>1, <2>3, UnreadRefusals
  <2>6. found = {selected}
    BY <2>4, <2>5, SelectedIsFound
  <2>7. NumberOf(1) = selected.number
    <3>1. NumberOf(1) = (CHOOSE v \in found : TRUE).number
      BY <1>5 DEF NumberOf
    <3> HIDE DEF found, selected
    <3> QED
      BY <2>6, <3>1
  <2>8. Observations[1].number = Rendered(selected).number
    BY <1>1, <1>4, <2>1 DEF ObserveSource
  <2>9. Rendered(selected).number # NotANumber
    BY <1>2, <2>8
  <2> HIDE DEF selected
  <2>10. Rendered(selected).number = selected.number
    BY <2>9 DEF Rendered, Clip
  <2> QED
    BY <1>3, <2>7, <2>8, <2>10
<1>6. CASE ~ByPath(1)
  <2>1. ClassifySelector(source.selector) # "path"
    BY <1>6, ByPathIsPath
  <2>2. Observations[1].number = Clip(ReadableChars(answer), DocumentNumber(answer)).number
    BY <1>1, <1>4, <2>1 DEF ObserveSource
  <2>3. Clip(ReadableChars(answer), DocumentNumber(answer)).number # NotANumber
    BY <1>2, <2>2
  <2>4. Observations[1].number = DocumentNumber(answer)
    BY <2>2, <2>3 DEF Clip
  <2>5. DocumentNumber(answer) = answer.body.number
    BY <1>2, <2>4 DEF DocumentNumber
  <2>6. NumberOf(1) = answer.body.number
    BY <1>6 DEF NumberOf
  <2> QED
    BY <1>3, <2>4, <2>5, <2>6
<1> QED
  BY <1>5, <1>6

LEMMA ArithmeticReadsOne ==
    ASSUME JudgingInv, NEW r \in Range(receipts), r.route = "arithmetic"
    PROVE  /\ Len(spec.sources) = 1
           /\ Readable(1)
           /\ Observations[1].number = NumberOf(1)
<1>1. Grounded(r) /\ spec \in Specs /\ \A i \in Sources : responses[i] \in Responses
  BY JudgedAfterReading DEF JudgingInv
<1>2. ReadsOneNumber(Observations)
  BY <1>1 DEF Grounded, ByCode, ByAnswer, Decision, DecideByThreshold
<1>3. Sources = 1..Len(spec.sources) /\ Len(spec.sources) \in Nat
  BY <1>1, DocumentsParse
<1>4. Len(Observations) = Len(spec.sources)
  BY <1>3 DEF Observations
<1>5. Len(spec.sources) = 1 /\ 1 \in Sources
  BY <1>2, <1>3, <1>4 DEF ReadsOneNumber
<1> QED
  BY <1>1, <1>2, <1>5, NumberIsRead

(* Where rules are plainly worded, a market decided in code is decided as  *)
(* its rules say, of the one source it has, which could be read.           *)
THEOREM ArithmeticFollowsRules ==
    ASSUME PlainlyWorded
    PROVE  Spec => []ArithmeticIsRight
<1>1. JudgingInv => ArithmeticIsRight
  <2> SUFFICES ASSUME JudgingInv, NEW r \in Range(receipts), r.route = "arithmetic",
                      NEW s \in Range(spec.rules), \E w \in Range(s) : w.word = "strictly"
               PROVE  r.outcome = IF SaysYes(s, NumberOf(1)) THEN YES ELSE NO
    <3>1. ASSUME JudgingInv, NEW r \in Range(receipts), r.route = "arithmetic"
          PROVE  Len(spec.sources) = 1 /\ Readable(1)
      BY <3>1, ArithmeticReadsOne
    <3> QED
      BY <3>1 DEF ArithmeticIsRight
  <2>1. Decision # Declines /\ r.outcome = Decision.outcome
    BY JudgedAfterReading DEF Grounded, ByCode, ByAnswer
  <2>2. Observations[1].number = NumberOf(1)
    BY ArithmeticReadsOne
  <2>3. PICK k \in DOMAIN spec.rules :
          /\ \A j \in DOMAIN spec.rules : j # k => Positions(spec.rules[j], "strictly") = {}
          /\ Decides(spec.rules[k])
          /\ \E at \in DOMAIN spec.rules[k] :
               /\ Positions(spec.rules[k], "strictly") = {at}
               /\ Decision.outcome = IF Holds(spec.rules[k][at].sign, Observations[1].number,
                                              spec.rules[k][at].number)
                                     THEN YES ELSE NO
    BY <2>1, DecisionIsMade
  <2>4. PICK at \in DOMAIN spec.rules[k] :
          /\ Positions(spec.rules[k], "strictly") = {at}
          /\ Decision.outcome = IF Holds(spec.rules[k][at].sign, Observations[1].number,
                                         spec.rules[k][at].number)
                                THEN YES ELSE NO
    BY <2>3
  <2>5. s = spec.rules[k]
    <3>1. PICK j \in DOMAIN spec.rules : s = spec.rules[j]
      BY DEF Range
    <3>2. PICK i \in DOMAIN s : s[i].word = "strictly"
      BY DEF Range
    <3>3. Positions(s, "strictly") # {}
      BY <3>2 DEF Positions
    <3> QED
      BY <2>3, <3>1, <3>3
  <2> QED
    BY <2>1, <2>2, <2>3, <2>4, <2>5, SentenceSays
<1> QED
  BY <1>1, JudgingStaysGrounded, PTL
=============================================================================

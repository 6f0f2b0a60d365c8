-------------------------- MODULE AggregateProofs --------------------------
(***************************************************************************)
(* The built-in strategies compute what they should, for any results, any  *)
(* number of them, any batches and any regions.                            *)
(***************************************************************************)
EXTENDS Aggregate, FiniteSetTheorems, WellFoundedInduction, NaturalsInduction, TLAPS

\* A set of naturals has a least element.
LEMMA Least ==
    ASSUME NEW S, S \subseteq Nat, S # {}
    PROVE  \E k \in S : \A l \in S : k <= l
<1>1. PICK k \in S : \A l \in S : ~ (<<l, k>> \in OpToRel(<, Nat))
  BY NatLessThanWellFounded, WFMin
<1>2. \A l \in S : ~ (l < k)
  BY <1>1 DEF OpToRel
<1>3. \A l \in S : k <= l
  BY <1>2
<1> QED BY <1>3

\* Induction up to n.
LEMMA Climb ==
    ASSUME NEW n \in Nat, NEW T, 0 \in T, \A k \in 1..n : k - 1 \in T => k \in T
    PROVE  0..n \subseteq T
<1> DEFINE Missing == {k \in 0..n : k \notin T}
<1> SUFFICES ASSUME Missing # {} PROVE FALSE
  OBVIOUS
<1>1. PICK k \in Missing : \A l \in Missing : k <= l
  <2>1. Missing \subseteq Nat
    OBVIOUS
  <2> HIDE DEF Missing
  <2> QED BY <2>1, Least
<1>2. k \in 0..n /\ k \notin T
  OBVIOUS
<1>3. k \in 1..n /\ k - 1 \notin Missing
  BY <1>1, <1>2
<1> QED BY <1>3

LEMMA Greatest ==
    ASSUME NEW m \in Nat, NEW S \in SUBSET (1..m)
    PROVE  /\ S # {} => Max(S) \in S
           /\ m \in S => Max(S) = m
<1>1. ASSUME S # {} PROVE \E x \in S : \A y \in S : x >= y
  <2> DEFINE gaps == {m - x : x \in S}
  <2>1. gaps \subseteq Nat /\ gaps # {}
    <3>1. \A x \in S : m - x \in Nat
      OBVIOUS
    <3> QED BY <1>1, <3>1
  <2>2. PICK k \in gaps : \A l \in gaps : k <= l
    <3> HIDE DEF gaps
    <3> QED BY <2>1, Least
  <2>3. PICK x \in S : k = m - x
    OBVIOUS
  <2>4. \A y \in S : m - x <= m - y
    BY <2>2, <2>3
  <2>5. ASSUME NEW y \in S PROVE x >= y
    <3>1. x \in Int /\ y \in Int /\ m - x <= m - y
      BY <2>4
    <3> QED BY <3>1
  <2> QED BY <2>5
<1>2. S # {} => Max(S) \in S /\ \A y \in S : Max(S) >= y
  BY <1>1 DEF Max
<1>3. ASSUME m \in S PROVE Max(S) = m
  <2>1. Max(S) \in 1..m /\ Max(S) >= m
    BY <1>2, <1>3
  <2> QED BY <2>1
<1> QED BY <1>2, <1>3

\* h is how the folds of the community modules go over 1..n, from base by g, ...
Iterated(n, D, base, g, h) ==
    /\ h \in [SUBSET (1..n) -> D]
    /\ h = [S \in SUBSET (1..n) |-> IF S = {} THEN base ELSE g[<<h[S \ {Max(S)}], Max(S)>>]]

\* ... and p is that step by step.
Path(n, D, base, g, p) ==
    p \in [0..n -> D] /\ p[0] = base /\ \A k \in 1..n : p[k] = g[<<p[k - 1], k>>]

LEMMA Iterates ==
    ASSUME NEW n \in Nat, NEW D, NEW base \in D, NEW g \in [D \X (1..n) -> D]
    PROVE  \E h : Iterated(n, D, base, g, h)
<1> DEFINE Good(m, h) == /\ h \in [SUBSET (1..m) -> D]
                         /\ h = [S \in SUBSET (1..m) |->
                                  IF S = {} THEN base ELSE g[<<h[S \ {Max(S)}], Max(S)>>]]
           T == {m \in 0..n : \E h : Good(m, h)}
<1>1. 0 \in T
  <2> DEFINE h == [S \in SUBSET (1..0) |-> base]
  <2>1. SUBSET (1..0) = {{}}
    OBVIOUS
  <2>2. Good(0, h)
    BY <2>1
  <2> HIDE DEF Good, h
  <2> QED BY <2>2
<1>2. ASSUME NEW m \in 1..n, m - 1 \in T PROVE m \in T
  <2>1. PICK f : Good(m - 1, f)
    BY <1>2
  <2> DEFINE h == [S \in SUBSET (1..m) |-> IF m \in S THEN g[<<f[S \ {m}], m>>] ELSE f[S]]
  <2>2. m \in Nat /\ m - 1 \in Nat /\ m \in 0..n /\ \A S \in SUBSET (1..m) : S \ {m} \in SUBSET (1..(m - 1))
    OBVIOUS
  <2>3. h \in [SUBSET (1..m) -> D]
    <3> SUFFICES ASSUME NEW S \in SUBSET (1..m) PROVE (IF m \in S THEN g[<<f[S \ {m}], m>>] ELSE f[S]) \in D
      OBVIOUS
    <3>1. f[S \ {m}] \in D
      BY <2>1, <2>2
    <3>2. m \notin S => S \ {m} = S
      OBVIOUS
    <3> QED BY <3>1, <3>2
  <2>4. ASSUME NEW S \in SUBSET (1..m)
        PROVE  h[S] = IF S = {} THEN base ELSE g[<<h[S \ {Max(S)}], Max(S)>>]
    <3>1. CASE m \in S
      <4>1. Max(S) = m
        BY <2>2, <3>1, Greatest
      <4>2. S \ {m} \in SUBSET (1..m) /\ m \notin S \ {m}
        OBVIOUS
      <4>3. h[S \ {m}] = f[S \ {m}]
        BY <4>2
      <4> QED BY <3>1, <4>1, <4>3
    <3>2. CASE m \notin S
      <4>1. S \in SUBSET (1..(m - 1))
        BY <2>2, <3>2
      <4>2. f[S] = IF S = {} THEN base ELSE g[<<f[S \ {Max(S)}], Max(S)>>]
        BY <2>1, <4>1
      <4>3. S \ {Max(S)} \in SUBSET (1..m) /\ m \notin S \ {Max(S)}
        BY <3>2
      <4>4. h[S] = f[S] /\ h[S \ {Max(S)}] = f[S \ {Max(S)}]
        BY <3>2, <4>3
      <4> QED BY <4>2, <4>4
    <3> QED BY <3>1, <3>2
  <2>5. Good(m, h)
    <3> HIDE DEF h
    <3>1. h = [S \in SUBSET (1..m) |-> h[S]]
      BY <2>3
    <3> QED BY <2>3, <2>4, <3>1
  <2> HIDE DEF Good, h
  <2> QED BY <2>2, <2>5
<1>3. n \in T
  <2> HIDE DEF T
  <2>1. 0..n \subseteq T
    BY <1>1, <1>2, Climb
  <2> QED BY <2>1
<1> QED BY <1>3 DEF Iterated

\* The same, one set after the other.
Iteration(n, D, base, g, h) ==
    /\ h \in [SUBSET (1..n) -> D]
    /\ \A S \in SUBSET (1..n) :
          IF S = {} THEN h[S] = base
          ELSE /\ Max(S) \in 1..n /\ h[S \ {Max(S)}] \in D
               /\ h[S] = g[<<h[S \ {Max(S)}], Max(S)>>]

LEMMA IterationExists ==
    ASSUME NEW n \in Nat, NEW D, NEW base, NEW g, base \in D, g \in [D \X (1..n) -> D]
    PROVE  \E h : Iteration(n, D, base, g, h)
<1>1. PICK h : Iterated(n, D, base, g, h)
  BY Iterates
<1>2. ASSUME NEW S \in SUBSET (1..n), S # {}
      PROVE  /\ Max(S) \in 1..n /\ h[S \ {Max(S)}] \in D
             /\ h[S] = g[<<h[S \ {Max(S)}], Max(S)>>]
  <2>1. Max(S) \in 1..n /\ S \ {Max(S)} \in SUBSET (1..n)
    BY <1>2, Greatest
  <2> QED BY <1>1, <1>2, <2>1 DEF Iterated
<1>3. h \in [SUBSET (1..n) -> D] /\ h[{}] = base
  BY <1>1 DEF Iterated
<1> QED BY <1>2, <1>3 DEF Iteration

LEMMA UpTo ==
    ASSUME NEW n \in Nat, NEW k \in 1..n
    PROVE  /\ 1..k \in SUBSET (1..n) /\ 1..k # {} /\ (1..k) \ {k} = 1..(k - 1)
           /\ Max(1..k) = k
<1>1. 1..k \in SUBSET (1..n) /\ k \in 1..k /\ k \in Nat /\ (1..k) \ {k} = 1..(k - 1)
  OBVIOUS
<1> QED BY <1>1, Greatest

\* c goes from base by g on the sets 1..k.
Folded(n, D, base, g, c) ==
    /\ base \in D /\ g \in [D \X (1..n) -> D] /\ c[{}] = base
    /\ \A k \in 1..n : c[1..(k - 1)] \in D => c[1..k] = g[<<c[1..(k - 1)], k>>]

LEMMA FoldSteps ==
    ASSUME NEW n \in Nat, NEW D, NEW base, NEW g, NEW c, Folded(n, D, base, g, c)
    PROVE  \E p : Path(n, D, base, g, p) /\ p[n] = c[1..n]
<1> USE DEF Folded
<1> DEFINE Closed == {k \in 0..n : c[1..k] \in D}
           path == [k \in 0..n |-> c[1..k]]
<1>1. 0 \in Closed
  <2>1. 1..0 = {}
    OBVIOUS
  <2> QED BY <2>1
<1>2. ASSUME NEW k \in 1..n, k - 1 \in Closed PROVE k \in Closed
  <2>1. k \in 0..n
    OBVIOUS
  <2> QED BY <1>2, <2>1
<1>3. \A k \in 0..n : c[1..k] \in D
  <2>1. 0..n \subseteq Closed
    <3> HIDE DEF Closed
    <3> QED BY <1>1, <1>2, Climb
  <2> QED BY <2>1
<1>4. path \in [0..n -> D]
  BY <1>3
<1>5. path[0] = base /\ path[n] = c[1..n]
  <2>1. 1..0 = {} /\ 0 \in 0..n /\ n \in 0..n
    OBVIOUS
  <2> QED BY <2>1
<1>6. ASSUME NEW k \in 1..n PROVE path[k] = g[<<path[k - 1], k>>]
  <2>1. k \in 0..n /\ k - 1 \in 0..n
    OBVIOUS
  <2> QED BY <1>3, <2>1
<1> HIDE DEF path
<1>7. \A k \in 1..n : path[k] = g[<<path[k - 1], k>>]
  BY <1>6
<1> QED BY <1>4, <1>5, <1>7 DEF Path

-----------------------------------------------------------------------------
\* x is the sum of a[1], ..., a[n], by its partial sums p.
Partial(a, n, p) == p \in [0..n -> Int] /\ p[0] = 0 /\ \A k \in 1..n : p[k] = p[k - 1] + a[k]
IsTotal(a, n, x) == \E p : Partial(a, n, p) /\ p[n] = x

LEMMA TotalUnique ==
    ASSUME NEW n \in Nat, NEW a, NEW x, NEW y, IsTotal(a, n, x), IsTotal(a, n, y)
    PROVE  x \in Int /\ x = y
<1>1. PICK p : Partial(a, n, p) /\ p[n] = x
  BY DEF IsTotal
<1>2. PICK q : Partial(a, n, q) /\ q[n] = y
  BY DEF IsTotal
<1> DEFINE T == {k \in 0..n : p[k] = q[k]}
<1>3. 0 \in T
  BY <1>1, <1>2 DEF Partial
<1>4. ASSUME NEW k \in 1..n, k - 1 \in T PROVE k \in T
  <2>1. k \in 0..n
    OBVIOUS
  <2> QED BY <1>1, <1>2, <1>4, <2>1 DEF Partial
<1>5. 0..n \subseteq T
  <2> HIDE DEF T
  <2> QED BY <1>3, <1>4, Climb
<1>6. n \in 0..n
  OBVIOUS
<1> QED BY <1>1, <1>2, <1>5, <1>6 DEF Partial

LEMMA TotalEmpty ==
    ASSUME NEW a
    PROVE  IsTotal(a, 0, 0)
<1>1. Partial(a, 0, [k \in 0..0 |-> 0])
  BY DEF Partial
<1> QED BY <1>1 DEF IsTotal

LEMMA TotalGrows ==
    ASSUME NEW n \in Nat, NEW a, NEW b, NEW x, IsTotal(a, n, x),
           \A k \in 1..n : b[k] = a[k], b[n + 1] = 0
    PROVE  IsTotal(b, n + 1, x)
<1>1. PICK p : Partial(a, n, p) /\ p[n] = x
  BY DEF IsTotal
<1> DEFINE q == [k \in 0..(n + 1) |-> IF k = n + 1 THEN x ELSE p[k]]
<1>2. x \in Int /\ \A k \in 0..n : p[k] \in Int
  BY <1>1 DEF Partial
<1>3. q \in [0..(n + 1) -> Int]
  <2>1. \A k \in 0..(n + 1) : k = n + 1 \/ k \in 0..n
    OBVIOUS
  <2> QED BY <1>2, <2>1
<1>4. q[0] = 0 /\ q[n + 1] = x
  BY <1>1 DEF Partial
<1>5. ASSUME NEW k \in 1..(n + 1) PROVE q[k] = q[k - 1] + b[k]
  <2>1. CASE k = n + 1
    <3>1. k - 1 = n /\ n \in 0..(n + 1) /\ n # n + 1
      BY <2>1
    <3> QED BY <1>1, <1>2, <2>1, <3>1
  <2>2. CASE k # n + 1
    <3>1. k \in 1..n /\ k \in 0..(n + 1) /\ k - 1 \in 0..(n + 1) /\ k - 1 # n + 1
      BY <2>2
    <3>2. p[k] = p[k - 1] + a[k] /\ b[k] = a[k]
      BY <1>1, <3>1 DEF Partial
    <3> QED BY <2>2, <3>1, <3>2
  <2> QED BY <2>1, <2>2
<1>6. Partial(b, n + 1, q)
  <2> HIDE DEF q
  <2> QED BY <1>3, <1>4, <1>5 DEF Partial
<1> QED BY <1>4, <1>6 DEF IsTotal

LEMMA TotalChanges ==
    ASSUME NEW n \in Nat, NEW a \in [1..n -> Int], NEW b, NEW x, IsTotal(a, n, x),
           NEW i \in 1..n, NEW d \in Int,
           \A k \in 1..n : b[k] = IF k = i THEN a[k] + d ELSE a[k]
    PROVE  IsTotal(b, n, x + d)
<1>1. PICK p : Partial(a, n, p) /\ p[n] = x
  BY DEF IsTotal
<1> DEFINE q == [k \in 0..n |-> IF k < i THEN p[k] ELSE p[k] + d]
<1>2. \A k \in 0..n : p[k] \in Int
  BY <1>1 DEF Partial
<1>3. q \in [0..n -> Int] /\ q[0] = 0 /\ q[n] = x + d
  <2>1. 0 \in 0..n /\ n \in 0..n /\ 0 < i /\ ~ (n < i)
    OBVIOUS
  <2> QED BY <1>1, <1>2, <2>1 DEF Partial
<1>4. ASSUME NEW k \in 1..n PROVE q[k] = q[k - 1] + b[k]
  <2>1. k \in 0..n /\ k - 1 \in 0..n /\ p[k] = p[k - 1] + a[k] /\ a[k] \in Int
    BY <1>1 DEF Partial
  <2>2. b[k] = IF k = i THEN a[k] + d ELSE a[k]
    OBVIOUS
  <2>3. p[k] \in Int /\ p[k - 1] \in Int
    BY <1>2, <2>1
  <2>4. /\ q[k] = IF k < i THEN p[k] ELSE p[k] + d
        /\ q[k - 1] = IF k - 1 < i THEN p[k - 1] ELSE p[k - 1] + d
    BY <2>1
  <2> HIDE DEF q
  <2>5. CASE k < i
    BY <2>1, <2>2, <2>3, <2>4, <2>5
  <2>6. CASE k = i
    BY <2>1, <2>2, <2>3, <2>4, <2>6
  <2>7. CASE k > i
    BY <2>1, <2>2, <2>3, <2>4, <2>7
  <2> QED BY <2>5, <2>6, <2>7
<1>5. Partial(b, n, q)
  <2> HIDE DEF q
  <2> QED BY <1>3, <1>4 DEF Partial
<1> QED BY <1>3, <1>5 DEF IsTotal

-----------------------------------------------------------------------------
\* What a strategy has made of the results Q, of those that have the numbers a:
\* the mean of them, ...
Averages == {"A_AVG", "A_AVG_MEM"}
Votes == {"A_MJ_VOTE", "A_MJ_VOTE_MEM"}
Searches == {"A_MAX", "A_MAX_MEM", "A_MIN", "A_MIN_MEM"}
Beats(stg, x, y) ==
    IF stg \in {"A_MAX", "A_MAX_MEM"} THEN ScoreOf[x] > ScoreOf[y] ELSE ScoreOf[x] < ScoreOf[y]

State(N) == [null : N, n : Int, value : [num : Int, den : Int], score : Int, idx : Int]

Of(a, Q) == [k \in DOMAIN a |-> IF k \in Q THEN a[k] ELSE 0]
Mean(stg, a, Q, s) ==
    /\ s.n = (IF stg = "A_AVG" THEN Len(a) ELSE Cardinality(Q)) /\ s.value.den > 0
    /\ \E x : IsTotal(Of(a, Q), Len(a), x) /\ s.value.num * s.n = x * s.value.den

\* ... a number that is the only one that more than half of them can have, by a
\* margin that the votes against it shrink, ...
Voters(a, Q, x) == {k \in Q : a[k] = x}
Majority(a, Q, s) ==
    /\ s.n \in 0..Cardinality(Q) /\ s.value.den = 1
    /\ \A x \in DOMAIN ScoreOf :
          2 * Cardinality(Voters(a, Q, x)) <= IF s.value = Number(x) THEN Cardinality(Q) + s.n
                                              ELSE Cardinality(Q) - s.n

\* ... or one that no other beats.
Extreme(stg, a, Q, s) ==
    /\ s.n = 0
    /\ IF Q = {} THEN s.idx = None
       ELSE /\ s.idx + 1 \in Q
            /\ s.value = Number(a[s.idx + 1]) /\ s.score = ScoreOf[a[s.idx + 1]]
            /\ \A k \in Q : ~ Beats(stg, a[k], a[s.idx + 1])

Right(stg, a, Q, s) ==
    /\ stg \in Averages => Mean(stg, a, Q, s)
    /\ stg \in Votes => Majority(a, Q, s)
    /\ stg \in Searches => Extreme(stg, a, Q, s)

Strategies == Averages \cup Votes \cup Searches
Column == Seq(DOMAIN ScoreOf)

LEMMA ScoreFacts ==
    ASSUME NEW x \in DOMAIN ScoreOf
    PROVE  x \in Nat /\ ScoreOf[x] \in Nat
BY TargetAssumption

LEMMA StateFields ==
    ASSUME NEW N, NEW s \in State(N)
    PROVE  /\ s.null \in N /\ s.n \in Int /\ s.value \in [num : Int, den : Int]
           /\ s.score \in Int /\ s.idx \in Int
BY DEF State

Counted(s, n) == [s EXCEPT !.n = n]
Added(s, value) == [s EXCEPT !.value = value]
Replaced(s, n, value) == [s EXCEPT !.n = n, !.value = value]
Beaten(s, value, score, idx) == [s EXCEPT !.value = value, !.score = score, !.idx = idx]

LEMMA CountedState ==
    ASSUME NEW N, NEW s \in State(N), NEW n \in Int
    PROVE  /\ Counted(s, n) \in State(N) /\ Counted(s, n).n = n
           /\ Counted(s, n).value = s.value /\ Counted(s, n).null = s.null
           /\ Counted(s, n).score = s.score /\ Counted(s, n).idx = s.idx
BY DEF Counted, State

LEMMA AddedState ==
    ASSUME NEW N, NEW s \in State(N), NEW value \in [num : Int, den : Int]
    PROVE  /\ Added(s, value) \in State(N) /\ Added(s, value).value = value
           /\ Added(s, value).n = s.n /\ Added(s, value).null = s.null
BY DEF Added, State

LEMMA ReplacedState ==
    ASSUME NEW N, NEW s \in State(N), NEW n \in Int, NEW value \in [num : Int, den : Int]
    PROVE  /\ Replaced(s, n, value) \in State(N) /\ Replaced(s, n, value).n = n
           /\ Replaced(s, n, value).value = value /\ Replaced(s, n, value).null = s.null
<1> DEFINE t == [s EXCEPT !.n = n]
           u == [t EXCEPT !.value = value]
<1>1. t \in State(N) /\ t.n = n /\ t.null = s.null
  BY DEF State
<1>2. u \in State(N) /\ u.n = n /\ u.value = value /\ u.null = s.null
  <2> HIDE DEF t
  <2> QED BY <1>1 DEF State
<1>3. Replaced(s, n, value) = u
  BY DEF Replaced
<1> HIDE DEF u
<1> QED BY <1>2, <1>3

LEMMA BeatenState ==
    ASSUME NEW N, NEW s \in State(N), NEW value \in [num : Int, den : Int],
           NEW score \in Int, NEW idx \in Int
    PROVE  /\ Beaten(s, value, score, idx) \in State(N)
           /\ Beaten(s, value, score, idx).value = value
           /\ Beaten(s, value, score, idx).score = score
           /\ Beaten(s, value, score, idx).idx = idx
           /\ Beaten(s, value, score, idx).null = s.null
           /\ Beaten(s, value, score, idx).n = s.n
<1> DEFINE t == [s EXCEPT !.value = value]
           u == [t EXCEPT !.score = score]
           w == [u EXCEPT !.idx = idx]
<1>1. t \in State(N) /\ t.value = value /\ t.null = s.null /\ t.n = s.n
  BY DEF State
<1>2. u \in State(N) /\ u.value = value /\ u.score = score /\ u.null = s.null /\ u.n = s.n
  <2> HIDE DEF t
  <2> QED BY <1>1 DEF State
<1>3. /\ w \in State(N) /\ w.value = value /\ w.score = score /\ w.idx = idx
      /\ w.null = s.null /\ w.n = s.n
  <2> HIDE DEF u
  <2> QED BY <1>2 DEF State
<1>4. Beaten(s, value, score, idx) = w
  BY DEF Beaten
<1> HIDE DEF w
<1> QED BY <1>3, <1>4

LEMMA TakeInType ==
    ASSUME NEW stg \in Strategies, NEW N, NEW s \in State(N), NEW x \in DOMAIN ScoreOf, NEW idx \in Int
    PROVE  TakeIn(stg, s, x, idx) \in State(N) /\ TakeIn(stg, s, x, idx).null = s.null
<1>1. x \in Int /\ ScoreOf[x] \in Int
  BY ScoreFacts
<1>2. s.n \in Int /\ s.value.num \in Int /\ s.value.den \in Int /\ s.score \in Int
  BY DEF State
<1>3. Number(x) \in [num : Int, den : Int]
  BY <1>1 DEF Number
<1>7. CASE stg = "A_AVG"
  <2>1. AvgAll(s.value, s.n, x) \in [num : Int, den : Int]
    BY <1>1, <1>2 DEF AvgAll
  <2>2. TakeIn(stg, s, x, idx) = Added(s, AvgAll(s.value, s.n, x))
    BY <1>7 DEF TakeIn, Added
  <2> QED BY <2>1, <2>2, AddedState
<1>4. CASE stg = "A_AVG_MEM"
  <2>1. AvgInc(s.value, s.n + 1, x) \in [num : Int, den : Int] /\ s.n + 1 \in Int
    BY <1>1, <1>2 DEF AvgInc
  <2>2. PICK n \in Int, value \in [num : Int, den : Int] :
           TakeIn(stg, s, x, idx) = Replaced(s, n, value)
    BY <1>4, <2>1 DEF TakeIn, Replaced
  <2>3. Replaced(s, n, value) \in State(N) /\ Replaced(s, n, value).null = s.null
    BY ReplacedState
  <2> QED BY <2>2, <2>3
<1>5. CASE stg \in Votes
  <2>1. TakeIn(stg, s, x, idx) = MjVote(s, x)
    BY <1>5 DEF TakeIn, Votes
  <2>2. s.n + 1 \in Int /\ s.n - 1 \in Int
    BY <1>2
  <2>3. PICK n \in Int, value \in [num : Int, den : Int] :
           \/ TakeIn(stg, s, x, idx) = Replaced(s, n, value)
           \/ TakeIn(stg, s, x, idx) = Counted(s, n)
    BY <1>3, <2>1, <2>2 DEF MjVote, Replaced, Counted
  <2>4. /\ Replaced(s, n, value) \in State(N) /\ Replaced(s, n, value).null = s.null
        /\ Counted(s, n) \in State(N) /\ Counted(s, n).null = s.null
    BY ReplacedState, CountedState
  <2> QED BY <2>3, <2>4
<1>6. CASE stg \in Searches
  <2>1. \/ TakeIn(stg, s, x, idx) = Best(s, x, idx, ScoreOf[x] > s.score)
        \/ TakeIn(stg, s, x, idx) = Best(s, x, idx, ScoreOf[x] < s.score)
    BY <1>6 DEF TakeIn, Searches
  <2>2. PICK value \in [num : Int, den : Int], score \in Int :
        \/ TakeIn(stg, s, x, idx) = Beaten(s, value, score, idx)
        \/ TakeIn(stg, s, x, idx) = s
    BY <1>1, <1>3, <2>1 DEF Best, Beaten
  <2>3. Beaten(s, value, score, idx) \in State(N) /\ Beaten(s, value, score, idx).null = s.null
    BY BeatenState
  <2> QED BY <2>2, <2>3
<1> QED BY <1>4, <1>5, <1>6, <1>7 DEF Strategies, Averages

\* Some of n results, and one more.
LEMMA Within ==
    ASSUME NEW n \in Nat, NEW Q \in SUBSET (1..n)
    PROVE  IsFiniteSet(Q) /\ Cardinality(Q) \in 0..n
<1>1. IsFiniteSet(1..n) /\ Cardinality(1..n) = n
  BY FS_Interval
<1>2. IsFiniteSet(Q) /\ Cardinality(Q) <= n
  BY <1>1, FS_Subset
<1>3. Cardinality(Q) \in Nat
  BY <1>2, FS_CardinalityType
<1> QED BY <1>2, <1>3

LEMMA OneMore ==
    ASSUME NEW n \in Nat, NEW Q \in SUBSET (1..n), NEW i \in (1..n) \ Q
    PROVE  /\ IsFiniteSet(Q) /\ Cardinality(Q) \in Nat
           /\ Cardinality(Q \cup {i}) = Cardinality(Q) + 1
<1>1. IsFiniteSet(1..n)
  BY FS_Interval
<1>2. IsFiniteSet(Q)
  BY <1>1, FS_Subset
<1> QED BY <1>2, FS_AddElement, FS_CardinalityType

LEMMA OneMoreTime ==
    ASSUME NEW x \in Int, NEW k \in Int
    PROVE  x * (k + 1) = (x * k) + x /\ x * k \in Int /\ x * (k + 1) \in Int
OBVIOUS

LEMMA MeanTakesIn ==
    ASSUME NEW stg \in Averages, NEW a \in Column, NEW Q \in SUBSET (1..Len(a)),
           NEW i \in (1..Len(a)) \ Q, NEW N, NEW s \in State(N), Mean(stg, a, Q, s)
    PROVE  Mean(stg, a, Q \cup {i}, TakeIn(stg, s, a[i], i - 1))
<1> DEFINE n == Len(a)
           num == s.value.num
           den == s.value.den
           y == a[i]
           t == TakeIn(stg, s, a[i], i - 1)
           c == IF stg = "A_AVG" THEN s.n ELSE s.n + 1
<1>1. n \in Nat /\ n > 0 /\ i \in 1..n /\ DOMAIN a = 1..n
      /\ \A k \in 1..n : a[k] \in DOMAIN ScoreOf
  BY DEF Column
<1>2. y \in Int /\ \A k \in 1..n : a[k] \in Int
  BY <1>1, ScoreFacts
<1>3. /\ num \in Int /\ den \in Int /\ den > 0 /\ c \in Nat /\ c > 0
      /\ c = IF stg = "A_AVG" THEN n ELSE Cardinality(Q \cup {i})
  <2>1. num \in Int /\ den \in Int /\ den > 0
    BY DEF Mean, State
  <2>2. Cardinality(Q) \in Nat /\ Cardinality(Q \cup {i}) = Cardinality(Q) + 1
    BY <1>1, OneMore
  <2>3. s.n = IF stg = "A_AVG" THEN n ELSE Cardinality(Q)
    BY DEF Mean
  <2> QED BY <1>1, <2>1, <2>2, <2>3
<1>4. PICK x : IsTotal(Of(a, Q), n, x) /\ num * s.n = x * den
  BY DEF Mean
<1>5. x \in Int /\ s.n \in Int
  BY <1>1, <1>4, TotalUnique, StateFields
<1>6. IsTotal(Of(a, Q \cup {i}), n, x + y)
  <2>1. Of(a, Q) \in [1..n -> Int]
    BY <1>1, <1>2 DEF Of
  <2>2. \A k \in 1..n : Of(a, Q \cup {i})[k] = IF k = i THEN Of(a, Q)[k] + y ELSE Of(a, Q)[k]
    BY <1>1, <1>2 DEF Of
  <2> HIDE DEF y, n
  <2> QED BY <1>1, <1>2, <1>4, <2>1, <2>2, TotalChanges
<1>7. t.n = c /\ t.value.num = (x + y) * den /\ t.value.den = den * c
  <2>1. (x + y) * den = (num * s.n) + (y * den) /\ num * s.n \in Int /\ y * den \in Int
    <3> HIDE DEF num, den, y
    <3>1. (x + y) * den = (x * den) + (y * den)
      BY <1>2, <1>3, <1>5
    <3> QED BY <1>2, <1>3, <1>4, <1>5, <3>1
  <2>2. CASE stg = "A_AVG"
    <3>1. t = Added(s, AvgAll(s.value, s.n, y)) /\ c = s.n
      BY <2>2 DEF TakeIn, Added
    <3>2. AvgAll(s.value, s.n, y) = [num |-> (num * s.n) + (y * den), den |-> den * s.n]
      BY DEF AvgAll
    <3>3. (num * s.n) + (y * den) \in Int /\ den * s.n \in Int
      <4>1. den \in Int /\ s.n \in Int
        BY <1>3, <1>5
      <4> HIDE DEF num, den, y
      <4> QED BY <2>1, <4>1
    <3>4. AvgAll(s.value, s.n, y) \in [num : Int, den : Int]
      BY <3>2, <3>3
    <3>5. t.n = s.n /\ t.value = AvgAll(s.value, s.n, y)
      <4> HIDE DEF t, y
      <4> QED BY <3>1, <3>4, AddedState
    <3> HIDE DEF num, den, y, t, c
    <3> QED BY <2>1, <3>1, <3>2, <3>5
  <2>3. CASE stg # "A_AVG"
    <3>1. t = Replaced(s, s.n + 1, AvgInc(s.value, s.n + 1, y)) /\ c = s.n + 1
      BY <2>3 DEF TakeIn, Replaced, Averages
    <3>2. AvgInc(s.value, s.n + 1, y) = [num |-> (num * (s.n + 1)) + ((y * den) - num),
                                         den |-> den * (s.n + 1)]
      BY DEF AvgInc
    <3>3. num * (s.n + 1) = (num * s.n) + num /\ den * (s.n + 1) \in Int
      <4> HIDE DEF num, den, y
      <4> QED BY <1>3, <1>5, OneMoreTime
    <3>4. (num * (s.n + 1)) + ((y * den) - num) = (num * s.n) + (y * den)
      <4> HIDE DEF num, den, y
      <4> QED BY <1>3, <2>1, <3>3
    <3>5. AvgInc(s.value, s.n + 1, y) \in [num : Int, den : Int] /\ s.n + 1 \in Int
      <4> HIDE DEF num, den, y
      <4> QED BY <1>5, <2>1, <3>2, <3>3, <3>4
    <3>6. t.n = s.n + 1 /\ t.value = AvgInc(s.value, s.n + 1, y)
      <4> HIDE DEF t, y
      <4> QED BY <3>1, <3>5, ReplacedState
    <3> HIDE DEF num, den, y, t, c
    <3> QED BY <2>1, <3>1, <3>2, <3>4, <3>6
  <2> QED BY <2>2, <2>3
<1>8. t.value.den > 0 /\ t.value.num * t.n = (x + y) * t.value.den
  <2> HIDE DEF num, den, c, y, t
  <2>1. den * c > 0
    BY <1>3
  <2>2. x + y \in Int
    BY <1>2, <1>5
  <2>3. ((x + y) * den) * c = (x + y) * (den * c)
    BY <1>3, <2>2
  <2> QED BY <1>7, <2>1, <2>3
<1> HIDE DEF t, y, c, n
<1>9. Mean(stg, a, Q \cup {i}, t)
  BY <1>3, <1>6, <1>7, <1>8 DEF Mean, n
<1> QED BY <1>9 DEF t

\* How many of Q and one more hold a number.
LEMMA VotersGrow ==
    ASSUME NEW a, NEW n \in Nat, NEW Q \in SUBSET (1..n), NEW i \in (1..n) \ Q, NEW x
    PROVE  /\ Cardinality(Voters(a, Q, x)) \in Nat
           /\ Cardinality(Voters(a, Q \cup {i}, x)) =
                  Cardinality(Voters(a, Q, x)) + (IF a[i] = x THEN 1 ELSE 0)
<1>1. Voters(a, Q, x) \in SUBSET (1..n) /\ i \in (1..n) \ Voters(a, Q, x)
  BY DEF Voters
<1>2. Voters(a, Q \cup {i}, x) =
          IF a[i] = x THEN Voters(a, Q, x) \cup {i} ELSE Voters(a, Q, x)
  BY DEF Voters
<1> DEFINE V == Voters(a, Q, x)
<1>3. Cardinality(V) \in Nat /\ Cardinality(V \cup {i}) = Cardinality(V) + 1
  <2> HIDE DEF V
  <2> QED BY <1>1, OneMore DEF V
<1> QED BY <1>2, <1>3

LEMMA MajorityTakesIn ==
    ASSUME NEW stg \in Votes, NEW a \in Column, NEW Q \in SUBSET (1..Len(a)),
           NEW i \in (1..Len(a)) \ Q, NEW N, NEW s \in State(N), Majority(a, Q, s)
    PROVE  Majority(a, Q \cup {i}, TakeIn(stg, s, a[i], i - 1))
<1> DEFINE y == a[i]
           q == Cardinality(Q)
           r == Cardinality(Q \cup {i})
           t == TakeIn(stg, s, y, i - 1)
           V(x) == Cardinality(Voters(a, Q, x))
           W(x) == Cardinality(Voters(a, Q \cup {i}, x))
<1>1. Len(a) \in Nat /\ y \in DOMAIN ScoreOf
  BY DEF Column
<1>2. q \in Nat /\ r = q + 1
  BY <1>1, OneMore
<1>3. \A x : V(x) \in Nat /\ W(x) = V(x) + (IF y = x THEN 1 ELSE 0)
  BY <1>1, VotersGrow
<1>4. s.n \in 0..q /\ s.value.den = 1
  BY DEF Majority
<1>5. \A x \in DOMAIN ScoreOf : 2 * V(x) <= IF s.value = Number(x) THEN q + s.n ELSE q - s.n
  BY DEF Majority
<1>6. t = IF s.n = 0 \/ s.value = Number(y) THEN Replaced(s, s.n + 1, Number(y))
          ELSE Counted(s, s.n - 1)
  BY DEF TakeIn, MjVote, Votes, Replaced, Counted
<1>7. \A x, z : Number(x) = Number(z) <=> x = z
  BY DEF Number
<1>8. CASE s.n = 0 \/ s.value = Number(y)
  <2>1. t.n = s.n + 1 /\ t.value = Number(y) /\ t.value.den = 1
    <3>1. t = Replaced(s, s.n + 1, Number(y))
      BY <1>6, <1>8
    <3>2. s.n + 1 \in Int /\ Number(y) \in [num : Int, den : Int] /\ Number(y).den = 1
      BY <1>1, <1>2, <1>4, ScoreFacts DEF Number
    <3> HIDE DEF t, y
    <3> QED BY <3>1, <3>2, ReplacedState
  <2>2. ASSUME NEW x \in DOMAIN ScoreOf
        PROVE  2 * W(x) <= IF t.value = Number(x) THEN r + t.n ELSE r - t.n
    <3>1. /\ V(x) \in Nat /\ W(x) = V(x) + (IF y = x THEN 1 ELSE 0)
          /\ 2 * V(x) <= IF s.value = Number(x) THEN q + s.n ELSE q - s.n
          /\ t.value = Number(x) <=> y = x
          /\ s.n = 0 \/ (s.value = Number(x) <=> y = x)
      BY <1>3, <1>5, <1>7, <1>8, <2>1
    <3> HIDE DEF V, W, q, r, t, y
    <3>2. CASE y = x
      BY <1>2, <1>4, <2>1, <3>1, <3>2
    <3>3. CASE y # x
      BY <1>2, <1>4, <2>1, <3>1, <3>3
    <3> QED BY <3>2, <3>3
  <2>3. s.n + 1 \in 0..r
    BY <1>2, <1>4
  <2> SUFFICES Majority(a, Q \cup {i}, t)
    OBVIOUS
  <2> HIDE DEF t, q, y
  <2> HIDE DEF W, r
  <2> QED BY <2>1, <2>2, <2>3 DEF Majority, W, r
<1>9. CASE ~ (s.n = 0 \/ s.value = Number(y))
  <2>1. t.n = s.n - 1 /\ t.value = s.value
    <3>1. t = Counted(s, s.n - 1) /\ s.n - 1 \in Int
      BY <1>2, <1>4, <1>6, <1>9
    <3> HIDE DEF t, y
    <3> QED BY <3>1, CountedState
  <2>2. ASSUME NEW x \in DOMAIN ScoreOf
        PROVE  2 * W(x) <= IF t.value = Number(x) THEN r + t.n ELSE r - t.n
    <3>1. /\ V(x) \in Nat /\ W(x) = V(x) + (IF y = x THEN 1 ELSE 0)
          /\ 2 * V(x) <= IF s.value = Number(x) THEN q + s.n ELSE q - s.n
          /\ t.value = Number(x) <=> s.value = Number(x)
          /\ s.value = Number(x) => y # x
      BY <1>3, <1>5, <1>9, <2>1
    <3> HIDE DEF V, W, q, r, t, y
    <3>2. q \in Nat /\ s.n \in Nat /\ r + t.n = q + s.n /\ r - t.n = (q - s.n) + 2
      BY <1>2, <1>4, <2>1
    <3>3. CASE s.value = Number(x)
      <4>1. W(x) = V(x) /\ t.value = Number(x) /\ 2 * V(x) <= q + s.n
        BY <3>1, <3>3
      <4> QED BY <3>2, <4>1
    <3>4. CASE s.value # Number(x)
      <4>1. W(x) <= V(x) + 1 /\ t.value # Number(x) /\ 2 * V(x) <= q - s.n /\ W(x) \in Nat
        BY <3>1, <3>4
      <4>2. 2 * W(x) <= (q - s.n) + 2
        BY <3>1, <3>2, <4>1
      <4> QED BY <3>2, <4>1, <4>2
    <3> QED BY <3>3, <3>4
  <2>3. s.n - 1 \in 0..r
    BY <1>2, <1>4, <1>9
  <2> SUFFICES Majority(a, Q \cup {i}, t)
    OBVIOUS
  <2> HIDE DEF t, q, y
  <2> HIDE DEF W, r
  <2> QED BY <1>4, <2>1, <2>2, <2>3 DEF Majority, W, r
<1> QED BY <1>8, <1>9

LEMMA ExtremeTakesIn ==
    ASSUME NEW stg \in Searches, NEW a \in Column, NEW Q \in SUBSET (1..Len(a)),
           NEW i \in (1..Len(a)) \ Q, NEW N, NEW s \in State(N), Extreme(stg, a, Q, s)
    PROVE  Extreme(stg, a, Q \cup {i}, TakeIn(stg, s, a[i], i - 1))
<1> DEFINE t == TakeIn(stg, s, a[i], i - 1)
           up == stg \in {"A_MAX", "A_MAX_MEM"}
<1>1. /\ Len(a) \in Nat /\ \A k \in 1..Len(a) : a[k] \in DOMAIN ScoreOf
      /\ \A k \in 1..Len(a) : ScoreOf[a[k]] \in Nat
  BY ScoreFacts DEF Column
<1>2. TakeIn(stg, s, a[i], i - 1) =
          Best(s, a[i], i - 1, IF up THEN ScoreOf[a[i]] > s.score ELSE ScoreOf[a[i]] < s.score)
  BY DEF TakeIn, Searches
<1>3. Q # {} => s.idx + 1 \in Q /\ s.idx # None /\ s.score = ScoreOf[a[s.idx + 1]]
  <2>1. 0 \notin Q /\ (s.idx = None => s.idx + 1 = 0)
    BY <1>1 DEF None
  <2> QED BY <2>1 DEF Extreme
<1>4. CASE Q = {} \/ Beats(stg, a[i], a[s.idx + 1])
  <2>1. t = Beaten(s, Number(a[i]), ScoreOf[a[i]], i - 1)
    BY <1>2, <1>3, <1>4 DEF Best, Extreme, Beats, Beaten
  <2>2. /\ t.value = Number(a[i]) /\ t.score = ScoreOf[a[i]] /\ t.idx = i - 1
        /\ t.idx + 1 = i /\ t.n = 0
    <3>1. /\ Number(a[i]) \in [num : Int, den : Int] /\ ScoreOf[a[i]] \in Int
          /\ i - 1 \in Int /\ (i - 1) + 1 = i /\ s.n = 0
      BY <1>1, ScoreFacts DEF Number, Extreme
    <3> HIDE DEF t
    <3> QED BY <2>1, <3>1, BeatenState
  <2>3. \A k \in Q \cup {i} : ~ Beats(stg, a[k], a[i])
    <3>1. ~ Beats(stg, a[i], a[i])
      BY <1>1 DEF Beats
    <3>2. ASSUME NEW k \in Q PROVE ~ Beats(stg, a[k], a[i])
      <4>1. /\ ScoreOf[a[k]] \in Nat /\ ScoreOf[a[i]] \in Nat /\ ScoreOf[a[s.idx + 1]] \in Nat
            /\ ~ Beats(stg, a[k], a[s.idx + 1])
        BY <1>1, <1>3 DEF Extreme
      <4>2. Beats(stg, a[i], a[s.idx + 1])
        BY <1>4
      <4> QED BY <4>1, <4>2 DEF Beats
    <3> QED BY <3>1, <3>2
  <2> SUFFICES Extreme(stg, a, Q \cup {i}, t)
    OBVIOUS
  <2> HIDE DEF t
  <2> QED BY <2>2, <2>3 DEF Extreme
<1>5. CASE ~ (Q = {} \/ Beats(stg, a[i], a[s.idx + 1]))
  <2>1. t = s
    BY <1>2, <1>3, <1>5 DEF Best, Beats
  <2> SUFFICES Extreme(stg, a, Q \cup {i}, t)
    OBVIOUS
  <2> HIDE DEF t
  <2> QED BY <1>5, <2>1 DEF Extreme
<1> QED BY <1>4, <1>5

\* What a strategy makes of one more result is right.
LEMMA TakesIn ==
    ASSUME NEW stg \in Strategies, NEW a \in Column, NEW Q \in SUBSET (1..Len(a)),
           NEW i \in (1..Len(a)) \ Q, NEW N, NEW s \in State(N), Right(stg, a, Q, s)
    PROVE  Right(stg, a, Q \cup {i}, TakeIn(stg, s, a[i], i - 1))
<1>1. CASE stg \in Averages
  BY <1>1, MeanTakesIn DEF Right, Averages, Votes, Searches
<1>2. CASE stg \in Votes
  BY <1>2, MajorityTakesIn DEF Right, Averages, Votes, Searches
<1>3. CASE stg \in Searches
  BY <1>3, ExtremeTakesIn DEF Right, Averages, Votes, Searches
<1> QED BY <1>1, <1>2, <1>3 DEF Strategies

-----------------------------------------------------------------------------
\* A strategy that has taken in nothing, one more result it has not taken in,
\* and what is written to a target at the end.
AtFirst(stg, n) == [Unallocated EXCEPT !.n = IF stg = "A_AVG" THEN n ELSE 0]

LEMMA SameState ==
    ASSUME NEW stg, NEW a, NEW Q, NEW s, NEW t, Right(stg, a, Q, s),
           t.n = s.n, t.value = s.value, t.score = s.score, t.idx = s.idx
    PROVE  Right(stg, a, Q, t)
<1>1. Mean(stg, a, Q, s) => Mean(stg, a, Q, t)
  BY DEF Mean
<1>2. Majority(a, Q, s) => Majority(a, Q, t)
  BY DEF Majority
<1>3. Extreme(stg, a, Q, s) => Extreme(stg, a, Q, t)
  BY DEF Extreme
<1> QED BY <1>1, <1>2, <1>3 DEF Right

LEMMA NothingTakenIn ==
    ASSUME NEW stg \in Strategies, NEW a \in Column
    PROVE  /\ Right(stg, a, {}, AtFirst(stg, Len(a)))
           /\ AtFirst(stg, Len(a)) \in State({TRUE, FALSE})
           /\ stg # "A_AVG" => Right(stg, a, {}, Unallocated)
<1>1. Len(a) \in Nat /\ DOMAIN a = 1..Len(a)
  BY DEF Column
<1>2. Cardinality({}) = 0 /\ 0 \in 0..0
  BY FS_EmptySet
<1> DEFINE k == IF stg = "A_AVG" THEN Len(a) ELSE 0
           s == AtFirst(stg, Len(a))
<1>3. Unallocated \in State({TRUE, FALSE}) /\ k \in Int
  BY <1>1 DEF Unallocated, State, Number, None
<1>4. s = Counted(Unallocated, k)
  BY DEF AtFirst, Counted
<1>5. /\ s \in State({TRUE, FALSE}) /\ s.n = k
      /\ s.value = Number(0) /\ s.value.den = 1 /\ s.value.num = 0 /\ s.idx = None
  <2>1. /\ Unallocated.value = Number(0) /\ Unallocated.idx = None
        /\ Number(0).den = 1 /\ Number(0).num = 0
    BY DEF Unallocated, Number
  <2> HIDE DEF k, s
  <2> QED BY <1>3, <1>4, <2>1, CountedState
<1> HIDE DEF s
<1>6. stg \in Averages => Mean(stg, a, {}, s)
  <2>1. Partial(Of(a, {}), Len(a), [l \in 0..Len(a) |-> 0])
    BY <1>1 DEF Partial, Of
  <2>2. IsTotal(Of(a, {}), Len(a), 0)
    BY <1>1, <2>1 DEF IsTotal
  <2>3. 0 * s.n = 0 * 1
    BY <1>3, <1>5
  <2> QED BY <1>2, <1>5, <2>2, <2>3 DEF Mean
<1>7. ASSUME stg \in Votes PROVE Majority(a, {}, s)
  <2>1. \A x : Voters(a, {}, x) = {}
    BY DEF Voters
  <2>2. s.n = 0
    BY <1>5, <1>7 DEF Votes
  <2>3. \A x : 2 * Cardinality(Voters(a, {}, x)) = 0
    BY <1>2, <2>1
  <2> QED BY <1>2, <1>5, <2>2, <2>3 DEF Majority
<1>8. stg \in Searches => Extreme(stg, a, {}, s)
  BY <1>5 DEF Extreme, Searches
<1>9. Right(stg, a, {}, s)
  BY <1>6, <1>7, <1>8 DEF Right
<1>10. ASSUME stg # "A_AVG" PROVE Right(stg, a, {}, Unallocated)
  <2>1. /\ s.n = Unallocated.n /\ s.value = Unallocated.value
        /\ s.score = Unallocated.score /\ s.idx = Unallocated.idx
    <3>1. s.n = Unallocated.n
      BY <1>5, <1>10 DEF Unallocated
    <3> QED BY <1>3, <1>4, <3>1, CountedState
  <2> QED BY <1>9, <2>1, SameState
<1> QED BY <1>5, <1>9, <1>10 DEF s

LEMMA NotTakenIn ==
    ASSUME NEW stg \in Strategies \ {"A_AVG"}, NEW a \in Column, NEW x \in DOMAIN ScoreOf,
           NEW Q \in SUBSET (1..Len(a)), NEW s, Right(stg, a, Q, s)
    PROVE  Right(stg, Append(a, x), Q, s)
<1> DEFINE b == Append(a, x)
           n == Len(a)
<1>1. n \in Nat /\ DOMAIN a = 1..n /\ Len(b) = n + 1 /\ DOMAIN b = 1..(n + 1)
      /\ \A k \in 1..n : b[k] = a[k]
  BY DEF Column
<1>2. \A k \in Q : b[k] = a[k]
  BY <1>1
<1>3. ASSUME Mean(stg, a, Q, s) PROVE Mean(stg, b, Q, s)
  <2>1. PICK z : IsTotal(Of(a, Q), n, z) /\ s.value.num * s.n = z * s.value.den
    BY <1>3 DEF Mean
  <2>2. \A k \in 1..n : Of(b, Q)[k] = Of(a, Q)[k]
    BY <1>1 DEF Of
  <2>3. Of(b, Q)[n + 1] = 0
    <3>1. n + 1 \in DOMAIN b /\ n + 1 \notin Q
      BY <1>1
    <3> HIDE DEF b
    <3> QED BY <3>1 DEF Of
  <2>4. IsTotal(Of(b, Q), n + 1, z)
    <3> HIDE DEF b, n
    <3> QED BY <1>1, <2>1, <2>2, <2>3, TotalGrows
  <2> HIDE DEF b
  <2> QED BY <1>1, <1>3, <2>1, <2>4 DEF Mean
<1>4. Majority(a, Q, s) => Majority(b, Q, s)
  <2>1. \A z : Voters(b, Q, z) = Voters(a, Q, z)
    BY <1>2 DEF Voters
  <2> HIDE DEF b
  <2> QED BY <2>1 DEF Majority
<1>5. Extreme(stg, a, Q, s) => Extreme(stg, b, Q, s)
  <2> HIDE DEF b
  <2> QED BY <1>2 DEF Extreme
<1> QED BY <1>3, <1>4, <1>5 DEF Right

\* The target of a variable: t is written, b is the result whose parameters are
\* shown, a the numbers of the variable in the results.
Average(a, t) == \A x : IsTotal(a, Len(a), x) => t.num * Len(a) = x * t.den
Elected(a, t) ==
    \A x \in DOMAIN ScoreOf : 2 * Cardinality(Voters(a, DOMAIN a, x)) > Len(a) => t = Number(x)
Winner(stg, a, t, b) ==
    /\ b + 1 \in DOMAIN a /\ t = Number(a[b + 1])
    /\ \A k \in DOMAIN a : ~ Beats(stg, a[k], a[b + 1])

Good(stg, a, t, b) ==
    /\ t # Nothing
    /\ stg \in Averages => Average(a, t)
    /\ stg \in Votes => Elected(a, t)
    /\ stg \in Searches => Winner(stg, a, t, b)

LEMMA AllTakenIn ==
    ASSUME NEW stg \in Strategies, NEW a \in Column, Len(a) > 0, NEW N, NEW s \in State(N),
           Right(stg, a, DOMAIN a, s)
    PROVE  Good(stg, a, s.value, s.idx) /\ (stg \in Searches => s.idx # None)
<1> DEFINE n == Len(a)
<1>1. n \in Nat /\ DOMAIN a = 1..n /\ n > 0 /\ DOMAIN a # {}
  <2>1. n \in Nat /\ DOMAIN a = 1..n
    BY DEF Column
  <2>2. 1 \in DOMAIN a
    BY <2>1
  <2> QED BY <2>1, <2>2
<1>2. Cardinality(DOMAIN a) = n
  <2>1. n \in Int /\ 1 \in Int /\ ~ (1 > n) /\ (n - 1) + 1 = n
    BY <1>1
  <2>2. Cardinality(1..n) = IF 1 > n THEN 0 ELSE n - 1 + 1
    BY <2>1, FS_Interval
  <2> HIDE DEF n
  <2> QED BY <1>1, <2>1, <2>2
<1>3. s.value \in [num : Int, den : Int] /\ s.n \in Int /\ s.idx \in Int
  BY StateFields
<1>4. Nothing.den = 0
  BY DEF Nothing
<1>5. CASE stg \in Averages
  <2>1. Mean(stg, a, DOMAIN a, s)
    BY <1>5 DEF Right
  <2>2. ASSUME NEW x, IsTotal(a, n, x) PROVE s.value.num * n = x * s.value.den
    <3>1. PICK z : IsTotal(Of(a, DOMAIN a), n, z) /\ s.value.num * s.n = z * s.value.den
      BY <2>1 DEF Mean
    <3>2. Of(a, DOMAIN a) = a
      BY <1>1 DEF Of, Column
    <3>3. z = x
      BY <1>1, <2>2, <3>1, <3>2, TotalUnique
    <3>4. s.n = n
      BY <1>2, <2>1 DEF Mean
    <3> QED BY <3>1, <3>3, <3>4
  <2>3. s.value # Nothing
    BY <1>4, <2>1 DEF Mean
  <2> QED BY <1>5, <2>2, <2>3 DEF Good, Average, Averages, Votes, Searches
<1>6. CASE stg \in Votes
  <2>1. Majority(a, DOMAIN a, s)
    BY <1>6 DEF Right
  <2>2. ASSUME NEW x \in DOMAIN ScoreOf, 2 * Cardinality(Voters(a, DOMAIN a, x)) > n
        PROVE  s.value = Number(x)
    <3>1. Voters(a, DOMAIN a, x) \in SUBSET (1..n)
      BY <1>1 DEF Voters
    <3>2. Cardinality(Voters(a, DOMAIN a, x)) \in Nat
      BY <1>1, <3>1, Within
    <3>3. s.n >= 0 /\ (s.value # Number(x) => 2 * Cardinality(Voters(a, DOMAIN a, x)) <= n - s.n)
      BY <1>1, <1>2, <2>1 DEF Majority
    <3> QED BY <1>1, <1>3, <2>2, <3>2, <3>3
  <2>3. s.value # Nothing
    BY <1>4, <2>1 DEF Majority
  <2> QED BY <1>6, <2>2, <2>3 DEF Good, Elected, Averages, Votes, Searches
<1>7. CASE stg \in Searches
  <2>1. Extreme(stg, a, DOMAIN a, s)
    BY <1>7 DEF Right
  <2>2. Winner(stg, a, s.value, s.idx)
    BY <1>1, <2>1 DEF Extreme, Winner
  <2>3. s.value # Nothing /\ s.idx # None
    <3>1. s.idx + 1 \in 1..n
      BY <1>1, <2>2 DEF Winner
    <3>2. Number(a[s.idx + 1]).den = 1
      BY DEF Number
    <3> QED BY <1>1, <1>4, <2>2, <3>1, <3>2 DEF Winner, None
  <2> QED BY <1>7, <2>2, <2>3 DEF Good, Averages, Votes, Searches
<1> QED BY <1>5, <1>6, <1>7 DEF Strategies

-----------------------------------------------------------------------------
\* What the folds of the model amount to, one step after the other: the results
\* a strategy takes in, ...
Entries(stg, N, m, entries) ==
    /\ DOMAIN entries = 1..m
    /\ \A i \in 1..m, s \in State(N) : TakeNext(stg, s, entries[i]) \in State(N)
TakenInTurn(stg, N, s0, m, entries, p) ==
    /\ p \in [0..m -> State(N)] /\ p[0] = s0
    /\ \A i \in 1..m : p[i] = TakeNext(stg, p[i - 1], entries[i])

LEMMA TakeAllUnfolded ==
    ASSUME NEW stg, NEW N, NEW s0 \in State(N), NEW m \in Nat, NEW entries,
           Entries(stg, N, m, entries)
    PROVE  \E p : TakenInTurn(stg, N, s0, m, entries, p) /\ p[m] = TakeAll(stg, s0, entries)
<1> USE DEF Entries
<1> DEFINE D == State(N)
           G(iter, S) == IF S = {} THEN s0
                         ELSE TakeNext(stg, iter[S \ {Max(S)}], entries[Max(S)])
           Fold(iter) == iter = [S \in SUBSET DOMAIN entries |-> G(iter, S)]
           g == [e \in D \X (1..m) |-> TakeNext(stg, e[1], entries[e[2]])]
           c == CHOOSE iter : Fold(iter)
<1>1. TakeAll(stg, s0, entries) = c[1..m]
  BY DEF TakeAll, FoldLeft, MapThenFoldSet
<1>2. g \in [D \X (1..m) -> D] /\ \A s \in D, i \in 1..m : g[<<s, i>>] = TakeNext(stg, s, entries[i])
  OBVIOUS
<1> HIDE DEF g, D
<1>3. \E h : Fold(h)
  <2>1. PICK h : Iteration(m, D, s0, g, h)
    BY <1>2, IterationExists DEF D
  <2>2. h \in [SUBSET (1..m) -> D] /\ \A S \in SUBSET (1..m) : h[S] = G(h, S)
    BY <1>2, <2>1 DEF Iteration
  <2>3. Fold(h)
    <3> HIDE DEF G
    <3> QED BY <2>2
  <2> QED BY <2>3
<1>4. \A S \in SUBSET (1..m) : c[S] = G(c, S)
  <2>1. Fold(c)
    <3> HIDE DEF Fold
    <3> QED BY <1>3
  <2> HIDE DEF G, c
  <2> QED BY <2>1
<1> HIDE DEF c
<1>5. ASSUME NEW k \in 1..m, c[1..(k - 1)] \in D PROVE c[1..k] = g[<<c[1..(k - 1)], k>>]
  <2>1. /\ 1..k \in SUBSET (1..m) /\ 1..k # {} /\ (1..k) \ {k} = 1..(k - 1)
        /\ Max(1..k) = k
    BY UpTo
  <2>2. c[1..k] = TakeNext(stg, c[1..(k - 1)], entries[k])
    BY <1>4, <2>1
  <2> QED BY <1>2, <1>5, <2>2
<1>6. Folded(m, D, s0, g, c)
  BY <1>2, <1>4, <1>5 DEF Folded, D
<1>7. PICK p : Path(m, D, s0, g, p) /\ p[m] = c[1..m]
  BY <1>6, FoldSteps
<1>8. ASSUME NEW i \in 1..m PROVE p[i] = TakeNext(stg, p[i - 1], entries[i])
  <2>1. p[i] = g[<<p[i - 1], i>>] /\ p[i - 1] \in D
    BY <1>7 DEF Path
  <2> QED BY <1>2, <2>1
<1> QED BY <1>1, <1>7, <1>8 DEF Path, D, TakenInTurn

LEMMA TakeAllState ==
    ASSUME NEW stg, NEW N, NEW s0 \in State(N), NEW m \in Nat, NEW entries,
           Entries(stg, N, m, entries)
    PROVE  TakeAll(stg, s0, entries) \in State(N)
<1>1. PICK p : TakenInTurn(stg, N, s0, m, entries, p) /\ p[m] = TakeAll(stg, s0, entries)
  BY TakeAllUnfolded
<1>2. m \in 0..m
  OBVIOUS
<1> QED BY <1>1, <1>2 DEF TakenInTurn

\* The results among the entries.
Marked(entries, m) == {entries[i].idx + 1 : i \in {j \in 1..m : entries[j].idx # None}}

\* Every entry that has an index is a result that is not in Q, and has its number;
\* R are these results and Q.
Fresh(a, Q, R, m, entries) ==
    /\ DOMAIN entries = 1..m /\ R = Q \cup Marked(entries, m)
    /\ \A i \in 1..m : entries[i].idx # None =>
          /\ entries[i].idx \in Int /\ entries[i].idx + 1 \in (1..Len(a)) \ Q
          /\ entries[i].x = a[entries[i].idx + 1]
    /\ \A i, j \in 1..m : entries[i].idx # None /\ entries[i].idx = entries[j].idx => i = j

LEMMA TakeAllRight ==
    ASSUME NEW stg \in Strategies, NEW a \in Column, NEW Q \in SUBSET (1..Len(a)),
           NEW N, NEW s0 \in State(N), Right(stg, a, Q, s0),
           NEW m \in Nat, NEW entries, NEW R, Fresh(a, Q, R, m, entries)
    PROVE  /\ TakeAll(stg, s0, entries) \in State(N)
           /\ TakeAll(stg, s0, entries).null = s0.null
           /\ Right(stg, a, R, TakeAll(stg, s0, entries))
<1> USE DEF Fresh
<1>1. ASSUME NEW i \in 1..m, NEW s \in State(N)
      PROVE  TakeNext(stg, s, entries[i]) \in State(N) /\ TakeNext(stg, s, entries[i]).null = s.null
  <2>1. CASE entries[i].idx = None
    BY <2>1 DEF TakeNext
  <2>2. CASE entries[i].idx # None
    <3>1. entries[i].idx \in Int /\ entries[i].x \in DOMAIN ScoreOf
      BY <2>2 DEF Column
    <3>2. TakeNext(stg, s, entries[i]) = TakeIn(stg, s, entries[i].x, entries[i].idx)
      BY <2>2 DEF TakeNext
    <3> QED BY <3>1, <3>2, TakeInType
  <2> QED BY <2>1, <2>2
<1>2. PICK p : /\ p \in [0..m -> State(N)]
               /\ p[0] = s0 /\ p[m] = TakeAll(stg, s0, entries)
               /\ \A i \in 1..m : p[i] = TakeNext(stg, p[i - 1], entries[i])
  <2>1. Entries(stg, N, m, entries)
    BY <1>1 DEF Entries
  <2>2. \E p : TakenInTurn(stg, N, s0, m, entries, p) /\ p[m] = TakeAll(stg, s0, entries)
    BY <2>1, TakeAllUnfolded
  <2> QED BY <2>2 DEF TakenInTurn
<1> DEFINE T == {k \in 0..m : p[k].null = s0.null /\ Right(stg, a, Q \cup Marked(entries, k), p[k])}
<1>3. 0 \in T
  <2>1. Q \cup Marked(entries, 0) = Q /\ 0 \in 0..m
    BY DEF Marked
  <2> QED BY <1>2, <2>1
<1>4. ASSUME NEW k \in 1..m, k - 1 \in T PROVE k \in T
  <2>1. k \in 0..m /\ k - 1 \in 0..m /\ 1..k = (1..(k - 1)) \cup {k}
    OBVIOUS
  <2>2. /\ p[k - 1] \in State(N) /\ p[k] = TakeNext(stg, p[k - 1], entries[k])
        /\ Right(stg, a, Q \cup Marked(entries, k - 1), p[k - 1])
    BY <1>2, <1>4, <2>1
  <2>3. p[k].null = s0.null
    BY <1>1, <1>4, <2>2
  <2>4. CASE entries[k].idx = None
    <3>1. Marked(entries, k) = Marked(entries, k - 1)
      BY <2>1, <2>4 DEF Marked
    <3>2. p[k] = p[k - 1]
      BY <2>2, <2>4 DEF TakeNext
    <3> QED BY <2>1, <2>2, <2>3, <3>1, <3>2
  <2>5. CASE entries[k].idx # None
    <3> DEFINE i == entries[k].idx + 1
               P == Q \cup Marked(entries, k - 1)
    <3>1. Marked(entries, k) = Marked(entries, k - 1) \cup {i}
      BY <2>1, <2>5 DEF Marked
    <3>2. i \in (1..Len(a)) \ Q /\ entries[k].idx = i - 1 /\ entries[k].x = a[i]
      BY <2>5
    <3>3. ASSUME NEW z \in Marked(entries, k - 1) PROVE z \in 1..Len(a) /\ z # i
      <4>1. PICK j \in 1..(k - 1) : entries[j].idx # None /\ z = entries[j].idx + 1
        BY DEF Marked
      <4>2. j \in 1..m /\ j # k /\ entries[j].idx \in Int /\ entries[k].idx \in Int
        BY <2>5, <4>1
      <4>3. entries[j].idx # entries[k].idx
        BY <2>5, <4>1, <4>2
      <4> QED BY <4>1, <4>2, <4>3
    <3>4. P \in SUBSET (1..Len(a)) /\ i \in (1..Len(a)) \ P
      BY <3>2, <3>3
    <3>5. p[k] = TakeIn(stg, p[k - 1], a[i], i - 1)
      BY <2>2, <2>5, <3>2 DEF TakeNext
    <3>6. Q \cup Marked(entries, k) = P \cup {i}
      BY <3>1
    <3>7. Right(stg, a, P \cup {i}, TakeIn(stg, p[k - 1], a[i], i - 1))
      <4> HIDE DEF P, i
      <4> QED BY <2>2, <3>4, TakesIn DEF P
    <3> QED BY <2>1, <2>3, <3>5, <3>6, <3>7
  <2> QED BY <2>4, <2>5
<1>5. m \in T
  <2> HIDE DEF T
  <2>1. 0..m \subseteq T
    BY <1>3, <1>4, Climb
  <2> QED BY <2>1
<1> QED BY <1>2, <1>5

\* ... the file of a result, ...
FilesFirst == \A v, w \in Target : ~ InMem(v) /\ InMem(w) => v < w

LEMMA LengthFacts ==
    Len(Targets) \in Nat /\ Target = 1..Len(Targets)
<1>1. Targets \in Seq(MemStrategies \cup FileStrategies)
  BY TargetAssumption
<1> QED BY <1>1 DEF Target

LEMMA DataFacts ==
    ASSUME NEW d \in Data
    PROVE  /\ DOMAIN d = Target /\ Len(Targets) \in Nat /\ Target = 1..Len(Targets)
           /\ \A v \in Target : d[v] \in DOMAIN ScoreOf /\ d[v] \in Nat
<1>1. DOMAIN d = Target /\ \A v \in Target : d[v] \in DOMAIN ScoreOf
  BY TargetAssumption
<1> QED BY <1>1, LengthFacts, ScoreFacts

Field == [v : Nat, x : DOMAIN ScoreOf]
Files == Seq(Field)
Recorded(d, m, p) ==
    /\ p \in [0..m -> Files] /\ p[0] = <<>>
    /\ \A k \in 1..m : p[k] = WriteVar(p[k - 1], k, d)

LEMMA FileUnfolded ==
    ASSUME NEW d \in Data
    PROVE  \E p : Recorded(d, Len(Targets), p) /\ p[Len(Targets)] = File(d)
<1> DEFINE m == Len(Targets)
           D == Files
           order == [v \in Target |-> v]
           G(iter, S) == IF S = {} THEN <<>>
                         ELSE WriteVar(iter[S \ {Max(S)}], order[Max(S)], d)
           Fold(iter) == iter = [S \in SUBSET DOMAIN order |-> G(iter, S)]
           g == [e \in D \X (1..m) |-> WriteVar(e[1], e[2], d)]
           c == CHOOSE iter : Fold(iter)
<1>0. m \in Nat /\ DOMAIN order = 1..m /\ \A k \in 1..m : order[k] = k
  BY DataFacts
<1>1. File(d) = c[1..m]
  <2>1. File(d) = c[DOMAIN order]
    BY DEF File, FoldLeft, MapThenFoldSet
  <2> HIDE DEF c, order, m
  <2> QED BY <1>0, <2>1
<1> HIDE DEF order
<1>2. g \in [D \X (1..m) -> D] /\ \A s \in D, i \in 1..m : g[<<s, i>>] = WriteVar(s, i, d)
  <2>1. ASSUME NEW s \in D, NEW i \in 1..m PROVE WriteVar(s, i, d) \in D
    <3> DEFINE e == [v |-> i, x |-> d[i]]
    <3>1. e \in Field
      BY DataFacts DEF Field
    <3> HIDE DEF e
    <3>2. Append(s, e) \in Files
      BY <3>1 DEF Files
    <3> QED BY <3>2 DEF WriteVar, e
  <2> HIDE DEF D
  <2> QED BY <2>1
<1>a. <<>> \in D
  BY DEF Files
<1> HIDE DEF g, D, m
<1>3. \E h : Fold(h)
  <2>1. PICK h : Iteration(m, D, <<>>, g, h)
    BY <1>0, <1>2, <1>a, IterationExists
  <2>2. h \in [SUBSET (1..m) -> D] /\ \A S \in SUBSET (1..m) : h[S] = G(h, S)
    <3>1. ASSUME NEW S \in SUBSET (1..m) PROVE h[S] = G(h, S)
      <4>1. CASE S = {}
        BY <2>1, <4>1 DEF Iteration
      <4>2. CASE S # {}
        <5>1. /\ Max(S) \in 1..m /\ h[S \ {Max(S)}] \in D
              /\ h[S] = g[<<h[S \ {Max(S)}], Max(S)>>] 
          BY <2>1, <4>2 DEF Iteration
        <5> QED BY <1>0, <1>2, <4>2, <5>1
      <4> QED BY <4>1, <4>2
    <3> HIDE DEF G
    <3> QED BY <2>1, <3>1 DEF Iteration
  <2>3. Fold(h)
    <3> HIDE DEF G
    <3> QED BY <1>0, <2>2
  <2> QED BY <2>3
<1>4. \A S \in SUBSET (1..m) : c[S] = G(c, S)
  <2>1. Fold(c)
    <3> HIDE DEF Fold
    <3> QED BY <1>3
  <2> HIDE DEF G, c
  <2> QED BY <1>0, <2>1
<1> HIDE DEF c
<1>5. ASSUME NEW k \in 1..m, c[1..(k - 1)] \in D PROVE c[1..k] = g[<<c[1..(k - 1)], k>>]
  <2>1. /\ 1..k \in SUBSET (1..m) /\ 1..k # {} /\ (1..k) \ {k} = 1..(k - 1)
        /\ Max(1..k) = k
    BY <1>0, UpTo
  <2>2. c[1..k] = WriteVar(c[1..(k - 1)], k, d)
    <3>1. c[1..k] = G(c, 1..k)
      <4> HIDE DEF G
      <4> QED BY <1>4, <2>1
    <3>2. order[Max(1..k)] = k
      BY <1>0, <2>1
    <3> QED BY <2>1, <3>1, <3>2
  <2> QED BY <1>2, <1>5, <2>2
<1>6. Folded(m, D, <<>>, g, c)
  BY <1>2, <1>4, <1>5, <1>a DEF Folded
<1>7. PICK p : Path(m, D, <<>>, g, p) /\ p[m] = c[1..m]
  BY <1>0, <1>6, FoldSteps
<1>8. ASSUME NEW i \in 1..m PROVE p[i] = WriteVar(p[i - 1], i, d)
  <2>1. p[i] = g[<<p[i - 1], i>>] /\ p[i - 1] \in D
    BY <1>0, <1>7 DEF Path
  <2> QED BY <1>2, <2>1
<1> QED BY <1>1, <1>7, <1>8 DEF Path, D, m, Recorded

LEMMA FileType ==
    ASSUME NEW d \in Data
    PROVE  File(d) \in Files
<1>1. PICK p : Recorded(d, Len(Targets), p) /\ p[Len(Targets)] = File(d)
  BY FileUnfolded
<1>2. Len(Targets) \in 0..Len(Targets)
  BY LengthFacts
<1> QED BY <1>1, <1>2 DEF Recorded

LEMMA FileHolds ==
    ASSUME NEW d \in Data, FilesFirst, NEW v \in Target, ~ InMem(v)
    PROVE  v \in DOMAIN File(d) /\ File(d)[v].x = d[v]
<1> DEFINE m == Len(Targets)
           Holds(f, k) == /\ Len(f) \in 0..k
                          /\ \A u \in 1..k : ~ InMem(u) => u <= Len(f) /\ f[u].x = d[u]
<1>1. m \in Nat /\ Target = 1..m /\ \A u \in Target : d[u] \in Nat
  BY DataFacts
<1>2. PICK p : Recorded(d, m, p) /\ p[m] = File(d)
  BY FileUnfolded
<1> DEFINE T == {k \in 0..m : Holds(p[k], k)}
<1>3. 0 \in T
  BY <1>1, <1>2 DEF Recorded
<1>4. ASSUME NEW k \in 1..m, k - 1 \in T PROVE k \in T
  <2> DEFINE f == p[k - 1]
  <2>1. /\ k \in 0..m /\ k - 1 \in 0..m /\ k \in Target
        /\ f \in Files /\ Len(f) \in 0..(k - 1) /\ p[k] = WriteVar(f, k, d)
        /\ \A u \in 1..(k - 1) : ~ InMem(u) => u <= Len(f) /\ f[u].x = d[u]
    BY <1>1, <1>2, <1>4 DEF Recorded
  <2> HIDE DEF f
  <2>2. CASE InMem(k)
    <3>1. p[k] = f
      BY <2>1, <2>2 DEF WriteVar
    <3>2. \A u \in 1..k : ~ InMem(u) => u \in 1..(k - 1)
      BY <2>2
    <3> QED BY <2>1, <3>1, <3>2
  <2>3. CASE ~ InMem(k)
    <3>1. \A u \in 1..(k - 1) : ~ InMem(u)
      BY <1>1, <2>1, <2>3 DEF FilesFirst
    <3>2. Len(f) = k - 1
      <4>1. CASE k = 1
        BY <2>1, <4>1
      <4>2. CASE k # 1
        <5>1. k - 1 \in 1..(k - 1)
          BY <4>2
        <5> QED BY <2>1, <3>1, <5>1
      <4> QED BY <4>1, <4>2
    <3> DEFINE e == [v |-> k, x |-> d[k]]
               h == Append(f, e)
    <3>3. e \in Field /\ e.x = d[k] /\ p[k] = h
      BY <1>1, <2>1, <2>3, DataFacts DEF WriteVar, Field
    <3> HIDE DEF e
    <3>4. Len(h) = k /\ h[k] = e /\ \A u \in 1..(k - 1) : h[u] = f[u]
      BY <2>1, <3>2, <3>3 DEF Files
    <3> HIDE DEF h
    <3>5. ASSUME NEW u \in 1..k PROVE u <= Len(h) /\ h[u].x = d[u]
      <4>1. CASE u = k
        BY <3>3, <3>4, <4>1
      <4>2. CASE u # k
        <5>1. u \in 1..(k - 1)
          BY <4>2
        <5> QED BY <2>1, <3>1, <3>4, <5>1
      <4> QED BY <4>1, <4>2
    <3>6. Len(h) \in 0..k
      BY <3>4
    <3> QED BY <2>1, <3>3, <3>5, <3>6
  <2> QED BY <2>2, <2>3
<1>5. m \in T
  <2> HIDE DEF T
  <2>1. 0..m \subseteq T
    BY <1>1, <1>3, <1>4, Climb
  <2> QED BY <1>1, <2>1
<1>6. Holds(File(d), m)
  BY <1>2, <1>5
<1> QED BY <1>1, <1>6

\* ... and the end of a batch, for every variable that has a strategy of its own.
Separate == \A v, w \in Target : InMem(v) /\ Targets[v] = Targets[w] => v = w

Flags == {TRUE, FALSE}
Statics == [MemStrategies -> State(Flags)]
Slots == /\ shm \in Seq(Data) /\ Len(shm) \in Nat /\ DOMAIN shm = 1..Len(shm)
         /\ \A i \in DOMAIN shm : shm[i] \in Data /\ ready[i] \in Int

WithNull(s, b) == [s EXCEPT !.null = b]

LEMMA WithNullState ==
    ASSUME NEW N, NEW s \in State(N), NEW b \in N
    PROVE  /\ WithNull(s, b) \in State(N) /\ WithNull(s, b).null = b
           /\ WithNull(s, b).n = s.n /\ WithNull(s, b).value = s.value
           /\ WithNull(s, b).score = s.score /\ WithNull(s, b).idx = s.idx
BY DEF WithNull, State

LEMMA StrategyFacts ==
    ASSUME NEW v \in Target
    PROVE  /\ Targets[v] \in Strategies
           /\ InMem(v) => Targets[v] \in MemStrategies /\ Targets[v] # "A_AVG"
           /\ ~ InMem(v) => Targets[v] \in FileStrategies
<1>1. Targets[v] \in MemStrategies \cup FileStrategies
  BY TargetAssumption DEF Target
<1> QED BY <1>1 DEF Strategies, Averages, Votes, Searches, MemStrategies, FileStrategies, InMem

SlotEntries(v) == [i \in DOMAIN shm |-> [x |-> shm[i][v], idx |-> ready[i]]]

LEMMA CollectState ==
    ASSUME Slots, NEW v \in Target, NEW s \in State(Flags)
    PROVE  Collect(s, v) \in State(Flags)
<1> DEFINE e == SlotEntries(v)
           m == Len(shm)
           stg == Targets[v]
<1>1. /\ DOMAIN e = 1..m /\ m \in Nat /\ stg \in Strategies
      /\ \A i \in 1..m : e[i].x \in DOMAIN ScoreOf /\ e[i].idx \in Int
  BY DataFacts, StrategyFacts DEF Slots, SlotEntries
<1>2. FALSE \in Flags /\ Collect(s, v) = TakeAll(stg, WithNull(s, FALSE), e)
  BY DEF Flags, Collect, WithNull, SlotEntries
<1> HIDE DEF e, m, stg
<1>3. WithNull(s, FALSE) \in State(Flags)
  BY <1>2, WithNullState
<1>4. ASSUME NEW i \in 1..m, NEW t \in State(Flags) PROVE TakeNext(stg, t, e[i]) \in State(Flags)
  BY <1>1, TakeInType DEF TakeNext
<1>5. Entries(stg, Flags, m, e)
  BY <1>1, <1>4 DEF Entries
<1>6. TakeAll(stg, WithNull(s, FALSE), e) \in State(Flags)
  BY <1>1, <1>3, <1>5, TakeAllState
<1> QED BY <1>2, <1>6

CollectedInTurn(m, p) ==
    /\ p \in [0..m -> Statics] /\ p[0] = static
    /\ \A k \in 1..m : p[k] = OfVariable(p[k - 1], k)

LEMMA OfVariableStatics ==
    ASSUME Slots, NEW st \in Statics, NEW v \in Target
    PROVE  OfVariable(st, v) \in Statics
<1>1. CASE InMem(v)
  <2> DEFINE stg == Targets[v]
             new == Collect(st[stg], v)
  <2>1. stg \in MemStrategies /\ st[stg] \in State(Flags)
    BY <1>1, StrategyFacts DEF Statics
  <2>2. new \in State(Flags)
    <3> HIDE DEF stg
    <3> QED BY <2>1, CollectState
  <2>3. OfVariable(st, v) = [st EXCEPT ![stg] = new]
    BY <1>1 DEF OfVariable
  <2> HIDE DEF stg, new
  <2> QED BY <2>1, <2>2, <2>3 DEF Statics
<1>2. CASE ~ InMem(v)
  BY <1>2 DEF OfVariable
<1> QED BY <1>1, <1>2

LEMMA OfVariablesUnfolded ==
    ASSUME Slots, static \in Statics
    PROVE  \E p : CollectedInTurn(Len(Targets), p) /\ p[Len(Targets)] = OfVariables
<1> DEFINE m == Len(Targets)
           D == Statics
           order == [v \in Target |-> v]
           G(iter, S) == IF S = {} THEN static
                         ELSE OfVariable(iter[S \ {Max(S)}], order[Max(S)])
           Fold(iter) == iter = [S \in SUBSET DOMAIN order |-> G(iter, S)]
           g == [e \in D \X (1..m) |-> OfVariable(e[1], e[2])]
           c == CHOOSE iter : Fold(iter)
<1>1. m \in Nat /\ Target = 1..m /\ DOMAIN order = 1..m /\ \A k \in 1..m : order[k] = k
  BY LengthFacts
<1>2. OfVariables = c[1..m]
  <2>1. OfVariables = c[DOMAIN order]
    BY DEF OfVariables, FoldLeft, MapThenFoldSet
  <2> HIDE DEF c, order, m
  <2> QED BY <1>1, <2>1
<1> HIDE DEF order
<1>3. g \in [D \X (1..m) -> D] /\ \A s \in D, i \in 1..m : g[<<s, i>>] = OfVariable(s, i)
  <2>1. ASSUME NEW s \in D, NEW i \in 1..m PROVE OfVariable(s, i) \in D
    BY <1>1, OfVariableStatics
  <2> HIDE DEF D
  <2> QED BY <2>1
<1> HIDE DEF g, D, m
<1>4. \E h : Fold(h)
  <2>1. PICK h : Iteration(m, D, static, g, h)
    BY <1>1, <1>3, IterationExists DEF D
  <2>2. ASSUME NEW S \in SUBSET (1..m) PROVE h[S] = G(h, S)
    <3>1. CASE S = {}
      BY <2>1, <3>1 DEF Iteration
    <3>2. CASE S # {}
      <4>1. /\ Max(S) \in 1..m /\ h[S \ {Max(S)}] \in D
            /\ h[S] = g[<<h[S \ {Max(S)}], Max(S)>>]
        BY <2>1, <3>2 DEF Iteration
      <4> QED BY <1>1, <1>3, <3>2, <4>1
    <3> QED BY <3>1, <3>2
  <2>3. Fold(h)
    <3> HIDE DEF G
    <3> QED BY <1>1, <2>1, <2>2 DEF Iteration
  <2> QED BY <2>3
<1>5. \A S \in SUBSET (1..m) : c[S] = G(c, S)
  <2>1. Fold(c)
    <3> HIDE DEF Fold
    <3> QED BY <1>4
  <2> HIDE DEF G, c
  <2> QED BY <1>1, <2>1
<1> HIDE DEF c
<1>6. ASSUME NEW k \in 1..m, c[1..(k - 1)] \in D PROVE c[1..k] = g[<<c[1..(k - 1)], k>>]
  <2>1. /\ 1..k \in SUBSET (1..m) /\ 1..k # {} /\ (1..k) \ {k} = 1..(k - 1)
        /\ Max(1..k) = k
    BY <1>1, UpTo
  <2>2. c[1..k] = OfVariable(c[1..(k - 1)], k)
    <3>1. c[1..k] = G(c, 1..k)
      <4> HIDE DEF G
      <4> QED BY <1>5, <2>1
    <3>2. order[Max(1..k)] = k
      BY <1>1, <2>1
    <3> QED BY <2>1, <3>1, <3>2
  <2> QED BY <1>3, <1>6, <2>2
<1>7. Folded(m, D, static, g, c)
  BY <1>3, <1>5, <1>6 DEF Folded, D
<1>8. PICK p : Path(m, D, static, g, p) /\ p[m] = c[1..m]
  BY <1>1, <1>7, FoldSteps
<1>9. ASSUME NEW i \in 1..m PROVE p[i] = OfVariable(p[i - 1], i)
  <2>1. p[i] = g[<<p[i - 1], i>>] /\ p[i - 1] \in D
    BY <1>1, <1>8 DEF Path
  <2> QED BY <1>3, <2>1
<1> QED BY <1>2, <1>8, <1>9 DEF Path, D, m, CollectedInTurn

LEMMA EachCollectsOnce ==
    ASSUME Slots, static \in Statics, Separate
    PROVE  /\ OfVariables \in Statics
           /\ \A v \in Target : InMem(v) => OfVariables[Targets[v]] = Collect(static[Targets[v]], v)
           /\ \A stg \in MemStrategies :
                 (\A v \in Target : Targets[v] # stg) => OfVariables[stg] = static[stg]
<1> DEFINE m == Len(Targets)
<1>1. m \in Nat /\ Target = 1..m
  BY LengthFacts
<1>2. PICK p : CollectedInTurn(m, p) /\ p[m] = OfVariables
  BY OfVariablesUnfolded
<1> DEFINE Done(st, k) ==
               /\ \A v \in 1..k : InMem(v) => st[Targets[v]] = Collect(static[Targets[v]], v)
               /\ \A stg \in MemStrategies :
                     (\A v \in 1..k : Targets[v] # stg) => st[stg] = static[stg]
           T == {k \in 0..m : Done(p[k], k)}
<1>3. 0 \in T
  BY <1>1, <1>2 DEF CollectedInTurn
<1>4. ASSUME NEW k \in 1..m, k - 1 \in T PROVE k \in T
  <2> DEFINE st == p[k - 1]
             own == Targets[k]
  <2>1. /\ k \in 0..m /\ k - 1 \in 0..m /\ k \in Target /\ 1..k = (1..(k - 1)) \cup {k}
        /\ k \notin 1..(k - 1) /\ 1..(k - 1) \subseteq Target
        /\ st \in Statics /\ p[k] = OfVariable(st, k) /\ Done(st, k - 1)
    BY <1>1, <1>2, <1>4 DEF CollectedInTurn
  <2> HIDE DEF st
  <2>2. CASE InMem(k)
    <3> DEFINE new == Collect(st[own], k)
    <3>1. p[k] = [st EXCEPT ![own] = new] /\ own \in MemStrategies /\ DOMAIN st = MemStrategies
      BY <2>1, <2>2, StrategyFacts DEF OfVariable, Statics
    <3>2. \A v \in 1..(k - 1) : Targets[v] # own
      BY <2>1, <2>2 DEF Separate
    <3>3. st[own] = static[own]
      BY <2>1, <3>1, <3>2
    <3> HIDE DEF new
    <3>4. p[k][own] = new /\ \A stg \in MemStrategies \ {own} : p[k][stg] = st[stg]
      BY <3>1
    <3>5. ASSUME NEW v \in 1..k, InMem(v) PROVE p[k][Targets[v]] = Collect(static[Targets[v]], v)
      <4>1. CASE v = k
        BY <3>3, <3>4, <4>1 DEF new
      <4>2. CASE v # k
        <5>1. v \in 1..(k - 1) /\ Targets[v] \in MemStrategies
          BY <2>1, <3>5, <4>2, StrategyFacts
        <5> QED BY <2>1, <3>2, <3>4, <3>5, <5>1
      <4> QED BY <4>1, <4>2
    <3>6. ASSUME NEW stg \in MemStrategies, \A v \in 1..k : Targets[v] # stg
          PROVE  p[k][stg] = static[stg]
      <4>1. stg # own /\ \A v \in 1..(k - 1) : Targets[v] # stg
        BY <2>1, <3>6
      <4> QED BY <2>1, <3>4, <4>1
    <3> QED BY <2>1, <3>5, <3>6
  <2>3. CASE ~ InMem(k)
    <3>1. p[k] = st /\ own \notin MemStrategies
      BY <2>1, <2>3 DEF OfVariable, InMem
    <3> QED BY <2>1, <2>3, <3>1
  <2> QED BY <2>2, <2>3
<1>5. m \in T
  <2> HIDE DEF T
  <2>1. 0..m \subseteq T
    BY <1>1, <1>3, <1>4, Climb
  <2> QED BY <1>1, <2>1
<1>6. Done(OfVariables, m) /\ OfVariables \in Statics
  BY <1>1, <1>2, <1>5 DEF CollectedInTurn
<1> QED BY <1>1, <1>6

-----------------------------------------------------------------------------
\* The numbers of a variable in the accepted results t.
Col(t, v) == [k \in DOMAIN t |-> t[k][v]]

LEMMA ColFacts ==
    ASSUME NEW t \in Seq(Data), NEW v \in Target
    PROVE  /\ Len(t) \in Nat /\ DOMAIN t = 1..Len(t)
           /\ Col(t, v) \in Column /\ Len(Col(t, v)) = Len(t) /\ DOMAIN Col(t, v) = 1..Len(t)
           /\ \A k \in 1..Len(t) : Col(t, v)[k] = t[k][v] /\ t[k] \in Data
                                      /\ t[k][v] \in DOMAIN ScoreOf
<1> DEFINE n == Len(t)
<1>1. n \in Nat /\ DOMAIN t = 1..n
  OBVIOUS
<1>2. \A k \in 1..n : t[k] \in Data /\ t[k][v] \in DOMAIN ScoreOf
  BY <1>1, DataFacts
<1>3. Col(t, v) \in [1..n -> DOMAIN ScoreOf]
  BY <1>1, <1>2 DEF Col
<1>4. Col(t, v) \in Column /\ Len(Col(t, v)) = n
  <2> HIDE DEF n
  <2> QED BY <1>1, <1>3 DEF Column
<1> QED BY <1>1, <1>2, <1>3, <1>4 DEF Col

LEMMA SumTotals ==
    ASSUME taken \in Seq(Data), NEW v \in Target
    PROVE  IsTotal(Col(taken, v), Len(taken), Sum(v))
<1> DEFINE m == Len(taken)
           G(iter, S) == IF S = {} THEN 0 ELSE iter[S \ {Max(S)}] + taken[Max(S)][v]
           Fold(iter) == iter = [S \in SUBSET DOMAIN taken |-> G(iter, S)]
           D == Int
           zero == 0
           g == [e \in Int \X (1..m) |-> e[1] + taken[e[2]][v]]
           c == CHOOSE iter : Fold(iter)
<1>1. m \in Nat /\ DOMAIN taken = 1..m /\ \A i \in 1..m : taken[i][v] \in Int
  BY ColFacts, ScoreFacts
<1>2. Sum(v) = c[1..m]
  <2>1. Sum(v) = c[DOMAIN taken]
    BY DEF Sum, FoldLeft, MapThenFoldSet
  <2> HIDE DEF c, m
  <2> QED BY <1>1, <2>1
<1>3. g \in [Int \X (1..m) -> Int] /\ \A s \in Int, i \in 1..m : g[<<s, i>>] = s + taken[i][v]
  <2>1. \A s \in Int, i \in 1..m : s + taken[i][v] \in Int
    BY <1>1
  <2> QED BY <2>1
<1>0. zero \in D /\ g \in [D \X (1..m) -> D] /\ \A x \in D : x \in Int
  BY <1>3
<1> HIDE DEF g, m, D, zero
<1>4. \E h : Fold(h)
  <2>1. PICK h : Iteration(m, D, zero, g, h)
    BY <1>0, <1>1, IterationExists
  <2>2. ASSUME NEW S \in SUBSET (1..m) PROVE h[S] = G(h, S)
    <3>1. CASE S = {}
      BY <2>1, <3>1 DEF Iteration, zero
    <3>2. CASE S # {}
      <4>1. /\ Max(S) \in 1..m /\ h[S \ {Max(S)}] \in Int
            /\ h[S] = g[<<h[S \ {Max(S)}], Max(S)>>]
        BY <1>0, <2>1, <3>2 DEF Iteration
      <4> QED BY <1>3, <3>2, <4>1
    <3> QED BY <3>1, <3>2
  <2>3. Fold(h)
    <3> HIDE DEF G
    <3> QED BY <1>1, <2>1, <2>2 DEF Iteration
  <2> QED BY <2>3
<1>5. \A S \in SUBSET (1..m) : c[S] = G(c, S)
  <2>1. Fold(c)
    <3> HIDE DEF Fold
    <3> QED BY <1>4
  <2> HIDE DEF G, c
  <2> QED BY <1>1, <2>1
<1> HIDE DEF c
<1>6. ASSUME NEW k \in 1..m, c[1..(k - 1)] \in D PROVE c[1..k] = g[<<c[1..(k - 1)], k>>]
  <2>1. /\ 1..k \in SUBSET (1..m) /\ 1..k # {} /\ (1..k) \ {k} = 1..(k - 1)
        /\ Max(1..k) = k
    BY <1>1, UpTo
  <2>2. c[1..k] = c[1..(k - 1)] + taken[k][v]
    <3>1. c[1..k] = G(c, 1..k)
      <4> HIDE DEF G
      <4> QED BY <1>5, <2>1
    <3> QED BY <2>1, <3>1
  <2> QED BY <1>0, <1>3, <1>6, <2>2
<1>7. Folded(m, D, zero, g, c)
  <2>1. c[{}] = zero
    BY <1>5 DEF zero
  <2> QED BY <1>0, <1>6, <2>1 DEF Folded
<1>8. PICK p : Path(m, D, zero, g, p) /\ p[m] = c[1..m]
  BY <1>1, <1>7, FoldSteps
<1>9. ASSUME NEW i \in 1..m PROVE p[i] = p[i - 1] + Col(taken, v)[i]
  <2>1. p[i] = g[<<p[i - 1], i>>] /\ p[i - 1] \in Int /\ Col(taken, v)[i] = taken[i][v]
    BY <1>1, <1>8 DEF Path, Col, D
  <2> QED BY <1>3, <2>1
<1>10. Partial(Col(taken, v), m, p)
  BY <1>8, <1>9 DEF Partial, Path, D, zero
<1> QED BY <1>2, <1>8, <1>10 DEF IsTotal, m

-----------------------------------------------------------------------------
\* The results t that no slot of rd holds any more.
Collected(t, rd) == {k \in DOMAIN t : \A i \in DOMAIN rd : rd[i] # k - 1}

Controlled ==
    /\ ppc \in {"outside", "sampling", "aggregate", "crashed"}
    /\ region \in 0..MaxRegions /\ todo \in 0..SampleNum /\ running \in 0..Sub
    /\ next \in 1..(Len(Targets) + 1)
Listed ==
    /\ shm \in Seq(Data) /\ ready \in Seq(Int) /\ Len(ready) = Len(shm)
    /\ waiting \subseteq 1..Len(shm)
    /\ taken \in Seq(Data) /\ results \in Seq(Files) /\ Len(results) = Len(taken)
Computed == static \in Statics /\ \A stg \in MemStrategies : static[stg].n \in 0..SampleNum
Written ==
    /\ target \in [Target -> [num : Int, den : Int]] /\ best \in [Target -> Int]
Regular == Controlled /\ Listed /\ Computed /\ Written

Budget ==
    /\ Len(taken) + todo <= SampleNum
    /\ ppc = "sampling" => running + Cardinality(waiting) <= todo /\ next = 1
    /\ ppc # "sampling" => shm = <<>> /\ waiting = {}
    /\ ppc = "aggregate" => next <= Len(Targets)
    /\ ~ known => shm = <<>> /\ taken = <<>>

SlotsMatch ==
    /\ \A i \in waiting : ready[i] = None
    /\ \A i \in 1..Len(shm) : ready[i] # None =>
          ready[i] + 1 \in 1..Len(taken) /\ shm[i] = taken[ready[i] + 1]
    /\ \A i, j \in 1..Len(shm) : ready[i] # None /\ ready[i] = ready[j] => i = j

FilesMatch == \A r \in 1..Len(taken) : results[r] = File(taken[r])

\* The static variables of a target that has not been written in this region.
Pending(v) == InMem(v) /\ ppc \in {"sampling", "aggregate"} /\ v >= next
PendingRight ==
    \A v \in Target : Pending(v) =>
        /\ Right(Targets[v], Col(taken, v), Collected(taken, ready), static[Targets[v]])
        /\ Collected(taken, ready) # {} => static[Targets[v]].null = FALSE
OthersCleared ==
    \A stg \in MemStrategies :
        ppc # "crashed" /\ (\A v \in Target : Targets[v] = stg => ~ Pending(v))
            => static[stg] = Unallocated

WrittenRight ==
    \A v \in Target : v < next /\ taken # <<>> /\ (InMem(v) \/ FilesFirst)
        => Good(Targets[v], Col(taken, v), target[v], best[v])

Inv == /\ Regular /\ Budget /\ SlotsMatch /\ FilesMatch
       /\ PendingRight /\ OthersCleared /\ WrittenRight

LEMMA UnallocatedState ==
    Unallocated \in State(Flags) /\ Unallocated.n = 0
BY DEF Unallocated, State, Flags, Number, None

LEMMA CollectedFacts ==
    ASSUME NEW t \in Seq(Data), NEW rd \in Seq(Int)
    PROVE  /\ Collected(t, rd) \in SUBSET (1..Len(t))
           /\ Collected(t, Append(rd, None)) = Collected(t, rd)
           /\ Collected(t, <<>>) = 1..Len(t)
<1> DEFINE n == Len(rd)
           more == Append(rd, None)
<1>1. n \in Nat /\ DOMAIN rd = 1..n /\ DOMAIN t = 1..Len(t) /\ Len(t) \in Nat
  OBVIOUS
<1>2. DOMAIN more = 1..(n + 1) /\ more[n + 1] = None /\ \A i \in 1..n : more[i] = rd[i]
  BY <1>1 DEF None
<1>3. \A i : i \in DOMAIN more <=> i \in 1..n \/ i = n + 1
  BY <1>1, <1>2
<1>4. \A k \in 1..Len(t) : None # k - 1
  BY DEF None
<1> HIDE DEF more
<1>5. ASSUME NEW k \in 1..Len(t)
      PROVE  (\A i \in DOMAIN more : more[i] # k - 1) <=> (\A i \in DOMAIN rd : rd[i] # k - 1)
  BY <1>1, <1>2, <1>3, <1>4
<1>6. Collected(t, more) = Collected(t, rd)
  <2> HIDE DEF n
  <2> QED BY <1>1, <1>5 DEF Collected
<1>7. DOMAIN <<>> = {}
  OBVIOUS
<1> QED BY <1>1, <1>6, <1>7 DEF Collected, more

LEMMA CollectedAccepts ==
    ASSUME NEW t \in Seq(Data), NEW rd \in Seq(Int), NEW s \in DOMAIN rd, rd[s] = None, NEW d \in Data
    PROVE  Collected(Append(t, d), [rd EXCEPT ![s] = Len(t)]) = Collected(t, rd)
<1> DEFINE n == Len(t)
           u == Append(t, d)
           rq == [rd EXCEPT ![s] = n]
<1>1. n \in Nat /\ DOMAIN t = 1..n /\ DOMAIN u = 1..(n + 1)
  OBVIOUS
<1>2. DOMAIN rq = DOMAIN rd /\ rq[s] = n /\ \A i \in DOMAIN rd : i # s => rq[i] = rd[i]
  OBVIOUS
<1>3. \A k \in 1..n : None # k - 1 /\ n # k - 1
  BY <1>1 DEF None
<1>4. (n + 1) - 1 = n /\ \A k : k \in 1..(n + 1) <=> k \in 1..n \/ k = n + 1
  BY <1>1
<1> HIDE DEF u, rq, n
<1>5. n + 1 \notin Collected(u, rq)
  BY <1>2, <1>4 DEF Collected
<1>6. \A k \in 1..n : (\A i \in DOMAIN rq : rq[i] # k - 1) <=> (\A i \in DOMAIN rd : rd[i] # k - 1)
  BY <1>2, <1>3
<1>7. ASSUME NEW k PROVE k \in Collected(u, rq) <=> k \in Collected(t, rd)
  <2>1. k \in Collected(u, rq) <=> k \in 1..n /\ \A i \in DOMAIN rq : rq[i] # k - 1
    BY <1>1, <1>4, <1>5 DEF Collected
  <2>2. k \in Collected(t, rd) <=> k \in 1..n /\ \A i \in DOMAIN rd : rd[i] # k - 1
    BY <1>1 DEF Collected
  <2> QED BY <1>6, <2>1, <2>2
<1> QED BY <1>7 DEF u, rq, n

LEMMA ColAppend ==
    ASSUME NEW t \in Seq(Data), NEW d \in Data, NEW v \in Target
    PROVE  Col(Append(t, d), v) = Append(Col(t, v), d[v])
<1> DEFINE n == Len(t)
           a == Col(t, v)
           u == Append(t, d)
<1>1. /\ n \in Nat /\ a \in Column /\ Len(a) = n /\ \A k \in 1..n : a[k] = t[k][v]
      /\ d[v] \in DOMAIN ScoreOf
  BY ColFacts, DataFacts
<1>2. u \in Seq(Data) /\ Len(u) = n + 1 /\ DOMAIN u = 1..(n + 1) /\ u[n + 1] = d
      /\ \A k \in 1..n : u[k] = t[k]
  OBVIOUS
<1> HIDE DEF a, n, u
<1>3. Col(u, v) = [k \in 1..(n + 1) |-> IF k = n + 1 THEN d[v] ELSE a[k]]
  BY <1>1, <1>2 DEF Col
<1>4. Append(a, d[v]) = [k \in 1..(n + 1) |-> IF k = n + 1 THEN d[v] ELSE a[k]]
  BY <1>1 DEF Column
<1> QED BY <1>3, <1>4 DEF a, u

LEMMA RightBound ==
    ASSUME NEW stg \in Strategies, NEW a \in Column, NEW Q \in SUBSET (1..Len(a)), NEW s,
           Right(stg, a, Q, s)
    PROVE  s.n \in 0..Len(a)
<1>1. Len(a) \in Nat
  BY DEF Column
<1>2. Cardinality(Q) \in 0..Len(a)
  BY <1>1, Within
<1> QED BY <1>1, <1>2 DEF Right, Strategies, Mean, Majority, Extreme

-----------------------------------------------------------------------------
LEMMA InvInit == Init => Inv
<1> SUFFICES ASSUME Init PROVE Inv
  OBVIOUS
<1> USE DEF Init
<1>1. /\ <<>> \in Seq(Data) /\ <<>> \in Seq(Int) /\ <<>> \in Seq(Files) /\ Len(<<>>) = 0
      /\ 1..0 = {}
  OBVIOUS
<1>2. SampleNum \in Nat /\ Sub \in Nat /\ MaxRegions \in Nat /\ Len(Targets) \in Nat
  BY SizeAssumption, LengthFacts
<1>3. static \in Statics /\ \A stg \in MemStrategies : static[stg].n = 0
  BY UnallocatedState DEF Statics
<1>4. Regular
  <2>1. Controlled /\ Computed
    BY <1>2, <1>3 DEF Controlled, Computed
  <2>2. Listed
    BY <1>1 DEF Listed
  <2>3. Written
    BY DEF Written, Nothing, None
  <2> QED BY <2>1, <2>2, <2>3 DEF Regular
<1>5. Budget
  BY <1>1, <1>2 DEF Budget
<1>6. SlotsMatch /\ FilesMatch
  BY <1>1 DEF SlotsMatch, FilesMatch
<1>7. PendingRight /\ OthersCleared /\ WrittenRight
  BY DEF PendingRight, OthersCleared, WrittenRight, Pending
<1> QED BY <1>4, <1>5, <1>6, <1>7 DEF Inv

LEMMA DpSamplingInv ==
    ASSUME Inv, DpSampling
    PROVE  Inv'
<1> USE DEF DpSampling
<1>1. /\ <<>> \in Seq(Data) /\ <<>> \in Seq(Int) /\ <<>> \in Seq(Files) /\ Len(<<>>) = 0
      /\ 1..0 = {} /\ Cardinality({}) = 0 /\ DOMAIN <<>> = {}
  BY FS_EmptySet
<1>2. SampleNum \in Nat \ {0} /\ Sub \in Nat \ {0} /\ MaxRegions \in Nat /\ Len(Targets) \in Nat
  BY SizeAssumption, LengthFacts
<1>3. static \in Statics /\ \A stg \in MemStrategies : static[stg].n \in 0..SampleNum
  BY DEF Inv, Regular, Computed
<1>4. Regular'
  <2>1. Controlled'
    BY <1>2 DEF Inv, Regular, Controlled
  <2>2. Listed'
    BY <1>1 DEF Listed
  <2>3. Computed'
    BY <1>3 DEF Computed
  <2>4. Written'
    BY DEF Written, Nothing, None
  <2> QED BY <2>1, <2>2, <2>3, <2>4 DEF Regular
<1>5. Budget'
  BY <1>1, <1>2 DEF Budget
<1>6. SlotsMatch' /\ FilesMatch'
  BY <1>1 DEF SlotsMatch, FilesMatch
<1>7. \A stg \in MemStrategies : static[stg] = Unallocated
  BY DEF Inv, OthersCleared, Pending
<1>8. ASSUME NEW v \in Target, InMem(v)
      PROVE  /\ Right(Targets[v], Col(<<>>, v), Collected(<<>>, <<>>), static[Targets[v]])
             /\ Collected(<<>>, <<>>) = {}
  <2>1. Collected(<<>>, <<>>) = {}
    BY <1>1 DEF Collected
  <2>2. Targets[v] \in Strategies /\ Targets[v] # "A_AVG" /\ static[Targets[v]] = Unallocated
    BY <1>7, <1>8, StrategyFacts
  <2>3. Col(<<>>, v) \in Column
    BY <1>1, ColFacts
  <2> QED BY <2>1, <2>2, <2>3, NothingTakenIn
<1>9. PendingRight' /\ OthersCleared' /\ WrittenRight'
  BY <1>7, <1>8 DEF PendingRight, OthersCleared, WrittenRight, Pending
<1> QED BY <1>4, <1>5, <1>6, <1>9 DEF Inv

\* What does not touch the accepted results and what was made of them.
LEMMA Apart ==
    ASSUME Inv, UNCHANGED <<ppc, static, next, target, best, taken>>,
           Collected(taken, ready') = Collected(taken, ready)
    PROVE  PendingRight' /\ OthersCleared' /\ WrittenRight'
BY DEF Inv, PendingRight, OthersCleared, WrittenRight, Pending

LEMMA FailInv ==
    ASSUME Inv, Fail
    PROVE  Inv'
<1> USE DEF Fail
<1>1. running \in Nat /\ todo \in Nat /\ running > 0 /\ running + Cardinality(waiting) <= todo
      /\ waiting \subseteq 1..Len(shm) /\ Len(shm) \in Nat /\ SampleNum \in Nat
  BY SizeAssumption DEF Inv, Regular, Budget, Controlled, Listed
<1>2. Cardinality(waiting) \in Nat
  BY <1>1, Within
<1>3. Regular' /\ Budget'
  <2>1. Controlled'
    BY <1>1, <1>2, SizeAssumption DEF Inv, Regular, Controlled, outcome
  <2>2. Listed' /\ Computed' /\ Written'
    BY DEF Inv, Regular, Listed, Computed, Written, outcome
  <2>3. Budget'
    <3>1. Len(taken) \in Nat /\ todo' \in Int
      BY <1>1 DEF Inv, Regular, Listed
    <3> QED BY <1>1, <1>2, <3>1 DEF Inv, Budget, outcome
  <2> QED BY <2>1, <2>2, <2>3 DEF Regular
<1>4. SlotsMatch' /\ FilesMatch'
  BY DEF Inv, SlotsMatch, FilesMatch
<1>5. PendingRight' /\ OthersCleared' /\ WrittenRight'
  BY Apart DEF outcome
<1> QED BY <1>3, <1>4, <1>5 DEF Inv

LEMMA RejectInv ==
    ASSUME Inv, NEW s, Reject(s)
    PROVE  Inv'
<1> USE DEF Reject
<1>1. waiting \subseteq 1..Len(shm) /\ Len(shm) \in Nat /\ running \in Nat /\ todo \in Nat
      /\ running + Cardinality(waiting) <= todo
  BY DEF Inv, Regular, Budget, Controlled, Listed
<1>2. Cardinality(waiting) \in Nat /\ Cardinality(waiting \ {s}) = Cardinality(waiting) - 1
  <2>1. IsFiniteSet(waiting)
    BY <1>1, Within
  <2> QED BY <2>1, FS_RemoveElement, FS_CardinalityType
<1>3. Regular' /\ Budget'
  <2>1. Controlled' /\ Computed' /\ Written'
    BY DEF Inv, Regular, Controlled, Computed, Written, outcome
  <2>2. Listed'
    BY DEF Inv, Regular, Listed
  <2>3. Budget'
    BY <1>1, <1>2 DEF Inv, Budget, outcome
  <2> QED BY <2>1, <2>2, <2>3 DEF Regular
<1>4. SlotsMatch' /\ FilesMatch'
  BY DEF Inv, SlotsMatch, FilesMatch
<1>5. PendingRight' /\ OthersCleared' /\ WrittenRight'
  BY Apart DEF outcome
<1> QED BY <1>3, <1>4, <1>5 DEF Inv

LEMMA DeliverInv ==
    ASSUME Inv, Deliver
    PROVE  Inv'
<1>1. PICK d \in Data : shm' = Append(shm, d)
  BY DEF Deliver
<1>2. /\ ppc = "sampling" /\ running > 0 /\ running' = running - 1
      /\ ready' = Append(ready, None) /\ waiting' = waiting \cup {Len(shm) + 1} /\ known' = TRUE
      /\ UNCHANGED <<ppc, region, todo, static, results, taken, next, target, best>>
  BY DEF Deliver, outcome
<1> DEFINE m == Len(shm)
<1>3. /\ m \in Nat /\ shm \in Seq(Data) /\ ready \in Seq(Int) /\ Len(ready) = m
      /\ waiting \in SUBSET (1..m) /\ running \in Nat /\ todo \in Nat
      /\ running + Cardinality(waiting) <= todo /\ taken \in Seq(Data)
  BY <1>2 DEF Inv, Regular, Budget, Controlled, Listed
<1>4. /\ shm' \in Seq(Data) /\ ready' \in Seq(Int) /\ Len(shm') = m + 1 /\ Len(ready') = m + 1
      /\ ready'[m + 1] = None /\ \A i \in 1..m : shm'[i] = shm[i] /\ ready'[i] = ready[i]
      /\ waiting' \subseteq 1..(m + 1)
  <2>1. None \in Int
    BY DEF None
  <2>2. /\ Append(shm, d) \in Seq(Data) /\ Len(Append(shm, d)) = m + 1
        /\ \A i \in 1..m : Append(shm, d)[i] = shm[i]
    BY <1>3
  <2>3. /\ Append(ready, None) \in Seq(Int) /\ Len(Append(ready, None)) = m + 1
        /\ Append(ready, None)[m + 1] = None
        /\ \A i \in 1..m : Append(ready, None)[i] = ready[i]
    BY <1>3, <2>1
  <2>4. waiting' \subseteq 1..(m + 1)
    <3>1. waiting \subseteq 1..(m + 1) /\ m + 1 \in 1..(m + 1)
      BY <1>3
    <3> QED BY <1>2, <3>1
  <2> QED BY <1>1, <1>2, <2>2, <2>3, <2>4
<1>5. Cardinality(waiting) \in Nat /\ Cardinality(waiting') = Cardinality(waiting) + 1
  <2>1. waiting \in SUBSET (1..(m + 1)) /\ m + 1 \in (1..(m + 1)) \ waiting /\ m + 1 \in Nat
    BY <1>3
  <2>2. Cardinality(waiting) \in Nat /\ Cardinality(waiting \cup {m + 1}) = Cardinality(waiting) + 1
    BY <2>1, OneMore
  <2> QED BY <1>2, <2>2
<1>6. \A i : i \in 1..(m + 1) <=> i \in 1..m \/ i = m + 1
  BY <1>3
<1>7. Regular'
  <2>1. Controlled'
    <3>1. running \in 0..Sub /\ Sub \in Nat
      BY SizeAssumption DEF Inv, Regular, Controlled
    <3>2. running - 1 \in 0..Sub
      BY <1>2, <3>1
    <3> QED BY <1>2, <3>2 DEF Inv, Regular, Controlled
  <2>3. Computed' /\ Written'
    BY <1>2 DEF Inv, Regular, Computed, Written
  <2>2. Listed'
    BY <1>2, <1>4 DEF Inv, Regular, Listed
  <2> QED BY <2>1, <2>2, <2>3 DEF Regular
<1>8. Budget'
  BY <1>2, <1>3, <1>5 DEF Inv, Budget
<1>9. SlotsMatch'
  <2>1. \A i \in waiting : i \in 1..m /\ ready[i] = None
    BY <1>3 DEF Inv, SlotsMatch
  <2>2. /\ \A i \in 1..m : ready[i] # None =>
              ready[i] + 1 \in 1..Len(taken) /\ shm[i] = taken[ready[i] + 1]
        /\ \A i, j \in 1..m : ready[i] # None /\ ready[i] = ready[j] => i = j
    BY DEF Inv, SlotsMatch
  <2>3. Len(shm') = m + 1 /\ taken' = taken
    BY <1>2, <1>4
  <2> HIDE DEF m
  <2>4. \A i \in waiting' : ready'[i] = None
    BY <1>2, <1>4, <2>1 DEF m
  <2>5. \A i \in 1..(m + 1) : ready'[i] # None =>
            i \in 1..m /\ ready'[i] = ready[i] /\ shm'[i] = shm[i]
    BY <1>4, <1>6
  <2>6. ASSUME NEW i \in 1..(m + 1), NEW j \in 1..(m + 1), ready'[i] # None, ready'[i] = ready'[j]
        PROVE  i = j
    BY <2>2, <2>5, <2>6
  <2>7. ASSUME NEW i \in 1..(m + 1), ready'[i] # None
        PROVE  ready'[i] + 1 \in 1..Len(taken) /\ shm'[i] = taken[ready'[i] + 1]
    BY <2>2, <2>5, <2>7
  <2> QED BY <2>3, <2>4, <2>6, <2>7 DEF SlotsMatch
<1>10. FilesMatch'
  BY <1>2 DEF Inv, FilesMatch
<1>11. PendingRight' /\ OthersCleared' /\ WrittenRight'
  BY <1>2, <1>3, CollectedFacts, Apart
<1> QED BY <1>7, <1>8, <1>9, <1>10, <1>11 DEF Inv

\* The number of results changes only where a slot is given to one of them.
LEMMA AcceptInv ==
    ASSUME Inv, NEW s, Accept(s)
    PROVE  Inv'
<1> DEFINE m == Len(shm)
           n == Len(taken)
           d == shm[s]
<1>1. /\ ppc = "sampling" /\ s \in waiting /\ waiting' = waiting \ {s}
      /\ ready' = [ready EXCEPT ![s] = Len(results)] /\ results' = Append(results, File(d))
      /\ taken' = Append(taken, d) /\ todo' = todo - 1
      /\ UNCHANGED <<ppc, region, running, shm, known, static, next, target, best>>
  BY DEF Accept, outcome
<1>2. /\ m \in Nat /\ n \in Nat /\ shm \in Seq(Data) /\ ready \in Seq(Int) /\ Len(ready) = m
      /\ DOMAIN ready = 1..m /\ DOMAIN shm = 1..m
      /\ waiting \in SUBSET (1..m) /\ running \in Nat /\ todo \in Nat /\ taken \in Seq(Data)
      /\ results \in Seq(Files) /\ Len(results) = n /\ s \in 1..m /\ d \in Data /\ next = 1
      /\ running + Cardinality(waiting) <= todo /\ ready[s] = None /\ shm # <<>>
  <2>1. /\ m \in Nat /\ n \in Nat /\ shm \in Seq(Data) /\ ready \in Seq(Int) /\ Len(ready) = m
        /\ waiting \in SUBSET (1..m) /\ running \in Nat /\ todo \in Nat /\ taken \in Seq(Data)
        /\ results \in Seq(Files) /\ Len(results) = n /\ s \in 1..m
    BY <1>1 DEF Inv, Regular, Controlled, Listed
  <2>2. next = 1 /\ running + Cardinality(waiting) <= todo /\ ready[s] = None
    BY <1>1 DEF Inv, Budget, SlotsMatch
  <2>3. DOMAIN ready = 1..m /\ DOMAIN shm = 1..m /\ d \in Data
    BY <2>1
  <2>4. shm # <<>>
    BY <2>1
  <2> QED BY <2>1, <2>2, <2>3, <2>4
<1>3. Cardinality(waiting) \in Nat \ {0} /\ Cardinality(waiting \ {s}) = Cardinality(waiting) - 1
  <2>1. IsFiniteSet(waiting)
    BY <1>2, Within
  <2>2. Cardinality(waiting \ {s}) \in Nat /\ Cardinality(waiting) \in Nat
    BY <2>1, FS_CardinalityType, FS_RemoveElement
  <2>3. Cardinality(waiting \ {s}) = Cardinality(waiting) - 1
    BY <1>1, <2>1, FS_RemoveElement
  <2> QED BY <2>2, <2>3
<1>4. /\ taken' \in Seq(Data) /\ Len(taken') = n + 1 /\ taken'[n + 1] = d
      /\ \A k \in 1..n : taken'[k] = taken[k]
  BY <1>1, <1>2
<1>5. /\ results' \in Seq(Files) /\ Len(results') = n + 1 /\ results'[n + 1] = File(d)
      /\ \A k \in 1..n : results'[k] = results[k]
  <2>1. File(d) \in Files
    BY <1>2, FileType
  <2> QED BY <1>1, <1>2, <2>1
<1>6. /\ ready' \in Seq(Int) /\ Len(ready') = m /\ ready'[s] = n
      /\ \A i \in 1..m : i # s => ready'[i] = ready[i]
  BY <1>1, <1>2
<1>7. Regular'
  <2>1. Controlled'
    <3>1. todo - 1 \in 0..SampleNum
      <4>1. todo \in 0..SampleNum /\ SampleNum \in Nat
        BY SizeAssumption DEF Inv, Regular, Controlled
      <4> QED BY <1>2, <1>3, <4>1
    <3> QED BY <1>1, <3>1 DEF Inv, Regular, Controlled
  <2>2. Listed'
    BY <1>1, <1>2, <1>4, <1>5, <1>6 DEF Listed
  <2>3. Computed' /\ Written'
    BY <1>1 DEF Inv, Regular, Computed, Written
  <2> QED BY <2>1, <2>2, <2>3 DEF Regular
<1>8. Budget'
  <2>1. Len(taken') + todo' <= SampleNum /\ SampleNum \in Nat
    BY <1>1, <1>2, <1>4, SizeAssumption DEF Inv, Budget
  <2>2. running' + Cardinality(waiting') <= todo'
    BY <1>1, <1>2, <1>3
  <2>3. known
    BY <1>2 DEF Inv, Budget
  <2> QED BY <1>1, <1>2, <2>1, <2>2, <2>3 DEF Budget
<1>9. SlotsMatch'
  <2>1. \A i \in waiting' : ready'[i] = None
    BY <1>1, <1>2, <1>6 DEF Inv, SlotsMatch
  <2>2. ASSUME NEW i \in 1..m, ready'[i] # None
        PROVE  ready'[i] + 1 \in 1..(n + 1) /\ shm[i] = taken'[ready'[i] + 1]
    <3>1. CASE i = s
      BY <1>2, <1>4, <1>6, <3>1
    <3>2. CASE i # s
      <4>1. ready'[i] = ready[i] /\ ready[i] + 1 \in 1..n /\ shm[i] = taken[ready[i] + 1]
        BY <1>6, <2>2, <3>2 DEF Inv, SlotsMatch
      <4> QED BY <1>2, <1>4, <4>1
    <3> QED BY <3>1, <3>2
  <2>3. ASSUME NEW i \in 1..m, NEW j \in 1..m, ready'[i] # None, ready'[i] = ready'[j] PROVE i = j
    <3>1. \A k \in 1..m : k # s /\ ready[k] # None => ready[k] # n
      <4>1. ASSUME NEW k \in 1..m, ready[k] # None PROVE ready[k] # n
        <5>1. ready[k] + 1 \in 1..n /\ ready[k] \in Int
          BY <1>2, <4>1 DEF Inv, SlotsMatch
        <5> QED BY <1>2, <5>1
      <4> QED BY <4>1
    <3>2. CASE i = s \/ j = s
      BY <1>6, <2>3, <3>1, <3>2
    <3>3. CASE i # s /\ j # s
      BY <1>6, <2>3, <3>3 DEF Inv, SlotsMatch
    <3> QED BY <3>2, <3>3
  <2> QED BY <1>1, <1>4, <2>1, <2>2, <2>3 DEF SlotsMatch
<1>10. FilesMatch'
  <2>1. ASSUME NEW r \in 1..(n + 1) PROVE results'[r] = File(taken'[r])
    <3>1. CASE r = n + 1
      BY <1>4, <1>5, <3>1
    <3>2. CASE r # n + 1
      <4>1. r \in 1..n
        BY <1>2, <3>2
      <4> QED BY <1>4, <1>5, <4>1 DEF Inv, FilesMatch
    <3> QED BY <3>1, <3>2
  <2> QED BY <1>4, <2>1 DEF FilesMatch
<1>11. Collected(taken', ready') = Collected(taken, ready)
  <2>1. s \in DOMAIN ready
    BY <1>2
  <2>2. Collected(Append(taken, d), [ready EXCEPT ![s] = Len(taken)]) = Collected(taken, ready)
    <3> HIDE DEF d
    <3> QED BY <1>2, <2>1, CollectedAccepts
  <2> QED BY <1>1, <1>2, <2>2
<1>12. ASSUME NEW v \in Target, Pending(v)
       PROVE  Right(Targets[v], Col(taken', v), Collected(taken, ready), static[Targets[v]])
  <2> DEFINE Q == Collected(taken, ready)
             a == Col(taken, v)
             stg == Targets[v]
  <2>1. stg \in Strategies \ {"A_AVG"} /\ d[v] \in DOMAIN ScoreOf
    BY <1>2, <1>12, StrategyFacts, DataFacts DEF Pending
  <2>2. a \in Column /\ Q \in SUBSET (1..Len(a)) /\ Col(taken', v) = Append(a, d[v])
    BY <1>1, <1>2, ColFacts, ColAppend, CollectedFacts
  <2>3. Right(stg, a, Q, static[stg])
    BY <1>12 DEF Inv, PendingRight
  <2> HIDE DEF Q, a, stg, d
  <2> QED BY <2>1, <2>2, <2>3, NotTakenIn DEF Q, stg
<1>13. PendingRight' /\ OthersCleared' /\ WrittenRight'
  <2>1. WrittenRight'
    BY <1>1, <1>2, LengthFacts DEF WrittenRight
  <2>2. OthersCleared'
    BY <1>1 DEF Inv, OthersCleared, Pending
  <2>3. ASSUME NEW v \in Target, Pending(v)'
        PROVE  /\ Right(Targets[v], Col(taken', v), Collected(taken', ready'), static'[Targets[v]])
               /\ Collected(taken', ready') # {} => static'[Targets[v]].null = FALSE
    <3>1. Pending(v) /\ static' = static
      BY <1>1, <2>3 DEF Pending
    <3>2. Collected(taken, ready) # {} => static[Targets[v]].null = FALSE
      BY <3>1 DEF Inv, PendingRight
    <3> QED BY <1>11, <1>12, <3>1, <3>2
  <2>4. PendingRight'
    BY <2>3 DEF PendingRight
  <2> QED BY <2>1, <2>2, <2>4
<1> QED BY <1>7, <1>8, <1>9, <1>10, <1>13 DEF Inv

\* At the end of a batch, what a strategy has are all the accepted results.
LEMMA CollectRight ==
    ASSUME Inv, NEW v \in Target, Pending(v), NEW s \in State(Flags), s = static[Targets[v]]
    PROVE  /\ Collect(s, v) \in State(Flags) /\ Collect(s, v).null = FALSE
           /\ Right(Targets[v], Col(taken, v), 1..Len(taken), Collect(s, v))
<1> DEFINE n == Len(taken)
           m == Len(shm)
           a == Col(taken, v)
           stg == Targets[v]
           Q == Collected(taken, ready)
           e == SlotEntries(v)
           s0 == WithNull(s, FALSE)
<1>1. /\ n \in Nat /\ m \in Nat /\ taken \in Seq(Data) /\ ready \in Seq(Int) /\ DOMAIN taken = 1..n
      /\ DOMAIN shm = 1..m /\ DOMAIN ready = 1..m /\ stg \in Strategies
  BY StrategyFacts DEF Inv, Regular, Listed
<1>2. a \in Column /\ Len(a) = n /\ Q \in SUBSET (1..n) /\ \A k \in 1..n : a[k] = taken[k][v]
  BY <1>1, ColFacts, CollectedFacts
<1>3. DOMAIN e = 1..m /\ \A i \in 1..m : e[i].x = shm[i][v] /\ e[i].idx = ready[i]
  BY <1>1 DEF SlotEntries
<1>4. s0 \in State(Flags) /\ s0.null = FALSE /\ Right(stg, a, Q, s0)
  <2>1. FALSE \in Flags
    BY DEF Flags
  <2>2. Right(stg, a, Q, s)
    BY DEF Inv, PendingRight
  <2>3. /\ s0 \in State(Flags) /\ s0.null = FALSE /\ s0.n = s.n /\ s0.value = s.value
        /\ s0.score = s.score /\ s0.idx = s.idx
    <3> DEFINE f == FALSE
               t == WithNull(s, f)
    <3>1. f \in Flags
      BY <2>1
    <3> HIDE DEF f
    <3>2. /\ t \in State(Flags) /\ t.null = f /\ t.n = s.n /\ t.value = s.value
          /\ t.score = s.score /\ t.idx = s.idx
      BY <3>1, WithNullState
    <3> QED BY <3>2, Zenon DEF f
  <2> HIDE DEF s0, a, Q, stg
  <2> QED BY <2>2, <2>3, SameState
<1>5. ASSUME NEW i \in 1..m, e[i].idx # None
      PROVE  /\ e[i].idx \in Int /\ e[i].idx + 1 \in (1..n) \ Q /\ e[i].x = a[e[i].idx + 1]
  <2>1. /\ ready[i] \in Int /\ ready[i] + 1 \in 1..n /\ shm[i] = taken[ready[i] + 1]
        /\ (ready[i] + 1) - 1 = ready[i]
    BY <1>1, <1>3, <1>5 DEF Inv, SlotsMatch
  <2>2. ready[i] + 1 \notin Q
    BY <1>1, <2>1 DEF Collected
  <2> HIDE DEF e, a, Q
  <2> QED BY <1>2, <1>3, <2>1, <2>2
<1>6. \A i, j \in 1..m : e[i].idx # None /\ e[i].idx = e[j].idx => i = j
  BY <1>3 DEF Inv, SlotsMatch
<1>7. Q \cup Marked(e, m) = 1..n
  <2>1. Q \cup Marked(e, m) \subseteq 1..n
    <3>1. \A k \in Marked(e, m) : k \in 1..n
      BY <1>5 DEF Marked
    <3> QED BY <1>2, <3>1
  <2>2. ASSUME NEW k \in 1..n, k \notin Q PROVE k \in Marked(e, m)
    <3>1. PICK i \in 1..m : ready[i] = k - 1
      BY <1>1, <2>2 DEF Collected
    <3>2. e[i].idx = k - 1 /\ k - 1 # None /\ (k - 1) + 1 = k
      BY <1>1, <1>3, <3>1 DEF None
    <3> HIDE DEF e
    <3> QED BY <3>1, <3>2 DEF Marked
  <2> HIDE DEF Q
  <2> QED BY <2>1, <2>2
<1>8. /\ TakeAll(stg, s0, e) \in State(Flags) /\ TakeAll(stg, s0, e).null = s0.null
      /\ Right(stg, a, 1..n, TakeAll(stg, s0, e))
  <2> HIDE DEF e, a, Q, s0, stg, n, m
  <2>1. Fresh(a, Q, 1..n, m, e)
    BY <1>2, <1>3, <1>5, <1>6, <1>7 DEF Fresh
  <2>2. a \in Column /\ Q \in SUBSET (1..Len(a)) /\ stg \in Strategies /\ m \in Nat
    BY <1>1, <1>2
  <2>3. s0 \in State(Flags) /\ Right(stg, a, Q, s0)
    BY <1>4
  <2> QED BY <2>1, <2>2, <2>3, TakeAllRight
<1>9. Collect(s, v) = TakeAll(stg, s0, e)
  BY DEF Collect, WithNull, SlotEntries
<1> HIDE DEF s0, e, Q, n, a, stg
<1> QED BY <1>4, <1>8, <1>9 DEF n, a, stg

LEMMA AggShmInv ==
    ASSUME Inv, AggShm, Separate
    PROVE  Inv'
<1>1. /\ ppc = "sampling" /\ running = 0 /\ waiting = {}
      /\ shm' = <<>> /\ ready' = <<>>
      /\ \/ todo = 0 /\ ppc' = "aggregate" /\ running' = 0
         \/ todo # 0 /\ ppc' = "sampling" /\ running' = Batch
      /\ UNCHANGED <<region, todo, waiting, known, results, taken, next, target, best>>
  BY DEF AggShm, outcome
<1>2. /\ known => static' = OfVariables
      /\ ~ known => static' = static
  BY DEF AggShm
<1> DEFINE n == Len(taken)
<1>3. /\ n \in Nat /\ taken \in Seq(Data) /\ ready \in Seq(Int) /\ shm \in Seq(Data)
      /\ static \in Statics /\ \A stg \in MemStrategies : static[stg].n \in 0..SampleNum
      /\ next = 1 /\ n <= SampleNum /\ SampleNum \in Nat
  <2>1. /\ n \in Nat /\ taken \in Seq(Data) /\ ready \in Seq(Int) /\ shm \in Seq(Data)
        /\ static \in Statics /\ \A stg \in MemStrategies : static[stg].n \in 0..SampleNum
    BY DEF Inv, Regular, Listed, Computed
  <2>2. next = 1 /\ n + todo <= SampleNum /\ todo \in Nat
    BY <1>1 DEF Inv, Budget, Regular, Controlled
  <2> QED BY <2>1, <2>2, SizeAssumption
<1>4. Slots
  <2>1. DOMAIN ready = DOMAIN shm /\ DOMAIN shm = 1..Len(shm) /\ Len(shm) \in Nat
    BY <1>3 DEF Inv, Regular, Listed
  <2> QED BY <1>3, <2>1 DEF Slots
<1>5. /\ known => OfVariables \in Statics
      /\ \A v \in Target : InMem(v) => OfVariables[Targets[v]] = Collect(static[Targets[v]], v)
      /\ \A stg \in MemStrategies :
            (\A v \in Target : Targets[v] # stg) => OfVariables[stg] = static[stg]
  BY <1>3, <1>4, EachCollectsOnce
<1>6. ASSUME NEW v \in Target, InMem(v)
      PROVE  /\ Right(Targets[v], Col(taken, v), 1..n, static'[Targets[v]])
             /\ n # 0 => static'[Targets[v]].null = FALSE
             /\ static'[Targets[v]].n \in 0..SampleNum
  <2> DEFINE stg == Targets[v]
  <2>1. /\ stg \in MemStrategies /\ stg \in Strategies /\ Pending(v) /\ static[stg] \in State(Flags)
        /\ Col(taken, v) \in Column /\ Len(Col(taken, v)) = n
    BY <1>1, <1>3, <1>6, LengthFacts, StrategyFacts, ColFacts DEF Pending, Statics
  <2>2. CASE known
    <3>1. static'[stg] = Collect(static[stg], v)
      BY <1>2, <1>5, <1>6, <2>2
    <3>2. Right(stg, Col(taken, v), 1..n, static'[stg]) /\ static'[stg].null = FALSE
      BY <2>1, <3>1, CollectRight
    <3>3. static'[stg].n \in 0..n
      BY <2>1, <3>2, RightBound
    <3> QED BY <1>3, <3>2, <3>3
  <2>3. CASE ~ known
    <3>1. taken = <<>> /\ n = 0 /\ static' = static
      BY <1>2, <2>3 DEF Inv, Budget
    <3>2. Right(stg, Col(taken, v), Collected(taken, ready), static[stg])
      BY <2>1 DEF Inv, PendingRight
    <3>3. Collected(taken, ready) = 1..n
      <4>1. Collected(taken, ready) \in SUBSET (1..n)
        BY <1>3, CollectedFacts
      <4>2. 1..n = {}
        BY <3>1
      <4> QED BY <4>1, <4>2
    <3> QED BY <1>3, <2>1, <3>1, <3>2, <3>3
  <2> QED BY <2>2, <2>3
<1>7. ASSUME NEW stg \in MemStrategies, \A v \in Target : Targets[v] # stg
      PROVE  static'[stg] = static[stg]
  BY <1>2, <1>5, <1>7
<1>8. Regular'
  <2>1. Controlled'
    <3>1. Batch \in 0..Sub /\ 0 \in 0..Sub
      BY SizeAssumption DEF Batch, Inv, Regular, Controlled
    <3> QED BY <1>1, <3>1 DEF Inv, Regular, Controlled
  <2>2. Listed'
    <3>1. <<>> \in Seq(Data) /\ <<>> \in Seq(Int) /\ Len(<<>>) = 0
      OBVIOUS
    <3> QED BY <1>1, <3>1 DEF Inv, Regular, Listed
  <2>3. Computed'
    <3>1. static' \in Statics
      BY <1>2, <1>3, <1>5
    <3>2. ASSUME NEW stg \in MemStrategies PROVE static'[stg].n \in 0..SampleNum
      <4>1. CASE \E v \in Target : Targets[v] = stg
        BY <1>6, <4>1 DEF InMem
      <4>2. CASE \A v \in Target : Targets[v] # stg
        BY <1>3, <1>7, <4>2
      <4> QED BY <4>1, <4>2
    <3> QED BY <3>1, <3>2 DEF Computed
  <2>4. Written'
    BY <1>1 DEF Inv, Regular, Written
  <2> QED BY <2>1, <2>2, <2>3, <2>4 DEF Regular
<1>9. Budget'
  <2>1. Cardinality({}) = 0
    BY FS_EmptySet
  <2>2. Batch <= todo
    BY SizeAssumption DEF Batch, Inv, Regular, Controlled
  <2>3. todo \in Nat /\ Batch \in Nat
    BY SizeAssumption DEF Batch, Inv, Regular, Controlled
  <2>4. Len(Targets) \in Nat /\ 1 <= Len(Targets)
    BY TargetAssumption, LengthFacts
  <2>5. ppc' = "sampling" => running' + Cardinality(waiting') <= todo'
    BY <1>1, <2>1, <2>2, <2>3
  <2> QED BY <1>1, <1>3, <2>4, <2>5 DEF Inv, Budget
<1>10. SlotsMatch' /\ FilesMatch'
  <2>1. Len(<<>>) = 0 /\ 1..0 = {}
    OBVIOUS
  <2> QED BY <1>1, <2>1 DEF SlotsMatch, Inv, FilesMatch
<1>11. PendingRight'
  <2>1. Collected(taken', ready') = 1..n /\ (1..n # {} => n # 0)
    BY <1>1, <1>3, CollectedFacts
  <2> QED BY <1>1, <1>6, <2>1 DEF PendingRight, Pending
<1>12. OthersCleared'
  <2>1. ASSUME NEW stg \in MemStrategies, \A v \in Target : Targets[v] = stg => ~ Pending(v)'
        PROVE  static'[stg] = Unallocated
    <3>1. \A v \in Target : Targets[v] # stg
      BY <1>1, <1>3, <2>1, LengthFacts DEF Pending, InMem
    <3>2. static[stg] = Unallocated
      BY <1>1, <3>1 DEF Inv, OthersCleared
    <3> QED BY <1>7, <3>1, <3>2
  <2> QED BY <2>1 DEF OthersCleared
<1>13. WrittenRight'
  BY <1>1, <1>3, LengthFacts DEF WrittenRight
<1> QED BY <1>8, <1>9, <1>10, <1>11, <1>12, <1>13 DEF Inv

\* What the strategies that read the files find, if no variable in shared memory
\* is before them.
SearchEntries(v) == [r \in DOMAIN results |-> [x |-> InFile(r, v), idx |-> r - 1]]

LEMMA SearchFacts ==
    ASSUME Inv, NEW v \in Target
    PROVE  /\ DOMAIN SearchEntries(v) = 1..Len(taken) /\ DOMAIN results = 1..Len(taken)
           /\ Len(taken) \in Nat /\ Col(taken, v) \in Column /\ Len(Col(taken, v)) = Len(taken)
           /\ taken \in Seq(Data)
           /\ \A r \in 1..Len(taken) : /\ SearchEntries(v)[r].x = InFile(r, v)
                                       /\ SearchEntries(v)[r].idx = r - 1 /\ r - 1 # None
                                       /\ Col(taken, v)[r] = taken[r][v] /\ taken[r] \in Data
           /\ Search(v) = TakeAll(Targets[v], AtFirst(Targets[v], Len(taken)), SearchEntries(v))
           /\ AtFirst(Targets[v], Len(taken)) \in State(Flags)
           /\ Targets[v] \in Strategies
<1>1. taken \in Seq(Data) /\ results \in Seq(Files) /\ Len(results) = Len(taken)
  BY DEF Inv, Regular, Listed
<1>2. /\ Len(taken) \in Nat /\ DOMAIN results = 1..Len(taken)
      /\ Col(taken, v) \in Column /\ Len(Col(taken, v)) = Len(taken)
      /\ \A r \in 1..Len(taken) : Col(taken, v)[r] = taken[r][v] /\ taken[r] \in Data
  BY <1>1, ColFacts
<1>3. \A r \in 1..Len(taken) : r - 1 # None
  BY <1>2 DEF None
<1>4. Targets[v] \in Strategies
  BY StrategyFacts
<1>5. AtFirst(Targets[v], Len(taken)) \in State(Flags)
  <2>1. AtFirst(Targets[v], Len(Col(taken, v))) \in State({TRUE, FALSE})
    BY <1>2, <1>4, NothingTakenIn
  <2> QED BY <1>2, <2>1 DEF Flags
<1>6. Search(v) = TakeAll(Targets[v], AtFirst(Targets[v], Len(taken)), SearchEntries(v))
  BY <1>1 DEF Search, AtFirst, SearchEntries
<1> QED BY <1>1, <1>2, <1>3, <1>4, <1>5, <1>6 DEF SearchEntries

LEMMA SearchState ==
    ASSUME Inv, NEW v \in Target, \A r \in DOMAIN results : InFile(r, v) # None
    PROVE  Search(v) \in State(Flags)
<1> DEFINE n == Len(taken)
           e == SearchEntries(v)
           stg == Targets[v]
           s0 == AtFirst(stg, n)
<1>1. /\ DOMAIN e = 1..n /\ n \in Nat /\ s0 \in State(Flags) /\ stg \in Strategies
      /\ Search(v) = TakeAll(stg, s0, e) /\ DOMAIN results = 1..n
  BY SearchFacts
<1>2. ASSUME NEW r \in 1..n PROVE e[r].x \in DOMAIN ScoreOf /\ e[r].idx \in Int
  <2>1. e[r].x = InFile(r, v) /\ e[r].idx = r - 1
    BY SearchFacts
  <2>2. v \in DOMAIN results[r] /\ InFile(r, v) = results[r][v].x
    BY <1>1 DEF InFile
  <2>3. results[r] \in Files
    BY <1>1 DEF Inv, Regular, Listed
  <2>4. results[r][v] \in Field
    BY <2>2, <2>3 DEF Files
  <2> QED BY <2>1, <2>2, <2>4 DEF Field
<1> HIDE DEF e, s0, stg, n
<1>3. ASSUME NEW r \in 1..n, NEW t \in State(Flags) PROVE TakeNext(stg, t, e[r]) \in State(Flags)
  BY <1>1, <1>2, TakeInType DEF TakeNext
<1>4. Entries(stg, Flags, n, e)
  BY <1>1, <1>3 DEF Entries
<1> QED BY <1>1, <1>4, TakeAllState

LEMMA SearchRight ==
    ASSUME Inv, NEW v \in Target, ~ InMem(v), FilesFirst
    PROVE  /\ \A r \in DOMAIN results : InFile(r, v) # None
           /\ Right(Targets[v], Col(taken, v), 1..Len(taken), Search(v))
<1> DEFINE n == Len(taken)
           a == Col(taken, v)
           e == SearchEntries(v)
           stg == Targets[v]
           s0 == AtFirst(stg, n)
<1>1. /\ DOMAIN e = 1..n /\ n \in Nat /\ s0 \in State(Flags) /\ stg \in Strategies
      /\ Search(v) = TakeAll(stg, s0, e) /\ DOMAIN results = 1..n
      /\ a \in Column /\ Len(a) = n
  BY SearchFacts
<1>2. ASSUME NEW r \in 1..n
      PROVE  /\ e[r].x = a[r] /\ e[r].idx = r - 1 /\ r - 1 # None /\ (r - 1) + 1 = r
             /\ InFile(r, v) = a[r] /\ a[r] # None
  <2>1. /\ e[r].x = InFile(r, v) /\ e[r].idx = r - 1 /\ r - 1 # None
        /\ a[r] = taken[r][v] /\ taken[r] \in Data
    BY SearchFacts
  <2>2. results[r] = File(taken[r])
    BY DEF Inv, FilesMatch
  <2>3. v \in DOMAIN results[r] /\ results[r][v].x = a[r]
    BY <2>1, <2>2, FileHolds
  <2>4. a[r] \in Nat
    BY <2>1, DataFacts
  <2> QED BY <2>1, <2>3, <2>4 DEF InFile, None
<1>3. Marked(e, n) = 1..n
  <2>1. \A r \in 1..n : e[r].idx # None /\ e[r].idx + 1 = r
    BY <1>2
  <2> HIDE DEF e, n
  <2> QED BY <2>1 DEF Marked
<1>4. Right(stg, a, {}, s0)
  <2> HIDE DEF a, stg
  <2> QED BY <1>1, NothingTakenIn
<1>5. Right(stg, a, 1..n, TakeAll(stg, s0, e))
  <2> HIDE DEF e, a, s0, stg, n
  <2>1. Fresh(a, {}, 1..n, n, e)
    BY <1>1, <1>2, <1>3 DEF Fresh
  <2>2. {} \in SUBSET (1..Len(a))
    OBVIOUS
  <2> QED BY <1>1, <1>4, <2>1, <2>2, TakeAllRight
<1> HIDE DEF e, a, s0, stg, n
<1>6. \A r \in DOMAIN results : InFile(r, v) # None
  BY <1>1, <1>2
<1> QED BY <1>1, <1>5, <1>6 DEF a, stg, n

-----------------------------------------------------------------------------
\* A variable is written.
LEMMA WriteInv ==
    ASSUME Inv, ppc = "aggregate", UNCHANGED <<region, batch>>,
           NEW value \in [num : Int, den : Int], NEW idx \in Int, Write(value, idx),
           taken # <<>> /\ (InMem(next) \/ FilesFirst)
               => Good(Targets[next], Col(taken, next), value, idx)
    PROVE  /\ Controlled' /\ Listed' /\ Written' /\ Budget' /\ SlotsMatch' /\ FilesMatch'
           /\ WrittenRight'
<1>1. /\ next \in Target /\ next \in 1..Len(Targets) /\ Len(Targets) \in Nat /\ Target = 1..Len(Targets)
      /\ target \in [Target -> [num : Int, den : Int]] /\ best \in [Target -> Int]
  BY LengthFacts DEF Inv, Regular, Controlled, Written, Budget
<1>2. /\ target' = [target EXCEPT ![next] = value] /\ best' = [best EXCEPT ![next] = idx]
      /\ next' = next + 1
      /\ ppc' = IF value = Nothing THEN "crashed" ELSE IF next = Len(Targets) THEN "outside" ELSE ppc
  BY DEF Write
<1>3. UNCHANGED <<region, todo, running, shm, ready, waiting, known, results, taken>>
  BY DEF batch
<1>4. Controlled'
  <2>1. next + 1 \in 1..(Len(Targets) + 1)
    BY <1>1
  <2>2. ppc' \in {"outside", "sampling", "aggregate", "crashed"}
    BY <1>2
  <2> QED BY <1>2, <1>3, <2>1, <2>2 DEF Inv, Regular, Controlled
<1>5. Listed'
  BY <1>3 DEF Inv, Regular, Listed
<1>6. Written'
  BY <1>1, <1>2 DEF Written
<1>7. Budget'
  <2>1. ppc' # "sampling" /\ (ppc' = "aggregate" => next # Len(Targets))
    BY <1>2
  <2>2. ppc' = "aggregate" => next' <= Len(Targets)
    BY <1>1, <1>2, <2>1
  <2> QED BY <1>3, <2>1, <2>2 DEF Inv, Budget
<1>8. SlotsMatch' /\ FilesMatch'
  BY <1>3 DEF Inv, SlotsMatch, FilesMatch
<1>9. WrittenRight'
  <2>1. ASSUME NEW v \in Target, v < next + 1, taken # <<>>, InMem(v) \/ FilesFirst
        PROVE  Good(Targets[v], Col(taken, v), target'[v], best'[v])
    <3>1. CASE v = next
      BY <1>1, <1>2, <2>1, <3>1
    <3>2. CASE v # next
      <4>1. v < next
        BY <1>1, <2>1, <3>2
      <4>2. Good(Targets[v], Col(taken, v), target[v], best[v])
        BY <2>1, <4>1 DEF Inv, WrittenRight
      <4>3. target'[v] = target[v] /\ best'[v] = best[v]
        BY <1>1, <1>2, <3>2
      <4> QED BY <4>2, <4>3
    <3> QED BY <3>1, <3>2
  <2> QED BY <1>2, <1>3, <2>1 DEF WrittenRight
<1> QED BY <1>4, <1>5, <1>6, <1>7, <1>8, <1>9

\* A variable is still to be written after that if it was before and is not this one.
LEMMA WritePending ==
    ASSUME Inv, ppc = "aggregate", NEW value, NEW idx, Write(value, idx), NEW v \in Target,
           ppc' # "crashed"
    PROVE  Pending(v)' <=> Pending(v) /\ v # next
<1>1. next \in 1..Len(Targets) /\ Len(Targets) \in Nat /\ Target = 1..Len(Targets)
  BY LengthFacts DEF Inv, Regular, Controlled, Budget
<1>2. /\ next' = next + 1
      /\ \/ ppc' = "outside" /\ next = Len(Targets)
         \/ ppc' = "aggregate" /\ next # Len(Targets)
  BY DEF Write
<1>3. v \in Int /\ v <= Len(Targets) /\ (v >= next + 1 <=> v >= next /\ v # next)
  BY <1>1
<1> QED BY <1>1, <1>2, <1>3 DEF Pending

\* What is not in shared memory leaves the static variables alone.
LEMMA FinishFileInv ==
    ASSUME Inv, FinishFile
    PROVE  Inv'
<1> DEFINE stg == Targets[next]
           s == Search(next)
           missing == \E r \in DOMAIN results : InFile(r, next) = None
           none == stg \in {"A_MAX", "A_MIN"} /\ s.idx = None
<1>1. /\ ppc = "aggregate" /\ ~ InMem(next)
      /\ IF missing THEN Write(Nothing, None)
         ELSE IF none THEN Write(Nothing, None)
         ELSE Write(s.value, s.idx)
      /\ UNCHANGED <<region, batch, static>>
  BY DEF FinishFile
<1>2. next \in Target /\ Len(taken) \in Nat /\ taken \in Seq(Data)
  <2>1. next \in 1..Len(Targets)
    BY <1>1, LengthFacts DEF Inv, Regular, Controlled, Budget
  <2> QED BY <2>1, LengthFacts DEF Inv, Regular, Listed
<1>3. ASSUME FilesFirst, taken # <<>>
      PROVE  ~ missing /\ ~ none /\ Good(stg, Col(taken, next), s.value, s.idx)
  <2>1. ~ missing /\ Right(stg, Col(taken, next), 1..Len(taken), s)
    BY <1>1, <1>2, <1>3, SearchRight
  <2>2. s \in State(Flags)
    BY <1>2, <2>1, SearchState
  <2>3. /\ Col(taken, next) \in Column /\ Len(Col(taken, next)) = Len(taken)
        /\ DOMAIN Col(taken, next) = 1..Len(taken) /\ stg \in Strategies
    BY <1>2, ColFacts, StrategyFacts
  <2>4. Len(taken) > 0
    BY <1>2, <1>3
  <2> DEFINE a == Col(taken, next)
  <2>5. Good(stg, a, s.value, s.idx) /\ (stg \in Searches => s.idx # None)
    <3>1. Right(stg, a, DOMAIN a, s) /\ Len(a) > 0
      BY <2>1, <2>3, <2>4
    <3> HIDE DEF a, s, stg
    <3> QED BY <2>2, <2>3, <3>1, AllTakenIn DEF a
  <2> QED BY <2>1, <2>5 DEF Searches
<1>4. PICK value \in [num : Int, den : Int], idx \in Int :
         /\ Write(value, idx)
         /\ taken # <<>> /\ FilesFirst => Good(stg, Col(taken, next), value, idx)
  <2>1. Nothing \in [num : Int, den : Int] /\ None \in Int
    BY DEF Nothing, None
  <2>2. CASE missing \/ none
    BY <1>1, <1>3, <2>1, <2>2
  <2>3. CASE ~ missing /\ ~ none
    <3>1. s \in State(Flags)
      BY <1>2, <2>3, SearchState
    <3>2. s.value \in [num : Int, den : Int] /\ s.idx \in Int
      BY <3>1, StateFields
    <3> HIDE DEF s, missing, none
    <3> QED BY <1>1, <1>3, <2>3, <3>2
  <2> QED BY <2>2, <2>3
<1>5. /\ Controlled' /\ Listed' /\ Written' /\ Budget' /\ SlotsMatch' /\ FilesMatch'
      /\ WrittenRight'
  BY <1>1, <1>4, WriteInv
<1>6. Computed'
  BY <1>1 DEF Inv, Regular, Computed
<1>7. \A v \in Target : ppc' # "crashed" => (Pending(v)' <=> Pending(v))
  <2>1. ASSUME NEW v \in Target, ppc' # "crashed" PROVE Pending(v)' <=> Pending(v) /\ v # next
    BY <1>1, <1>4, <2>1, WritePending
  <2>2. ~ Pending(next)
    BY <1>1 DEF Pending
  <2> QED BY <2>1, <2>2
<1>8. PendingRight' /\ OthersCleared'
  <2>1. \A v \in Target : Pending(v)' => Pending(v) /\ ppc' # "crashed"
    BY <1>7 DEF Pending
  <2>2. UNCHANGED <<static, taken, ready>>
    BY <1>1 DEF batch
  <2>3. PendingRight'
    BY <2>1, <2>2 DEF Inv, PendingRight
  <2>4. OthersCleared'
    BY <1>1, <1>7, <2>2 DEF Inv, OthersCleared
  <2> QED BY <2>3, <2>4
<1> QED BY <1>5, <1>6, <1>8 DEF Inv, Regular

LEMMA FinishMemInv ==
    ASSUME Inv, FinishMem, Separate
    PROVE  Inv'
<1> DEFINE stg == Targets[next]
           s == static[stg]
           none == s.null \/ (stg \in {"A_MAX_MEM", "A_MIN_MEM"} /\ s.idx = None)
<1>1. /\ ppc = "aggregate" /\ InMem(next)
      /\ \/ none /\ Write(Nothing, None) /\ static' = static
         \/ ~ none /\ Write(s.value, s.idx) /\ static' = [static EXCEPT ![stg] = Unallocated]
      /\ UNCHANGED <<region, batch>>
  BY DEF FinishMem
<1>2. /\ next \in Target /\ Len(taken) \in Nat /\ taken \in Seq(Data) /\ ready = <<>>
      /\ static \in Statics
  <2>1. next \in 1..Len(Targets) /\ shm = <<>>
    BY <1>1, LengthFacts DEF Inv, Regular, Controlled, Budget
  <2>2. ready \in Seq(Int) /\ Len(ready) = 0
    BY <2>1 DEF Inv, Regular, Listed
  <2> QED BY <2>1, <2>2, LengthFacts DEF Inv, Regular, Listed, Computed
<1>3. stg \in MemStrategies /\ stg \in Strategies /\ s \in State(Flags) /\ Pending(next)
  BY <1>1, <1>2, LengthFacts, StrategyFacts DEF Pending, Statics
<1>4. ASSUME taken # <<>>
      PROVE  ~ none /\ Good(stg, Col(taken, next), s.value, s.idx)
  <2> DEFINE a == Col(taken, next)
             Q == Collected(taken, ready)
  <2>1. /\ a \in Column /\ Len(a) = Len(taken) /\ DOMAIN a = 1..Len(taken)
        /\ Q = 1..Len(taken)
    <3>1. a \in Column /\ Len(a) = Len(taken) /\ DOMAIN a = 1..Len(taken)
      BY <1>2, ColFacts
    <3>2. <<>> \in Seq(Int)
      OBVIOUS
    <3>3. Collected(taken, <<>>) = 1..Len(taken)
      BY <1>2, <3>2, CollectedFacts
    <3> QED BY <1>2, <3>1, <3>3
  <2>2. Right(stg, a, Q, s) /\ (Q # {} => s.null = FALSE)
    BY <1>2, <1>3 DEF Inv, PendingRight
  <2>3. Len(taken) > 0 /\ Q # {}
    <3>1. Len(taken) > 0
      BY <1>2, <1>4
    <3>2. 1 \in 1..Len(taken)
      BY <1>2, <3>1
    <3> HIDE DEF Q
    <3> QED BY <2>1, <3>1, <3>2
  <2>4. Good(stg, a, s.value, s.idx) /\ (stg \in Searches => s.idx # None)
    <3>1. Right(stg, a, DOMAIN a, s) /\ Len(a) > 0
      BY <2>1, <2>2, <2>3
    <3> HIDE DEF a, s, stg
    <3> QED BY <1>3, <2>1, <3>1, AllTakenIn DEF a
  <2>5. ~ s.null
    BY <2>2, <2>3
  <2> QED BY <2>4, <2>5 DEF Searches
<1>5. PICK value \in [num : Int, den : Int], idx \in Int :
         /\ Write(value, idx)
         /\ taken # <<>> => Good(stg, Col(taken, next), value, idx)
         /\ none => value = Nothing
  <2>1. Nothing \in [num : Int, den : Int] /\ None \in Int
    BY DEF Nothing, None
  <2>2. s.value \in [num : Int, den : Int] /\ s.idx \in Int
    BY <1>3, StateFields
  <2> HIDE DEF s, none, stg
  <2> QED BY <1>1, <1>4, <2>1, <2>2
<1>6. /\ Controlled' /\ Listed' /\ Written' /\ Budget' /\ SlotsMatch' /\ FilesMatch'
      /\ WrittenRight'
  BY <1>1, <1>5, WriteInv
<1>7. /\ static' \in Statics /\ \A t \in MemStrategies : t # stg => static'[t] = static[t]
      /\ ~ none => static'[stg] = Unallocated
      /\ static' = static \/ static'[stg] = Unallocated
  <2>1. CASE static' = static /\ none
    BY <1>2, <2>1
  <2>2. CASE static' = [static EXCEPT ![stg] = Unallocated]
    <3> HIDE DEF stg
    <3> QED BY <1>2, <1>3, <2>2, UnallocatedState DEF Statics
  <2> HIDE DEF none
  <2> QED BY <1>1, <2>1, <2>2
<1>8. Computed'
  <2>1. 0 \in 0..SampleNum /\ \A t \in MemStrategies : static[t].n \in 0..SampleNum
    BY SizeAssumption DEF Inv, Regular, Computed
  <2> HIDE DEF none
  <2> QED BY <1>3, <1>7, <2>1, UnallocatedState DEF Computed
<1>9. ppc' # "crashed" => ~ none
  BY <1>5 DEF Write
<1>10. \A v \in Target : ppc' # "crashed" => (Pending(v)' <=> Pending(v) /\ v # next)
  BY <1>1, <1>5, WritePending
<1>11. \A v \in Target : InMem(v) /\ v # next => Targets[v] # stg /\ Targets[v] \in MemStrategies
  BY <1>2, StrategyFacts DEF Separate
<1>12. PendingRight'
  <2>1. ASSUME NEW v \in Target, Pending(v)'
        PROVE  Pending(v) /\ static'[Targets[v]] = static[Targets[v]]
    <3>1. Pending(v) /\ v # next /\ InMem(v)
      BY <1>10, <2>1 DEF Pending
    <3> QED BY <1>7, <1>11, <3>1
  <2> QED BY <1>1, <2>1 DEF batch, Inv, PendingRight
<1>13. OthersCleared'
  <2>1. ASSUME NEW t \in MemStrategies, ppc' # "crashed",
               \A v \in Target : Targets[v] = t => ~ Pending(v)'
        PROVE  static'[t] = Unallocated
    <3>1. CASE t = stg
      BY <1>7, <1>9, <2>1, <3>1
    <3>2. CASE t # stg
      <4>1. \A v \in Target : Targets[v] = t => ~ Pending(v)
        BY <1>10, <2>1, <3>2
      <4>2. static[t] = Unallocated
        BY <1>1, <4>1 DEF Inv, OthersCleared
      <4> QED BY <1>7, <3>2, <4>2
    <3> QED BY <3>1, <3>2
  <2> QED BY <2>1 DEF OthersCleared
<1> QED BY <1>6, <1>8, <1>12, <1>13 DEF Inv, Regular

LEMMA InvNext ==
    ASSUME Inv, [Next]_vars, Separate
    PROVE  Inv'
<1>1. CASE DpSampling
  BY <1>1, DpSamplingInv
<1>2. CASE Deliver
  BY <1>2, DeliverInv
<1>3. CASE Fail
  BY <1>3, FailInv
<1>4. CASE AggShm
  BY <1>4, AggShmInv
<1>5. CASE FinishMem
  BY <1>5, FinishMemInv
<1>6. CASE FinishFile
  BY <1>6, FinishFileInv
<1>7. ASSUME NEW s \in waiting, Accept(s) PROVE Inv'
  BY <1>7, AcceptInv
<1>8. ASSUME NEW s \in waiting, Reject(s) PROVE Inv'
  BY <1>8, RejectInv
<1>9. CASE UNCHANGED vars
  <2>1. UNCHANGED <<ppc, region, todo, running, shm, ready, waiting, known, static, results,
                    next, target, best, taken>>
    BY <1>9 DEF vars, batch, outcome
  <2> QED BY <2>1 DEF Inv, Regular, Controlled, Listed, Computed, Written, Budget, SlotsMatch,
                      FilesMatch, PendingRight, OthersCleared, WrittenRight, Pending
<1> QED BY <1>1, <1>2, <1>3, <1>4, <1>5, <1>6, <1>7, <1>8, <1>9 DEF Next

LEMMA InvAlways ==
    ASSUME Separate
    PROVE  Spec => []Inv
BY InvInit, InvNext, PTL DEF Spec

-----------------------------------------------------------------------------
LEMMA InvTypeOK ==
    ASSUME Inv
    PROVE  TypeOK
<1>1. DOMAIN shm = 1..Len(shm) /\ Len(taken) \in Nat /\ Len(taken) = Len(results)
  <2>1. shm \in Seq(Data) /\ taken \in Seq(Data) /\ Len(results) = Len(taken)
    BY DEF Inv, Regular, Listed
  <2> QED BY <2>1, LengthFacts
<1>2. ASSUME NEW i \in DOMAIN shm
      PROVE  shm[i] \in Data /\ ready[i] \in (-1)..(Len(results) - 1)
  <2>1. shm[i] \in Data
    BY DEF Inv, Regular, Listed
  <2>2. ready[i] \in Int
    BY <1>1 DEF Inv, Regular, Listed
  <2>3. ready[i] = -1 \/ ready[i] + 1 \in 1..Len(taken)
    BY <1>1 DEF Inv, SlotsMatch, None
  <2> QED BY <1>1, <2>1, <2>2, <2>3
<1>3. Len(results) + todo <= SampleNum
  BY <1>1 DEF Inv, Budget
<1> QED BY <1>1, <1>2, <1>3 DEF Inv, Regular, Controlled, Listed, Computed, TypeOK

LEMMA InvWritten ==
    ASSUME Inv, FilesFirst, NEW stgs, NEW v \in Settled(stgs)
    PROVE  /\ v \in Target /\ Targets[v] \in stgs /\ taken \in Seq(Data)
           /\ Good(Targets[v], Col(taken, v), target[v], best[v])
BY DEF Inv, Regular, Listed, WrittenRight, Settled

LEMMA InvAverage ==
    ASSUME Inv, FilesFirst
    PROVE  AverageExact
<1> SUFFICES ASSUME NEW v \in Settled({"A_AVG", "A_AVG_MEM"})
             PROVE  target[v] # Nothing
                    /\ target[v].num * Len(taken) = Sum(v) * target[v].den
  BY DEF AverageExact
<1>1. /\ v \in Target /\ Targets[v] \in Averages /\ taken \in Seq(Data)
      /\ Good(Targets[v], Col(taken, v), target[v], best[v])
  BY InvWritten DEF Averages
<1>2. target[v] # Nothing /\ Average(Col(taken, v), target[v])
  BY <1>1 DEF Good
<1>3. IsTotal(Col(taken, v), Len(taken), Sum(v)) /\ Len(Col(taken, v)) = Len(taken)
  BY <1>1, SumTotals, ColFacts
<1> QED BY <1>2, <1>3 DEF Average

LEMMA InvMajority ==
    ASSUME Inv, FilesFirst
    PROVE  MajorityFound
<1> SUFFICES ASSUME NEW v \in Settled({"A_MJ_VOTE", "A_MJ_VOTE_MEM"})
             PROVE  /\ target[v] # Nothing
                    /\ \A x \in DOMAIN ScoreOf :
                          2 * Cardinality({i \in DOMAIN taken : taken[i][v] = x}) > Len(taken)
                              => target[v] = Number(x)
  BY DEF MajorityFound
<1> DEFINE a == Col(taken, v)
<1>1. /\ v \in Target /\ Targets[v] \in Votes /\ taken \in Seq(Data)
      /\ Good(Targets[v], a, target[v], best[v])
  BY InvWritten DEF Votes
<1>2. target[v] # Nothing /\ Elected(a, target[v])
  BY <1>1 DEF Good
<1>3. Len(a) = Len(taken) /\ DOMAIN a = DOMAIN taken /\ \A i \in DOMAIN taken : a[i] = taken[i][v]
  BY <1>1, ColFacts
<1>4. ASSUME NEW x PROVE Voters(a, DOMAIN a, x) = {i \in DOMAIN taken : taken[i][v] = x}
  <2> HIDE DEF a
  <2> QED BY <1>3 DEF Voters
<1> HIDE DEF a
<1> QED BY <1>2, <1>3, <1>4 DEF Elected

LEMMA InvBest ==
    ASSUME Inv, FilesFirst
    PROVE  BestFound
<1> DEFINE Wins(v) ==
               /\ target[v] # Nothing /\ best[v] + 1 \in DOMAIN taken
               /\ target[v] = Number(taken[best[v] + 1][v])
               /\ \A i \in DOMAIN taken :
                     ~ Beats(Targets[v], taken[i][v], taken[best[v] + 1][v])
<1>1. ASSUME NEW v \in Settled({"A_MAX", "A_MIN", "A_MAX_MEM", "A_MIN_MEM"})
      PROVE  Wins(v)
  <2> DEFINE a == Col(taken, v)
  <2>1. /\ v \in Target /\ Targets[v] \in Searches /\ taken \in Seq(Data)
        /\ Good(Targets[v], a, target[v], best[v])
    BY InvWritten DEF Searches
  <2>2. target[v] # Nothing /\ Winner(Targets[v], a, target[v], best[v])
    BY <2>1 DEF Good
  <2>3. DOMAIN a = DOMAIN taken /\ \A i \in DOMAIN taken : a[i] = taken[i][v]
    BY <2>1, ColFacts
  <2> HIDE DEF a
  <2> QED BY <2>2, <2>3 DEF Winner
<1> QED BY <1>1 DEF BestFound, Beats

\* The variables of the model keep to their types: a slot that is ready names a
\* result there is, the counts in the static variables and the results never
\* exceed the samples of the region.  `Separate`, that no two targets use the same
\* A_..._MEM strategy, is what the static variables of the code need: the count of
\* two targets of one strategy would go beyond the samples.
THEOREM EveryCountBounded ==
    ASSUME Separate
    PROVE  Spec => []TypeOK
BY InvAlways, InvTypeOK, PTL

\* A variable with A_AVG (dpuAvg) or A_AVG_MEM (dpuAvgInc, batch by batch) becomes
\* the mean of the results accepted in this region, however they came in batches,
\* in which slots, and whatever was turned down.  `FilesFirst`: the variables that
\* are read from files come before those in shared memory, as the file of a result
\* leaves the latter out and its reader does not.
THEOREM EveryAverageExact ==
    ASSUME Separate, FilesFirst
    PROVE  Spec => []AverageExact
BY InvAlways, InvAverage, PTL

\* A number that more than half of the accepted results have is what a variable
\* with A_MJ_VOTE or A_MJ_VOTE_MEM becomes (dpuMjVote), also when the count has
\* gone to 0 and up again across batches.
THEOREM EveryMajorityFound ==
    ASSUME Separate, FilesFirst
    PROVE  Spec => []MajorityFound
BY InvAlways, InvMajority, PTL

\* A variable with A_MAX, A_MIN or their _MEM forms becomes the data of an accepted
\* result that no other one beats, and the result whose parameters are shown is
\* that one, not one of another batch or the one whose slot it was.
THEOREM EveryBestFound ==
    ASSUME Separate, FilesFirst
    PROVE  Spec => []BestFound
BY InvAlways, InvBest, PTL
=============================================================================

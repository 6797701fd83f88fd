-------------------------- MODULE EvaluationProofs --------------------------
(***************************************************************************)
(* Theorems of Evaluation, for every dictionary the parser accepts: types, *)
(* definitive results, explanations.  Each is shown of one operator after  *)
(* the other, from what ResultsProofs knows of it, and of all expressions  *)
(* by induction on how deep they are nested.                               *)
(***************************************************************************)
EXTENDS Evaluation, ResultsProofs

AllExpressions == Outer \cup Inner

Nest(s) == Depth[s[1]]

HasItems(g) == g.items \in Orders \cup {Unset}

(* The elements of the collection are items, each of them once.            *)
LEMMA ElementsAre ==
    ASSUME NEW g, HasItems(g)
    PROVE  /\ Len(Elements(g)) \in 0 .. Cardinality(Item)
           /\ Elements(g) \in [1 .. Len(Elements(g)) -> Item]
           /\ \A j, k \in 1 .. Len(Elements(g)) : Elements(g)[j] = Elements(g)[k] => j = k
<1>1. Cardinality(Item) \in Nat
  BY Scoping, FS_CardinalityType
<1>2. CASE g.items = Unset
  <2>1. Elements(g) = <<>>
    BY <1>2 DEF Elements
  <2> QED
    BY <1>1, <2>1
<1>3. CASE g.items # Unset
  <2>1. Elements(g) \in Orders
    BY <1>3 DEF Elements, HasItems
  <2>2. PICK n \in 0 .. Cardinality(Item) : Elements(g) \in [1 .. n -> Item]
    BY <2>1 DEF Orders, SeqOf
  <2>3. \A j, k \in DOMAIN Elements(g) : Elements(g)[j] = Elements(g)[k] => j = k
    BY <2>1 DEF Orders, IsInjective
  <2>4. n \in Nat /\ Len(Elements(g)) = n
    BY <1>1, <2>2
  <2> QED
    BY <2>2, <2>3, <2>4
<1> QED
  BY <1>2, <1>3

LEMMA SiteIs ==
    ASSUME NEW s \in Site
    PROVE  /\ s = <<s[1], s[2]>> /\ s[1] \in AllExpressions
           /\ (s[1] \in Outer /\ s[2] = Unset) \/ (s[1] \in Inner /\ s[2] \in Item)
           /\ Nest(s) \in Nat /\ Nest(s) <= MaxDepth /\ MaxDepth \in Nat
           /\ WellTyped(s[1])
<1>1. /\ s = <<s[1], s[2]>>
      /\ (s[1] \in Outer /\ s[2] = Unset) \/ (s[1] \in Inner /\ s[2] \in Item)
  BY DEF Site
<1>2. s[1] \in AllExpressions
  BY <1>1 DEF AllExpressions
<1>3. Depth[s[1]] \in 0 .. MaxDepth /\ MaxDepth \in Nat
  BY <1>2, Nesting DEF AllExpressions
<1> QED
  BY <1>1, <1>2, <1>3, Typing DEF Nest, AllExpressions

LEMMA ArgumentsAre ==
    ASSUME NEW e \in AllExpressions
    PROVE  /\ Len(Arguments(e)) \in Nat
           /\ Arguments(e) \in [1 .. Len(Arguments(e)) -> AllExpressions]
           /\ \A k \in 1 .. Len(Arguments(e)) : Depth[Arguments(e)[k]] < Depth[e]
<1>1. Arguments(e) \in Seq(AllExpressions)
  BY Scoping DEF AllExpressions
<1> QED
  BY <1>1, Nesting DEF AllExpressions

LEMMA OneArgument ==
    ASSUME NEW e, WellTyped(e), e.op \in OnItems
    PROVE  Len(Arguments(e)) = 1
<1>1. CASE e.op = "sum"
  BY <1>1 DEF WellTyped
<1>2. CASE e.op = "count"
  BY <1>2 DEF WellTyped
<1>3. CASE e.op = "maximum"
  BY <1>3 DEF WellTyped
<1>4. CASE e.op = "filter"
  BY <1>4 DEF WellTyped
<1>5. CASE e.op = "find"
  BY <1>5 DEF WellTyped
<1> QED
  BY <1>1, <1>2, <1>3, <1>4, <1>5 DEF OnItems

(* The evaluations that an evaluation asks for.                            *)
LEMMA AskedIs ==
    ASSUME NEW g, NEW e, NEW i
    PROVE  /\ e.op \in OnItems =>
                Asked(e, i, g) = [k \in DOMAIN Elements(g) |-> <<Arguments(e)[1], Elements(g)[k]>>]
           /\ e.op \notin OnItems =>
                Asked(e, i, g) = [k \in DOMAIN Arguments(e) |-> <<Arguments(e)[k], i>>]
  BY DEF Asked

LEMMA AskedAre ==
    ASSUME NEW g, HasItems(g), NEW s \in Site
    PROVE  LET n == IF s[1].op \in OnItems THEN Len(Elements(g)) ELSE Len(Arguments(s[1]))
               q == Asked(s[1], s[2], g)
           IN  /\ n \in Nat /\ DOMAIN q = 1 .. n
               /\ \A k \in 1 .. n : q[k] \in Site /\ Nest(q[k]) < Nest(s)
<1> DEFINE e == s[1]
           i == s[2]
           n == IF e.op \in OnItems THEN Len(Elements(g)) ELSE Len(Arguments(e))
           q == Asked(e, i, g)
<1>1. e \in AllExpressions /\ ((e \in Outer /\ i = Unset) \/ (e \in Inner /\ i \in Item)) /\ WellTyped(e)
  BY SiteIs
<1>2. Nest(s) = Depth[e]
  BY DEF Nest
<1> HIDE DEF e, i
<1>3. CASE e.op \in OnItems
  <2>1. /\ n = Len(Elements(g)) /\ n \in Nat
        /\ Elements(g) \in [1 .. n -> Item]
    BY <1>3, ElementsAre
  <2>2. Len(Arguments(e)) = 1
    BY <1>1, <1>3, OneArgument
  <2>3. Arguments(e)[1] \in AllExpressions /\ Depth[Arguments(e)[1]] < Depth[e]
    BY <1>1, <2>2, ArgumentsAre
  <2>4. Arguments(e)[1] \in Inner
    <3>1. CASE e \in Outer
      BY <1>3, <3>1, Scoping
    <3>2. CASE e \in Inner
      <4>1. Arguments(e) \in Seq(Inner)
        BY <3>2, Scoping
      <4> QED
        BY <2>2, <4>1
    <3> QED
      BY <1>1, <3>1, <3>2
  <2>5. q = [k \in DOMAIN Elements(g) |-> <<Arguments(e)[1], Elements(g)[k]>>]
    BY <1>3, AskedIs
  <2> HIDE DEF n, q
  <2>6. DOMAIN q = 1 .. n /\ \A k \in 1 .. n : q[k] = <<Arguments(e)[1], Elements(g)[k]>>
    BY <2>1, <2>5
  <2>7. ASSUME NEW k \in 1 .. n PROVE q[k] \in Site /\ Nest(q[k]) < Nest(s)
    <3>1. Elements(g)[k] \in Item
      BY <2>1
    <3>2. q[k] \in Site
      BY <2>4, <2>6, <3>1 DEF Site
    <3>3. Nest(q[k]) = Depth[Arguments(e)[1]]
      BY <2>6 DEF Nest
    <3> QED
      BY <1>2, <2>3, <3>2, <3>3
  <2> QED
    BY <2>1, <2>6, <2>7 DEF n, q, e, i
<1>4. CASE e.op \notin OnItems
  <2>1. n = Len(Arguments(e))
    BY <1>4
  <2>2. q = [k \in DOMAIN Arguments(e) |-> <<Arguments(e)[k], i>>]
    BY <1>4, AskedIs
  <2> HIDE DEF n, q
  <2>3. /\ n \in Nat /\ DOMAIN Arguments(e) = 1 .. n
        /\ \A k \in 1 .. n : Depth[Arguments(e)[k]] < Depth[e]
    BY <1>1, <2>1, ArgumentsAre
  <2>4. DOMAIN q = 1 .. n /\ \A k \in 1 .. n : q[k] = <<Arguments(e)[k], i>>
    BY <2>2, <2>3
  <2>5. ASSUME NEW k \in 1 .. n PROVE q[k] \in Site /\ Nest(q[k]) < Nest(s)
    <3>1. CASE e \in Outer /\ i = Unset
      <4>1. Arguments(e) \in Seq(Outer)
        BY <1>4, <3>1, Scoping
      <4>2. Arguments(e)[k] \in Outer
        BY <2>3, <4>1
      <4> QED
        BY <1>2, <2>3, <2>4, <3>1, <4>2 DEF Site, Nest
    <3>2. CASE e \in Inner /\ i \in Item
      <4>1. Arguments(e) \in Seq(Inner)
        BY <3>2, Scoping
      <4>2. Arguments(e)[k] \in Inner
        BY <2>3, <4>1
      <4> QED
        BY <1>2, <2>3, <2>4, <3>2, <4>2 DEF Site, Nest
    <3> QED
      BY <1>1, <3>1, <3>2
  <2> QED
    BY <2>3, <2>4, <2>5 DEF n, q, e, i
<1> QED
  BY <1>3, <1>4

LEMMA ThroughIs ==
    ASSUME NEW f, NEW sites, \E n \in Nat : DOMAIN sites = 1 .. n
    PROVE  Through(f, sites) = [k \in DOMAIN sites |-> f[sites[k]]]
<1>1. PICK n \in Nat : DOMAIN sites = 1 .. n
  OBVIOUS
<1> DEFINE S == {f[sites[k]] : k \in 1 .. n}
           t == [k \in 1 .. n |-> f[sites[k]]]
<1>2. t \in Seq(S) /\ Len(t) = n
  OBVIOUS
<1>3. Through(f, sites) = <<>> \o t
  BY <1>1 DEF Through
<1> HIDE DEF t
<1>4. Through(f, sites) = t
  BY <1>2, <1>3
<1> QED
  BY <1>1, <1>4 DEF t

LEMMA ThroughSame ==
    ASSUME NEW f, NEW h, NEW n \in Nat, NEW sites, DOMAIN sites = 1 .. n,
           \A k \in 1 .. n : f[sites[k]] = h[sites[k]]
    PROVE  Through(f, sites) = Through(h, sites)
  BY ThroughIs

-----------------------------------------------------------------------------
(* Evaluation is well-founded: what recursion defines exists.              *)

Evaluated(f, s, g) == Apply(s[1], s[2], g, Through(f, Asked(s[1], s[2], g)))

(* Functions that agree on all that is less deep evaluate alike.           *)
LEMMA AskedSame ==
    ASSUME NEW g, HasItems(g), NEW s \in Site, NEW f, NEW h,
           \A q \in Site : Nest(q) < Nest(s) => f[q] = h[q]
    PROVE  Through(f, Asked(s[1], s[2], g)) = Through(h, Asked(s[1], s[2], g))
<1>1. PICK n \in Nat : /\ DOMAIN Asked(s[1], s[2], g) = 1 .. n
                       /\ \A k \in 1 .. n : /\ Asked(s[1], s[2], g)[k] \in Site
                                            /\ Nest(Asked(s[1], s[2], g)[k]) < Nest(s)
  BY AskedAre
<1>2. \A k \in 1 .. n : f[Asked(s[1], s[2], g)[k]] = h[Asked(s[1], s[2], g)[k]]
  BY <1>1
<1> QED
  BY ONLY <1>1, <1>2, ThroughSame

LEMMA GetExists ==
    ASSUME NEW g, HasItems(g)
    PROVE  \E f : f = [s \in Site |-> Evaluated(f, s, g)]
<1> DEFINE Upto(m, f) == /\ f = [s \in Site |-> f[s]]
                         /\ \A s \in Site : Nest(s) < m => f[s] = Evaluated(f, s, g)
           S == {m \in Nat : \E f : Upto(m, f)}
<1>1. 0 \in S
  <2> DEFINE f == [s \in Site |-> s]
  <2>1. \A s \in Site : ~(Nest(s) < 0)
    BY SiteIs
  <2>2. f = [s \in Site |-> f[s]]
    OBVIOUS
  <2>3. Upto(0, f)
    BY <2>1, <2>2
  <2> QED
    BY <2>3
<1>2. ASSUME NEW m \in Nat, m \in S PROVE m + 1 \in S
  <2>1. PICK f : Upto(m, f)
    BY <1>2
  <2> DEFINE h == [s \in Site |-> IF Nest(s) < m THEN f[s] ELSE Evaluated(f, s, g)]
  <2>2. \A s \in Site : Nest(s) < m => h[s] = f[s]
    OBVIOUS
  <2>3. \A s \in Site : h[s] = Evaluated(f, s, g)
    BY <2>1
  <2>4. h = [s \in Site |-> h[s]]
    OBVIOUS
  <2> HIDE DEF h
  <2>5. ASSUME NEW s \in Site, Nest(s) < m + 1 PROVE h[s] = Evaluated(h, s, g)
    <3>1. \A q \in Site : Nest(q) < Nest(s) => f[q] = h[q]
      <4>1. \A q \in Site : Nest(q) \in Nat
        BY SiteIs
      <4> QED
        BY <2>2, <2>5, <4>1
    <3>2. Through(f, Asked(s[1], s[2], g)) = Through(h, Asked(s[1], s[2], g))
      BY <3>1, AskedSame
    <3> QED
      BY <2>3, <3>2 DEF Evaluated
  <2>6. Upto(m + 1, h)
    BY <2>4, <2>5
  <2> QED
    BY <2>6
<1>3. MaxDepth + 1 \in S
  <2>1. MaxDepth + 1 \in Nat
    BY Nesting
  <2> HIDE DEF S
  <2> QED
    BY <1>1, <1>2, <2>1, NumberAfterNumber
<1>4. PICK f : Upto(MaxDepth + 1, f)
  BY <1>3
<1>5. \A s \in Site : f[s] = Evaluated(f, s, g)
  BY <1>4, SiteIs
<1>6. f = [s \in Site |-> Evaluated(f, s, g)]
  BY <1>4, <1>5
<1> QED
  BY <1>6

LEMMA GetIs ==
    ASSUME NEW g, HasItems(g), NEW s \in Site
    PROVE  Get(g)[s] = Evaluated(Get(g), s, g)
<1>1. Get(g) = CHOOSE f : f = [q \in Site |-> Evaluated(f, q, g)]
  BY DEF Get, Evaluated
<1>2. Get(g) = [q \in Site |-> Evaluated(Get(g), q, g)]
  BY <1>1, GetExists
<1> QED
  BY <1>2

-----------------------------------------------------------------------------
(* Types.                                                                  *)

(* The partial sums of numbers.                                            *)
Adds(vs, n, f) == f = [k \in 0 .. n |-> IF k = 0 THEN 0 ELSE f[k - 1] + vs[k]]

LEMMA PartialSumsExist ==
    ASSUME NEW n \in Nat, NEW vs \in [1 .. n -> Int]
    PROVE  \E f : Adds(vs, n, f)
<1> DEFINE Partial(f, k) == IF k = 0 THEN 0 ELSE f[k - 1] + vs[k]
           Upto(m, f) == /\ f = [k \in 0 .. n |-> f[k]]
                         /\ \A k \in 0 .. n : k <= m => f[k] = Partial(f, k)
           S == {m \in Nat : \E f : Upto(m, f)}
<1>1. 0 \in S
  <2> DEFINE f == [k \in 0 .. n |-> 0]
  <2>1. Upto(0, f)
    OBVIOUS
  <2> QED
    BY <2>1
<1>2. ASSUME NEW m \in Nat, m \in S PROVE m + 1 \in S
  <2>1. PICK f : Upto(m, f)
    BY <1>2
  <2> DEFINE h == [k \in 0 .. n |-> IF k <= m THEN f[k] ELSE Partial(f, k)]
  <2>2. \A k \in 0 .. n : k <= m => h[k] = f[k]
    OBVIOUS
  <2>3. \A k \in 0 .. n : k <= m + 1 => h[k] = Partial(f, k)
    BY <2>1
  <2>4. h = [k \in 0 .. n |-> h[k]]
    OBVIOUS
  <2> HIDE DEF h
  <2>5. ASSUME NEW k \in 0 .. n, k <= m + 1 PROVE h[k] = Partial(h, k)
    <3>1. k # 0 => k - 1 \in 0 .. n /\ k - 1 <= m
      BY <2>5
    <3> QED
      BY <2>2, <2>3, <2>5, <3>1
  <2>6. Upto(m + 1, h)
    BY <2>4, <2>5
  <2> HIDE DEF Upto
  <2>7. \E u : Upto(m + 1, u)
    BY <2>6
  <2> QED
    BY <2>7
<1>3. n \in S
  <2> HIDE DEF S
  <2> QED
    BY <1>1, <1>2, NumberAfterNumber
<1>4. PICK f : Upto(n, f)
  BY <1>3
<1>5. ASSUME NEW k \in 0 .. n PROVE f[k] = Partial(f, k)
  <2>1. k <= n
    OBVIOUS
  <2> QED
    BY <1>4, <2>1
<1>6. f = [k \in 0 .. n |-> Partial(f, k)]
  BY <1>4, <1>5
<1> QED
  BY <1>6 DEF Adds

LEMMA SumIs ==
    ASSUME NEW n \in Nat, NEW vs \in [1 .. n -> Int]
    PROVE  \E f : Sum(vs) = f[n] /\ f[0] = 0 /\ \A k \in 1 .. n : f[k] = f[k - 1] + vs[k]
<1> DEFINE f == CHOOSE f : Adds(vs, n, f)
<1>1. Adds(vs, n, f)
  BY PartialSumsExist
<1>2. Sum(vs) = f[n]
  <2>1. Len(vs) = n
    OBVIOUS
  <2> QED
    BY <2>1 DEF Sum, Adds
<1> HIDE DEF f
<1>3. \A k \in 0 .. n : f[k] = IF k = 0 THEN 0 ELSE f[k - 1] + vs[k]
  BY <1>1 DEF Adds
<1>4. f[0] = 0 /\ \A k \in 1 .. n : f[k] = f[k - 1] + vs[k]
  BY <1>3
<1> QED
  BY <1>2, <1>4

LEMMA Multiples ==
    ASSUME NEW n \in Nat, NEW m \in Nat, n <= m, NEW v \in Int
    PROVE  /\ n * v \in Int /\ m * v \in Int
           /\ v >= 0 => n * v <= m * v
           /\ v <= 0 => m * v <= n * v
           /\ (n + 1) * v = n * v + v
<1>1. PICK d \in Nat : m = n + d
  <2>1. m - n \in Nat /\ m = n + (m - n)
    OBVIOUS
  <2> QED
    BY <2>1
<1>2. m * v = n * v + d * v
  BY <1>1
<1>3. (v >= 0 => d * v >= 0) /\ (v <= 0 => d * v <= 0)
  OBVIOUS
<1> QED
  BY <1>2, <1>3

(* Numbers lie between two of them, or zero.                               *)
LEMMA Bounds ==
    ASSUME NEW T \in SUBSET Int, NEW n \in Nat, NEW vs \in [1 .. n -> T]
    PROVE  \E v, w \in T \cup {0} :
                v <= 0 /\ 0 <= w /\ \A k \in 1 .. n : v <= vs[k] /\ vs[k] <= w
<1>1. CASE n = 0
  BY <1>1
<1>2. CASE n > 0
  <2>1. vs \in [1 .. n -> Int] /\ \A k \in 1 .. n : vs[k] \in T /\ vs[k] \in Int
    OBVIOUS
  <2>2. PICK j \in 1 .. n : \A k \in 1 .. n : vs[k] <= vs[j]
    BY <1>2, <2>1, LargestExists
  <2> DEFINE us == [k \in 1 .. n |-> 0 - vs[k]]
  <2>3. us \in [1 .. n -> Int] /\ \A k \in 1 .. n : us[k] = 0 - vs[k]
    BY <2>1
  <2> HIDE DEF us
  <2>4. PICK i \in 1 .. n : \A k \in 1 .. n : us[k] <= us[i]
    BY <1>2, <2>3, LargestExists
  <2>5. \A k \in 1 .. n : vs[i] <= vs[k]
    BY <2>1, <2>3, <2>4
  <2> DEFINE v == IF vs[i] < 0 THEN vs[i] ELSE 0
             w == IF vs[j] > 0 THEN vs[j] ELSE 0
  <2>6. v \in T \cup {0} /\ w \in T \cup {0} /\ v <= 0 /\ 0 <= w
    BY <2>1
  <2>7. \A k \in 1 .. n : v <= vs[k] /\ vs[k] <= w
    BY <2>1, <2>2, <2>5
  <2> HIDE DEF v, w
  <2> QED
    BY <2>6, <2>7
<1> QED
  BY <1>1, <1>2

LEMMA SumTyped ==
    ASSUME NEW T \in SUBSET Int, NEW m \in Nat, NEW n \in 0 .. m, NEW vs \in [1 .. n -> T],
           NEW W, \A v, w \in T \cup {0} : m * v .. m * w \subseteq W
    PROVE  Sum(vs) \in W
<1>1. vs \in [1 .. n -> Int] /\ n \in Nat /\ \A k \in 1 .. n : vs[k] \in Int
  <2>1. n \in Nat
    OBVIOUS
  <2>2. \A k \in 1 .. n : vs[k] \in Int
    OBVIOUS
  <2> QED
    BY <2>1, <2>2
<1>2. PICK f : Sum(vs) = f[n] /\ f[0] = 0 /\ \A k \in 1 .. n : f[k] = f[k - 1] + vs[k]
  BY <1>1, SumIs
<1>3. PICK v \in T \cup {0}, w \in T \cup {0} :
        v <= 0 /\ 0 <= w /\ \A k \in 1 .. n : v <= vs[k] /\ vs[k] <= w
  BY <1>1, Bounds
<1>4. v \in Int /\ w \in Int
  BY <1>3
<1> DEFINE S == {k \in Nat : k <= n => f[k] \in Int /\ k * v <= f[k] /\ f[k] <= k * w}
<1>5. 0 \in S
  BY <1>2, <1>4
<1>6. ASSUME NEW k \in Nat, k \in S PROVE k + 1 \in S
  <2> SUFFICES ASSUME k + 1 <= n
               PROVE  /\ f[k + 1] \in Int
                      /\ (k + 1) * v <= f[k + 1] /\ f[k + 1] <= (k + 1) * w
    OBVIOUS
  <2>1. f[k] \in Int /\ k * v <= f[k] /\ f[k] <= k * w
    BY <1>1, <1>6
  <2>2. k + 1 \in 1 .. n
    BY <1>1
  <2>3. f[k + 1] = f[k] + vs[k + 1] /\ vs[k + 1] \in Int /\ v <= vs[k + 1] /\ vs[k + 1] <= w
    BY <1>1, <1>2, <1>3, <2>2
  <2>4. /\ (k + 1) * v = k * v + v /\ k * v \in Int
        /\ (k + 1) * w = k * w + w /\ k * w \in Int
    BY <1>4, Multiples
  <2> QED
    BY <1>4, <2>1, <2>3, <2>4
<1>7. n \in S
  <2> HIDE DEF S
  <2> QED
    BY <1>1, <1>5, <1>6, NumberAfterNumber
<1>8. f[n] \in Int /\ n * v <= f[n] /\ f[n] <= n * w
  BY <1>1, <1>7
<1>9. /\ m * v <= n * v /\ n * w <= m * w
      /\ m * v \in Int /\ n * v \in Int /\ m * w \in Int /\ n * w \in Int
  BY <1>1, <1>3, <1>4, Multiples
<1>10. f[n] \in m * v .. m * w
  BY <1>8, <1>9
<1> QED
  BY <1>2, <1>3, <1>10

LEMMA CountTyped ==
    ASSUME NEW m \in Nat, NEW n \in 0 .. m, NEW vs, DOMAIN vs = 1 .. n,
           NEW W, 0 .. m \subseteq W
    PROVE  Count(vs) \in W
<1> DEFINE S == {k \in 1 .. n : vs[k]}
<1>1. Count(vs) = Cardinality(S)
  BY DEF Count
<1>2. IsFiniteSet(1 .. n) /\ Cardinality(1 .. n) = n
  BY FS_Interval
<1>3. S \subseteq 1 .. n
  OBVIOUS
<1> HIDE DEF S
<1>4. IsFiniteSet(S) /\ Cardinality(S) <= n /\ Cardinality(S) \in Nat
  <2>1. IsFiniteSet(S) /\ Cardinality(S) <= Cardinality(1 .. n)
    BY <1>2, <1>3, FS_Subset
  <2> QED
    BY <1>2, <2>1, FS_CardinalityType
<1>5. Cardinality(S) \in 0 .. m
  BY <1>4
<1> QED
  BY <1>1, <1>5

Anything == UNION {Type[e] : e \in AllExpressions}

(* The results an evaluation of e works on have values of the types of its *)
(* arguments.                                                              *)
Typed(e, g, rs) ==
    IF e.op \in OnItems
    THEN rs \in [1 .. Len(Elements(g)) -> ResultOver(Type[Arguments(e)[1]])]
    ELSE /\ rs \in [1 .. Len(Arguments(e)) -> ResultOver(Anything)]
         /\ \A k \in 1 .. Len(Arguments(e)) : rs[k] \in ResultOver(Type[Arguments(e)[k]])

LEMMA ValuesAre ==
    ASSUME NEW V, NEW n \in Nat, NEW rs \in [1 .. n -> ResultOver(V)]
    PROVE  LET S == {k \in 1 .. n : HasValue(rs[k])}
           IN  /\ Values(rs) \in [S -> V]
               /\ \A k \in S : Values(rs)[k] = rs[k].value
               /\ Missing(rs) = {} => S = 1 .. n
<1> DEFINE S == {k \in 1 .. n : HasValue(rs[k])}
<1>1. Values(rs) = [k \in S |-> rs[k].value]
  BY DEF Values
<1>2. \A k \in S : rs[k].value \in V
  BY States
<1>3. Missing(rs) = {} => S = 1 .. n
  BY DEF Missing
<1> HIDE DEF S
<1>4. Values(rs) \in [S -> V] /\ \A k \in S : Values(rs)[k] = rs[k].value
  BY <1>1, <1>2
<1> QED
  BY <1>3, <1>4 DEF S

LEMMA HalvesAre ==
    ASSUME NEW rs, Len(rs) \in Nat
    PROVE  LET h == Len(rs) \div 2
           IN  /\ h \in Nat
               /\ \A k \in 1 .. h : k \in 1 .. Len(rs) /\ h + k \in 1 .. Len(rs)
               /\ Whens(rs) = [k \in 1 .. h |-> rs[k]] /\ Thens(rs) = [k \in 1 .. h |-> rs[h + k]]
  BY DEF Whens, Thens

LEMMA HalvesOf ==
    ASSUME NEW h \in Nat, NEW rs, Len(rs) = 2 * h
    PROVE  Whens(rs) = [k \in 1 .. h |-> rs[k]] /\ Thens(rs) = [k \in 1 .. h |-> rs[h + k]]
<1>1. Len(rs) \div 2 = h
  OBVIOUS
<1> QED
  BY <1>1 DEF Whens, Thens

(* What an operator computes from values of the types it is written for.   *)
Computes(e, S) ==
    \A vs \in [S -> UNION {Type[Arguments(e)[k]] : k \in 1 .. Len(Arguments(e))}] :
        (\A k \in S : vs[k] \in Type[Arguments(e)[k]]) => Operation(e.name, vs) \in Type[e]

LEMMA ComputedTyped ==
    ASSUME NEW e \in AllExpressions, NEW g, NEW rs, e.op \notin OnItems, Typed(e, g, rs),
           Computes(e, {k \in 1 .. Len(Arguments(e)) : HasValue(rs[k])})
    PROVE  Operation(e.name, Values(rs)) \in Type[e]
<1> DEFINE n == Len(Arguments(e))
           S == {k \in 1 .. n : HasValue(rs[k])}
           U == UNION {Type[Arguments(e)[k]] : k \in 1 .. n}
<1>1. /\ n \in Nat /\ rs \in [1 .. n -> ResultOver(Anything)]
      /\ \A k \in 1 .. n : rs[k] \in ResultOver(Type[Arguments(e)[k]])
  BY ArgumentsAre DEF Typed
<1> HIDE DEF n
<1>2. Values(rs) \in [S -> Anything] /\ \A k \in S : Values(rs)[k] = rs[k].value
  BY ONLY <1>1, ValuesAre
<1>3. \A k \in S : rs[k].value \in Type[Arguments(e)[k]]
  BY <1>1, States
<1>4. \A k \in S : Values(rs)[k] \in Type[Arguments(e)[k]] /\ Values(rs)[k] \in U
  BY <1>2, <1>3
<1>5. Computes(e, S)
  BY DEF n
<1> HIDE DEF S, U
<1>6. Values(rs) \in [S -> U]
  BY <1>2, <1>4
<1> QED
  BY <1>4, <1>5, <1>6 DEF Computes, U, n

LEMMA SavedTyped ==
    ASSUME NEW V, NEW v, v \in V \cup {Unset}
    PROVE  Saved(v) \in ResultOver(V)
  BY ResultsAre DEF Saved

LEMMA NameOfTyped ==
    ASSUME NEW W, NEW v \in W, NEW rs
    PROVE  NameOf(v, rs) \in ResultOver(W)
<1>1. (IsFinal(rs[1]) /\ IsFinal(rs[3])) \in BOOLEAN
  BY DEF IsFinal
<1> QED
  BY <1>1, ResultsAre DEF NameOf

LEMMA FindTyped ==
    ASSUME NEW T, NEW n \in Nat, NEW items \in [1 .. n -> T], NEW rs, DOMAIN rs = 1 .. n
    PROVE  FindIn(items, rs) \in ResultOver(T)
<1>1. Taken(rs) # {} => First(Taken(rs)) \in 1 .. n
  BY FirstTaken DEF Taken
<1>2. \/ FindIn(items, rs) \in {Incomplete, Raised}
      \/ Taken(rs) # {} /\ FindIn(items, rs) = Complete(items[First(Taken(rs))])
  BY DEF FindIn, Taken
<1> QED
  BY <1>1, <1>2, ResultsAre

LEMMA IndexTyped ==
    ASSUME NEW T, NEW n \in Nat, NEW items \in [1 .. n -> T],
           NEW V \in SUBSET Int, NEW r \in ResultOver(V)
    PROVE  /\ IndexIn(Complete(items), r) \in ResultOver(T)
           /\ IndexIn(Incomplete, r) \in ResultOver(T)
<1>1. HasValue(Complete(items)) /\ Complete(items).value = items /\ ~HasValue(Incomplete)
  BY DEF HasValue, Complete, Incomplete
<1>2. IndexIn(Incomplete, r) = Incomplete
  BY <1>1 DEF IndexIn
<1>3. CASE ~HasValue(r)
  <2>1. IndexIn(Complete(items), r) = r
    BY <1>1, <1>3 DEF IndexIn
  <2> QED
    BY <1>2, <1>3, <2>1, States, ResultsAre
<1>4. CASE HasValue(r)
  <2>1. IndexIn(Complete(items), r) = IF r.value + 1 \in 1 .. n
                                      THEN Complete(items[r.value + 1]) ELSE Incomplete
    BY <1>1, <1>4 DEF IndexIn
  <2>2. r.value + 1 \in 1 .. n => items[r.value + 1] \in T
    OBVIOUS
  <2> QED
    BY <1>2, <2>1, <2>2, ResultsAre
<1> QED
  BY <1>3, <1>4

(* Operators that compute something of their arguments' values.            *)
LEMMA ComputingTyped ==
    ASSUME NEW e \in AllExpressions, WellTyped(e), NEW i, NEW g, NEW rs, Typed(e, g, rs),
           e.op \in {"constant", "strict", "name", "today"}
    PROVE  Apply(e, i, g, rs) \in ResultOver(Type[e])
<1> DEFINE n == Len(Arguments(e))
           S == {k \in 1 .. n : HasValue(rs[k])}
           v == Operation(e.name, Values(rs))
<1>1. e.op \notin OnItems
  BY DEF OnItems
<1>2. n \in Nat /\ rs \in [1 .. n -> ResultOver(Anything)]
  BY <1>1, ArgumentsAre DEF Typed
<1>3. Missing(rs) = {} => S = 1 .. n
  BY <1>2 DEF Missing
<1>4. Computes(e, S) => v \in Type[e]
  BY <1>1, ComputedTyped
<1>5. CASE e.op = "constant"
  <2>1. n = 0 /\ Computes(e, {})
    BY <1>5 DEF WellTyped, Computes
  <2>2. S = {}
    BY <2>1
  <2>3. Apply(e, i, g, rs) = Complete(v)
    BY <1>5 DEF Apply
  <2> HIDE DEF S, v
  <2> QED
    BY <1>4, <2>1, <2>2, <2>3, ResultsAre
<1>6. CASE e.op = "strict"
  <2>1. Computes(e, 1 .. n)
    BY <1>6 DEF WellTyped, Computes
  <2>2. Apply(e, i, g, rs) = Strictly(v, rs, TRUE)
    BY <1>6 DEF Apply
  <2> HIDE DEF S, v, n
  <2>3. Missing(rs) = {} => v \in Type[e]
    BY <1>3, <1>4, <2>1
  <2> QED
    BY <1>2, <2>2, <2>3, StrictlyTyped
<1>7. CASE e.op = "name"
  <2>1. \A P \in SUBSET (1 .. n) : Computes(e, P)
    BY <1>7 DEF WellTyped, Computes
  <2>2. S \in SUBSET (1 .. n)
    OBVIOUS
  <2>3. Apply(e, i, g, rs) = NameOf(v, rs)
    BY <1>7 DEF Apply
  <2> HIDE DEF S, v, n
  <2> QED
    BY <1>4, <2>1, <2>2, <2>3, NameOfTyped
<1>8. CASE e.op = "today"
  <2>1. n = 1 /\ Computes(e, {1})
    BY <1>8 DEF WellTyped, Computes
  <2>2. Apply(e, i, g, rs) = TodayAt(v, rs[1])
    BY <1>8 DEF Apply
  <2>3. HasValue(rs[1]) => S = {1}
    BY <2>1
  <2> HIDE DEF S, v, n
  <2>4. HasValue(rs[1]) => v \in Type[e]
    BY <1>4, <2>1, <2>3
  <2> QED
    BY <2>2, <2>4, ResultsAre DEF TodayAt
<1> QED
  BY <1>5, <1>6, <1>7, <1>8

(* Operators that choose among their arguments.                            *)
LEMMA ChoosingTyped ==
    ASSUME NEW e \in AllExpressions, WellTyped(e), NEW i, NEW g, NEW rs, Typed(e, g, rs),
           e.op \in {"fact", "any", "all", "switch", "options", "override", "placeholder", "isComplete"}
    PROVE  Apply(e, i, g, rs) \in ResultOver(Type[e])
<1> DEFINE n == Len(Arguments(e))
           T(k) == Type[Arguments(e)[k]]
           h == n \div 2
<1>1. /\ n \in Nat /\ rs \in [1 .. n -> ResultOver(Anything)]
      /\ \A k \in 1 .. n : rs[k] \in ResultOver(T(k))
  BY ArgumentsAre DEF Typed, OnItems
<1>2. CASE e.op = "fact"
  <2>1. T(1) \subseteq Type[e] /\ n = 1
    BY <1>2 DEF WellTyped, Arguments
  <2>2. Apply(e, i, g, rs) = rs[1]
    BY <1>2 DEF Apply
  <2> QED
    BY <1>1, <2>1, <2>2, WiderResults
<1>3. CASE e.op \in {"any", "all"}
  <2>1. (\A k \in 1 .. n : T(k) \subseteq BOOLEAN) /\ BOOLEAN \subseteq Type[e]
    BY <1>3 DEF WellTyped
  <2>2. rs \in [1 .. n -> ResultOver(BOOLEAN)]
    BY <1>1, <2>1, WiderResults
  <2>3. Apply(e, i, g, rs) \in {AnyOf(rs), AllOf(rs)}
    BY <1>3 DEF Apply
  <2> HIDE DEF n
  <2>4. Apply(e, i, g, rs) \in ResultOver(BOOLEAN)
    BY <1>1, <2>2, <2>3, AnyOfTyped, AllOfTyped
  <2> QED
    BY <2>1, <2>4, WiderResults
<1>4. CASE e.op \in {"switch", "options"}
  <2>1. n = 2 * h /\ \A k \in 1 .. h : T(k) \subseteq BOOLEAN
    BY <1>4 DEF WellTyped
  <2>2. /\ h \in Nat
        /\ \A k \in 1 .. h : k \in 1 .. n /\ h + k \in 1 .. n
        /\ Whens(rs) \in [1 .. h -> ResultOver(Anything)]
        /\ Thens(rs) \in [1 .. h -> ResultOver(Anything)]
        /\ \A k \in 1 .. h : Whens(rs)[k] = rs[k] /\ Thens(rs)[k] = rs[h + k]
    <3>1. n \in Nat /\ rs \in [1 .. n -> ResultOver(Anything)]
      BY <1>1
    <3>2. h = n \div 2
      OBVIOUS
    <3> HIDE DEF n, h
    <3>3. Len(rs) = n /\ Len(rs) \in Nat
      BY ONLY <3>1
    <3>4. /\ h \in Nat
          /\ \A k \in 1 .. h : k \in 1 .. n /\ h + k \in 1 .. n
          /\ Whens(rs) = [k \in 1 .. h |-> rs[k]] /\ Thens(rs) = [k \in 1 .. h |-> rs[h + k]]
      BY ONLY <3>2, <3>3, HalvesAre
    <3> QED
      BY ONLY <3>1, <3>4
  <2> DEFINE V == UNION {T(h + k) : k \in 1 .. h}
  <2>3. CASE e.op = "switch"
    <3>1. \A k \in 1 .. h : T(h + k) \subseteq Type[e]
      BY <2>3 DEF WellTyped
    <3>2. Apply(e, i, g, rs) = Switch(Whens(rs), Thens(rs))
      BY <2>3 DEF Apply
    <3> HIDE DEF n, h, T
    <3>3. Whens(rs) \in [1 .. h -> ResultOver(BOOLEAN)]
      <4>1. \A k \in 1 .. h : Whens(rs)[k] \in ResultOver(T(k)) /\ T(k) \subseteq BOOLEAN
        BY ONLY <1>1, <2>1, <2>2
      <4>2. \A k \in 1 .. h : Whens(rs)[k] \in ResultOver(BOOLEAN)
        BY ONLY <4>1, WiderResults
      <4> QED
        BY ONLY <2>2, <4>2
    <3>4. Thens(rs) \in [1 .. h -> ResultOver(Type[e])]
      <4>1. \A k \in 1 .. h : Thens(rs)[k] \in ResultOver(T(h + k))
        BY ONLY <1>1, <2>2
      <4>2. \A k \in 1 .. h : Thens(rs)[k] \in ResultOver(Type[e])
        BY ONLY <3>1, <4>1, WiderResults
      <4> QED
        BY ONLY <2>2, <4>2
    <3> QED
      BY <2>2, <3>2, <3>3, <3>4, SwitchTyped
  <2>4. CASE e.op = "options"
    <3>1. SeqOf(V, h) \subseteq Type[e]
      BY <2>4 DEF WellTyped
    <3>2. Apply(e, i, g, rs) = ConditionSet(Whens(rs), Thens(rs))
      BY <2>4 DEF Apply
    <3>3. \A k \in 1 .. h : T(h + k) \subseteq V
      OBVIOUS
    <3> HIDE DEF n, h, T, V
    <3>4. Whens(rs) \in [1 .. h -> ResultOver(BOOLEAN)]
      <4>1. \A k \in 1 .. h : Whens(rs)[k] \in ResultOver(T(k)) /\ T(k) \subseteq BOOLEAN
        BY ONLY <1>1, <2>1, <2>2
      <4>2. \A k \in 1 .. h : Whens(rs)[k] \in ResultOver(BOOLEAN)
        BY ONLY <4>1, WiderResults
      <4> QED
        BY ONLY <2>2, <4>2
    <3>5. Thens(rs) \in [1 .. h -> ResultOver(V)]
      <4>1. ASSUME NEW k \in 1 .. h PROVE Thens(rs)[k] \in ResultOver(V)
        <5>1. Thens(rs)[k] \in ResultOver(T(h + k))
          BY <1>1, <2>2
        <5>2. T(h + k) \subseteq V
          BY <3>3
        <5> QED
          BY <5>1, <5>2, WiderResults
      <4> QED
        BY <2>2, <4>1
    <3>6. \A m \in 0 .. h : [1 .. m -> V] \subseteq Type[e]
      BY <3>1 DEF SeqOf
    <3>7. Raised \in ResultOver(V)
      BY ResultsAre
    <3> QED
      BY ONLY <2>2, <3>2, <3>4, <3>5, <3>6, <3>7, ConditionSetTyped
  <2> QED
    BY <1>4, <2>3, <2>4
<1>5. CASE e.op = "override"
  <2>1. n = 3 /\ T(2) \subseteq BOOLEAN /\ T(1) \subseteq Type[e] /\ T(3) \subseteq Type[e]
    BY <1>5 DEF WellTyped
  <2>2. Apply(e, i, g, rs) = Override(rs[1], rs[2], rs[3])
    BY <1>5 DEF Apply
  <2>3. /\ rs[1] \in ResultOver(Type[e]) /\ rs[2] \in ResultOver(BOOLEAN)
        /\ rs[3] \in ResultOver(Type[e])
    BY <1>1, <2>1, WiderResults
  <2> QED
    BY <2>2, <2>3, OverrideTyped
<1>6. CASE e.op = "placeholder"
  <2>1. n = 2 /\ T(1) \subseteq Type[e] /\ T(2) \subseteq Type[e]
    BY <1>6 DEF WellTyped
  <2>2. Apply(e, i, g, rs) = OrDefault(rs[1], rs[2])
    BY <1>6 DEF Apply
  <2>3. rs[1] \in ResultOver(Type[e]) /\ rs[2] \in ResultOver(Type[e])
    BY <1>1, <2>1, WiderResults
  <2> QED
    BY <2>2, <2>3, OrDefaultTyped
<1>7. CASE e.op = "isComplete"
  <2>1. BOOLEAN \subseteq Type[e]
    BY <1>7 DEF WellTyped
  <2>2. Apply(e, i, g, rs) = IsComplete(rs[1])
    BY <1>7 DEF Apply
  <2>3. IsFinal(rs[1]) \in BOOLEAN
    BY DEF IsFinal
  <2>4. IsFinal(rs[1]) \in Type[e]
    BY <2>1, <2>3
  <2> QED
    BY <2>2, <2>4, ResultsAre DEF IsComplete
<1> QED
  BY <1>2, <1>3, <1>4, <1>5, <1>6, <1>7

(* Operators on the collection.                                            *)
LEMMA CollectingTyped ==
    ASSUME NEW e \in AllExpressions, WellTyped(e), NEW i, NEW g, HasItems(g),
           NEW rs, Typed(e, g, rs), e.op \in OnItems
    PROVE  Apply(e, i, g, rs) \in ResultOver(Type[e])
<1> DEFINE items == Elements(g)
           n     == Len(items)
           m     == Cardinality(Item)
           T     == Type[Arguments(e)[1]]
           given == g.items # Unset
<1>1. /\ n \in 0 .. m /\ items \in [1 .. n -> Item]
      /\ \A j, k \in 1 .. n : items[j] = items[k] => j = k
  BY ElementsAre
<1>2. rs \in [1 .. n -> ResultOver(T)]
  BY DEF Typed
<1>3. m \in Nat /\ n \in Nat
  BY <1>1, Scoping, FS_CardinalityType
<1>4. given \in BOOLEAN
  OBVIOUS
<1>5. CASE e.op = "sum"
  <2>1. T \subseteq Int /\ \A v, w \in T \cup {0} : m * v .. m * w \subseteq Type[e]
    BY <1>5 DEF WellTyped
  <2>2. Apply(e, i, g, rs) = Strictly(Sum(Values(rs)), rs, given)
    BY <1>5 DEF Apply
  <2> HIDE DEF items, n, m, T, given
  <2>3. ASSUME Missing(rs) = {} PROVE Sum(Values(rs)) \in Type[e]
    <3>1. Values(rs) \in [1 .. n -> T]
      <4>1. Values(rs) \in [{k \in 1 .. n : HasValue(rs[k])} -> T]
        BY ONLY <1>2, <1>3, ValuesAre
      <4>2. {k \in 1 .. n : HasValue(rs[k])} = 1 .. n
        BY ONLY <1>2, <1>3, <2>3, ValuesAre
      <4> QED
        BY <4>1, <4>2
    <3> QED
      BY ONLY <1>1, <1>3, <2>1, <3>1, SumTyped
  <2> QED
    BY <1>2, <1>3, <1>4, <2>2, <2>3, StrictlyTyped
<1>6. CASE e.op = "count"
  <2>1. 0 .. m \subseteq Type[e]
    BY <1>6 DEF WellTyped
  <2>2. Apply(e, i, g, rs) = Strictly(Count(Values(rs)), rs, given)
    BY <1>6 DEF Apply
  <2> HIDE DEF items, n, m, T, given
  <2>3. ASSUME Missing(rs) = {} PROVE Count(Values(rs)) \in Type[e]
    <3>1. {k \in 1 .. n : HasValue(rs[k])} = 1 .. n
      BY ONLY <1>2, <1>3, <2>3, ValuesAre
    <3>2. DOMAIN Values(rs) = 1 .. n
      <4>1. Values(rs) \in [{k \in 1 .. n : HasValue(rs[k])} -> T]
        BY ONLY <1>2, <1>3, ValuesAre
      <4> QED
        BY <3>1, <4>1
    <3> QED
      BY <1>1, <1>3, <2>1, <3>2, CountTyped
  <2> QED
    BY <1>2, <1>3, <1>4, <2>2, <2>3, StrictlyTyped
<1>7. CASE e.op = "maximum"
  <2>1. T \subseteq Int /\ T \subseteq Type[e]
    BY <1>7 DEF WellTyped
  <2>2. Apply(e, i, g, rs) = MaximumOf(rs)
    BY <1>7 DEF Apply
  <2> HIDE DEF items, n, m, T, given
  <2> QED
    BY <1>2, <1>3, <2>1, <2>2, MaximumTyped, WiderResults
<1>8. CASE e.op = "filter"
  <2>1. T \subseteq BOOLEAN /\ Orders \subseteq Type[e]
    BY <1>8 DEF WellTyped
  <2>2. Apply(e, i, g, rs) = FilterIn(items, rs, given)
    BY <1>8 DEF Apply
  <2> HIDE DEF items, n, m, T, given
  <2>3. rs \in [1 .. n -> ResultOver(BOOLEAN)]
    BY <1>2, <2>1, WiderResults
  <2> DEFINE kept == Kept(items, rs)
  <2>4. /\ kept \in Seq(Item) /\ Len(kept) <= n
        /\ Distinct(kept)
    <3>1. Distinct(items)
      BY <1>1 DEF Distinct
    <3>2. items \in [1 .. n -> Item]
      BY <1>1
    <3>3. n \in Nat
      BY <1>3
    <3>4. Kept(items, rs) \in Seq(Item) /\ Len(Kept(items, rs)) <= n
      BY ONLY <2>3, <3>2, <3>3, KeptIs
    <3>5. Distinct(Kept(items, rs))
      BY ONLY <2>3, <3>1, <3>2, <3>3, KeptOnce
    <3> QED
      BY <3>4, <3>5
  <2> HIDE DEF kept
  <2>5. Len(kept) \in 0 .. m /\ kept \in [1 .. Len(kept) -> Item]
    BY <1>1, <1>3, <2>4
  <2>6. kept \in Orders
    BY <2>4, <2>5 DEF Orders, SeqOf, IsInjective, Distinct, m
  <2> QED
    BY <1>3, <1>4, <2>1, <2>2, <2>3, <2>6, FilterTyped DEF kept
<1>9. CASE e.op = "find"
  <2>1. Item \subseteq Type[e]
    BY <1>9 DEF WellTyped
  <2>2. Apply(e, i, g, rs) = FindIn(items, rs)
    BY <1>9 DEF Apply
  <2> HIDE DEF items, n, m, T, given
  <2>3. DOMAIN rs = 1 .. n
    BY <1>2
  <2>4. Apply(e, i, g, rs) \in ResultOver(Item)
    BY <1>1, <1>3, <2>2, <2>3, FindTyped
  <2> QED
    BY <2>1, <2>4, WiderResults
<1> QED
  BY <1>5, <1>6, <1>7, <1>8, <1>9 DEF OnItems

(* Persisted facts, and an index into the collection.                      *)
LEMMA ReadingTyped ==
    ASSUME NEW s \in Site, NEW g, Persisted(g), NEW rs, Typed(s[1], g, rs),
           s[1].op \in {"writable", "member", "indexOf"}
    PROVE  Apply(s[1], s[2], g, rs) \in ResultOver(Type[s[1]])
<1> DEFINE e == s[1]
           i == s[2]
<1>1. WellTyped(e) /\ (e \in Outer \/ i \in Item)
  BY SiteIs
<1>2. HasItems(g)
  BY DEF Persisted, HasItems
<1>3. CASE e.op = "writable"
  <2>1. e.path \in Root /\ Value[e.path] \subseteq Type[e]
    BY <1>1, <1>3 DEF WellTyped
  <2>2. Apply(e, i, g, rs) = Saved(g.saved[e.path])
    BY <1>3 DEF Apply
  <2> HIDE DEF e, i
  <2>3. g.saved[e.path] \in Value[e.path] \cup {Unset}
    BY <2>1 DEF Persisted
  <2> QED
    BY <2>1, <2>2, <2>3, SavedTyped, WiderResults DEF e, i
<1>4. CASE e.op = "member"
  <2>1. e.path \in Member /\ Value[e.path] \subseteq Type[e]
    BY <1>1, <1>4 DEF WellTyped
  <2>2. i \in Item
    BY <1>1, <1>4, Scoping
  <2>3. Apply(e, i, g, rs) = Saved(g.members[<<i, e.path>>])
    BY <1>4 DEF Apply
  <2> HIDE DEF e, i
  <2>4. <<i, e.path>> \in Item \X Member /\ <<i, e.path>>[2] = e.path
    BY <2>1, <2>2
  <2>5. g.members[<<i, e.path>>] \in Value[e.path] \cup {Unset}
    BY <2>4 DEF Persisted
  <2> QED
    BY <2>1, <2>3, <2>5, SavedTyped, WiderResults DEF e, i
<1>5. CASE e.op = "indexOf"
  <2> DEFINE T == Type[Arguments(e)[1]]
  <2>1. Len(Arguments(e)) = 1 /\ T \subseteq Int /\ Item \subseteq Type[e]
    BY <1>1, <1>5 DEF WellTyped
  <2>2. rs[1] \in ResultOver(T)
    BY <1>5, <2>1 DEF Typed, OnItems
  <2>3. Apply(e, i, g, rs) = IndexIn(Saved(g.items), rs[1])
    BY <1>5 DEF Apply
  <2> HIDE DEF e, i, T
  <2> DEFINE n == Len(Elements(g))
  <2>4. n \in Nat /\ Elements(g) \in [1 .. n -> Item]
    BY <1>2, ElementsAre
  <2>5. Saved(g.items) \in {Incomplete, Complete(Elements(g))}
    BY DEF Saved, Elements
  <2> HIDE DEF n
  <2>6. Apply(e, i, g, rs) \in ResultOver(Item)
    <3>1. /\ IndexIn(Complete(Elements(g)), rs[1]) \in ResultOver(Item)
          /\ IndexIn(Incomplete, rs[1]) \in ResultOver(Item)
      BY <2>1, <2>2, <2>4, IndexTyped
    <3> QED
      BY <2>3, <2>5, <3>1
  <2> QED
    BY <2>1, <2>6, WiderResults DEF e, i
<1> QED
  BY <1>3, <1>4, <1>5

LEMMA ApplyTyped ==
    ASSUME NEW s \in Site, NEW g, Persisted(g), NEW rs, Typed(s[1], g, rs)
    PROVE  Apply(s[1], s[2], g, rs) \in ResultOver(Type[s[1]])
<1>1. s[1] \in AllExpressions /\ WellTyped(s[1])
  BY SiteIs
<1>2. HasItems(g)
  BY DEF Persisted, HasItems
<1>3. s[1].op \in {"constant", "strict", "name", "today"}
                    \cup {"fact", "any", "all", "switch", "options", "override", "placeholder", "isComplete"}
                    \cup OnItems \cup {"writable", "member", "indexOf"}
  BY <1>1 DEF WellTyped, OnItems
<1> QED
  BY <1>1, <1>2, <1>3, ComputingTyped, ChoosingTyped, CollectingTyped, ReadingTyped

(* What is asked for, one by one.                                          *)
LEMMA AskedOfItems ==
    ASSUME NEW g, HasItems(g), NEW s \in Site, NEW f, s[1].op \in OnItems
    PROVE  /\ Through(f, Asked(s[1], s[2], g)) =
                [k \in 1 .. Len(Elements(g)) |-> f[<<Arguments(s[1])[1], Elements(g)[k]>>]]
           /\ \A k \in 1 .. Len(Elements(g)) :
                /\ <<Arguments(s[1])[1], Elements(g)[k]>> \in Site
                /\ Nest(<<Arguments(s[1])[1], Elements(g)[k]>>) < Nest(s)
<1> DEFINE q == Asked(s[1], s[2], g)
           n == Len(Elements(g))
<1>1. /\ n \in Nat /\ DOMAIN q = 1 .. n
      /\ \A k \in 1 .. n : q[k] \in Site /\ Nest(q[k]) < Nest(s)
  <2>1. HasItems(g) /\ s \in Site /\ s[1].op \in OnItems
    OBVIOUS
  <2> QED
    BY ONLY <2>1, AskedAre
<1>2. q = [k \in DOMAIN Elements(g) |-> <<Arguments(s[1])[1], Elements(g)[k]>>]
  BY AskedIs
<1> HIDE DEF q, n
<1>3. Through(f, q) = [k \in 1 .. n |-> f[q[k]]]
  <2>1. n \in Nat /\ DOMAIN q = 1 .. n
    BY <1>1
  <2>2. Through(f, q) = [k \in DOMAIN q |-> f[q[k]]]
    BY ONLY <2>1, ThroughIs
  <2> QED
    BY ONLY <2>1, <2>2
<1>4. \A k \in 1 .. n : q[k] = <<Arguments(s[1])[1], Elements(g)[k]>>
  BY <1>1, <1>2
<1>5. Through(f, q) = [k \in 1 .. n |-> f[<<Arguments(s[1])[1], Elements(g)[k]>>]]
  BY <1>3, <1>4
<1> QED
  BY <1>1, <1>4, <1>5 DEF q, n

LEMMA AskedOfArguments ==
    ASSUME NEW g, HasItems(g), NEW s \in Site, NEW f, s[1].op \notin OnItems
    PROVE  /\ Through(f, Asked(s[1], s[2], g)) =
                [k \in 1 .. Len(Arguments(s[1])) |-> f[<<Arguments(s[1])[k], s[2]>>]]
           /\ \A k \in 1 .. Len(Arguments(s[1])) :
                /\ <<Arguments(s[1])[k], s[2]>> \in Site
                /\ Nest(<<Arguments(s[1])[k], s[2]>>) < Nest(s)
<1> DEFINE q == Asked(s[1], s[2], g)
           n == Len(Arguments(s[1]))
<1>1. /\ n \in Nat /\ DOMAIN q = 1 .. n
      /\ \A k \in 1 .. n : q[k] \in Site /\ Nest(q[k]) < Nest(s)
  <2>1. HasItems(g) /\ s \in Site /\ s[1].op \notin OnItems
    OBVIOUS
  <2> QED
    BY ONLY <2>1, AskedAre
<1>2. q = [k \in DOMAIN Arguments(s[1]) |-> <<Arguments(s[1])[k], s[2]>>]
  BY AskedIs
<1> HIDE DEF q, n
<1>3. Through(f, q) = [k \in 1 .. n |-> f[q[k]]]
  <2>1. n \in Nat /\ DOMAIN q = 1 .. n
    BY <1>1
  <2>2. Through(f, q) = [k \in DOMAIN q |-> f[q[k]]]
    BY ONLY <2>1, ThroughIs
  <2> QED
    BY ONLY <2>1, <2>2
<1>4. \A k \in 1 .. n : q[k] = <<Arguments(s[1])[k], s[2]>>
  BY <1>1, <1>2
<1>5. Through(f, q) = [k \in 1 .. n |-> f[<<Arguments(s[1])[k], s[2]>>]]
  BY <1>3, <1>4
<1> QED
  BY <1>1, <1>4, <1>5 DEF q, n

LEMMA TypedThrough ==
    ASSUME NEW g, HasItems(g), NEW s \in Site, NEW f,
           \A q \in Site : Nest(q) < Nest(s) => f[q] \in ResultOver(Type[q[1]])
    PROVE  Typed(s[1], g, Through(f, Asked(s[1], s[2], g)))
<1> DEFINE rs == Through(f, Asked(s[1], s[2], g))
<1>1. CASE s[1].op \in OnItems
  <2>1. /\ rs = [k \in 1 .. Len(Elements(g)) |-> f[<<Arguments(s[1])[1], Elements(g)[k]>>]]
        /\ \A k \in 1 .. Len(Elements(g)) :
            /\ <<Arguments(s[1])[1], Elements(g)[k]>> \in Site
            /\ Nest(<<Arguments(s[1])[1], Elements(g)[k]>>) < Nest(s)
    BY <1>1, AskedOfItems
  <2>2. ASSUME NEW k \in 1 .. Len(Elements(g))
        PROVE  f[<<Arguments(s[1])[1], Elements(g)[k]>>] \in ResultOver(Type[Arguments(s[1])[1]])
    <3> DEFINE q == <<Arguments(s[1])[1], Elements(g)[k]>>
    <3>1. q \in Site /\ Nest(q) < Nest(s) /\ q[1] = Arguments(s[1])[1]
      BY <2>1
    <3> HIDE DEF q
    <3>2. f[q] \in ResultOver(Type[Arguments(s[1])[1]])
      BY <3>1
    <3> QED
      BY <3>2 DEF q
  <2> HIDE DEF rs
  <2>3. rs \in [1 .. Len(Elements(g)) -> ResultOver(Type[Arguments(s[1])[1]])]
    BY <2>1, <2>2
  <2> QED
    BY <1>1, <2>3 DEF Typed, rs
<1>2. CASE s[1].op \notin OnItems
  <2>1. /\ rs = [k \in 1 .. Len(Arguments(s[1])) |-> f[<<Arguments(s[1])[k], s[2]>>]]
        /\ \A k \in 1 .. Len(Arguments(s[1])) :
            /\ <<Arguments(s[1])[k], s[2]>> \in Site
            /\ Nest(<<Arguments(s[1])[k], s[2]>>) < Nest(s)
    BY <1>2, AskedOfArguments
  <2>2. ASSUME NEW k \in 1 .. Len(Arguments(s[1]))
        PROVE  /\ f[<<Arguments(s[1])[k], s[2]>>] \in ResultOver(Type[Arguments(s[1])[k]])
               /\ f[<<Arguments(s[1])[k], s[2]>>] \in ResultOver(Anything)
    <3> DEFINE q == <<Arguments(s[1])[k], s[2]>>
    <3>1. q \in Site /\ Nest(q) < Nest(s) /\ q[1] = Arguments(s[1])[k]
      BY <2>1
    <3>2. q[1] \in AllExpressions
      BY <3>1, SiteIs
    <3> HIDE DEF q
    <3>3. f[q] \in ResultOver(Type[Arguments(s[1])[k]])
      BY <3>1
    <3>4. Type[Arguments(s[1])[k]] \subseteq Anything
      BY <3>1, <3>2 DEF Anything
    <3> QED
      BY <3>3, <3>4, WiderResults DEF q
  <2> HIDE DEF rs
  <2>3. rs \in [1 .. Len(Arguments(s[1])) -> ResultOver(Anything)]
    BY <2>1, <2>2
  <2>4. \A k \in 1 .. Len(Arguments(s[1])) : rs[k] \in ResultOver(Type[Arguments(s[1])[k]])
    BY <2>1, <2>2
  <2> QED
    BY <1>2, <2>3, <2>4 DEF Typed, rs
<1> QED
  BY <1>1, <1>2

LEMMA ResultsTyped ==
    ASSUME NEW g, Persisted(g)
    PROVE  \A s \in Site : Get(g)[s] \in ResultOver(Type[s[1]])
<1> DEFINE S == {m \in Nat : \A s \in Site : Nest(s) = m => Get(g)[s] \in ResultOver(Type[s[1]])}
<1>1. HasItems(g)
  BY DEF Persisted, HasItems
<1>2. ASSUME NEW n \in Nat, \A m \in 0 .. n - 1 : m \in S PROVE n \in S
  <2>1. ASSUME NEW s \in Site, Nest(s) = n PROVE Get(g)[s] \in ResultOver(Type[s[1]])
    <3>1. ASSUME NEW q \in Site, Nest(q) < Nest(s) PROVE Get(g)[q] \in ResultOver(Type[q[1]])
      <4>1. Nest(q) \in 0 .. n - 1
        BY <2>1, <3>1, SiteIs
      <4> QED
        BY <1>2, <4>1
    <3>2. Typed(s[1], g, Through(Get(g), Asked(s[1], s[2], g)))
      BY <1>1, <3>1, TypedThrough
    <3>3. Apply(s[1], s[2], g, Through(Get(g), Asked(s[1], s[2], g))) \in ResultOver(Type[s[1]])
      BY <3>2, ApplyTyped
    <3> QED
      BY <1>1, <3>3, GetIs DEF Evaluated
  <2> QED
    BY <2>1
<1>3. Nat \subseteq S
  <2> HIDE DEF S
  <2> QED
    BY <1>2, EveryNumber
<1> QED
  BY <1>3, SiteIs

LEMMA GetTyped ==
    ASSUME NEW g, Persisted(g), NEW s \in Site
    PROVE  Typed(s[1], g, Through(Get(g), Asked(s[1], s[2], g)))
<1>1. HasItems(g)
  BY DEF Persisted, HasItems
<1> QED
  BY <1>1, ResultsTyped, TypedThrough

-----------------------------------------------------------------------------
(* Every state is a map of persisted facts.                                *)

LEMMA RemoveAtIs ==
    ASSUME NEW n \in Nat, NEW s \in [1 .. n -> Item], NEW k \in 1 .. n
    PROVE  /\ RemoveAt(s, k) \in [1 .. n - 1 -> Item]
           /\ \A j \in 1 .. n - 1 : j < k => RemoveAt(s, k)[j] = s[j]
           /\ \A j \in 1 .. n - 1 : ~(j < k) => RemoveAt(s, k)[j] = s[j + 1]
<1> DEFINE a == SubSeq(s, 1, k - 1)
           b == SubSeq(s, k + 1, n)
<1>1. s \in Seq(Item) /\ Len(s) = n
  OBVIOUS
<1>2. a = [j \in 1 .. k - 1 |-> s[j]] /\ a \in Seq(Item) /\ Len(a) = k - 1
  BY <1>1
<1>3. b = [j \in 1 .. n - k |-> s[k + j]] /\ b \in Seq(Item) /\ Len(b) = n - k
  BY <1>1
<1>4. RemoveAt(s, k) = a \o b
  BY <1>1 DEF RemoveAt
<1> HIDE DEF a, b
<1>5. a \o b \in [1 .. n - 1 -> Item]
  <2>1. a \o b \in Seq(Item) /\ Len(a \o b) = Len(a) + Len(b)
    BY <1>2, <1>3
  <2>2. Len(a) + Len(b) = n - 1
    BY <1>2, <1>3
  <2> DEFINE u == a \o b
  <2> HIDE DEF u
  <2>3. u \in Seq(Item) /\ Len(u) = n - 1
    BY <2>1, <2>2 DEF u
  <2>4. u \in [1 .. n - 1 -> Item]
    BY <2>3
  <2> QED
    BY <2>4 DEF u
<1>6. ASSUME NEW j \in 1 .. n - 1 PROVE (a \o b)[j] = IF j < k THEN s[j] ELSE s[j + 1]
  <2>1. CASE j < k
    BY <1>2, <1>3, <2>1
  <2>2. CASE ~(j < k)
    <3>1. j - (k - 1) \in 1 .. n - k
      BY <2>2
    <3>2. (a \o b)[j] = b[j - (k - 1)]
      BY <1>2, <1>3, <2>2
    <3>3. b[j - (k - 1)] = s[k + (j - (k - 1))]
      BY <1>3, <3>1
    <3>4. k + (j - (k - 1)) = j + 1
      OBVIOUS
    <3> QED
      BY <2>2, <3>2, <3>3, <3>4
  <2> QED
    BY <2>1, <2>2
<1> QED
  BY <1>4, <1>5, <1>6

LEMMA RemoveAtOrder ==
    ASSUME NEW s \in Orders, NEW k \in DOMAIN s
    PROVE  RemoveAt(s, k) \in Orders
<1>1. Cardinality(Item) \in Nat
  BY Scoping, FS_CardinalityType
<1>2. PICK n \in 0 .. Cardinality(Item) : s \in [1 .. n -> Item]
  BY DEF Orders, SeqOf
<1>3. \A i, j \in 1 .. n : s[i] = s[j] => i = j
  BY <1>2 DEF Orders, IsInjective
<1> DEFINE t == RemoveAt(s, k)
<1>4. k \in 1 .. n /\ n \in Nat /\ n - 1 \in 0 .. Cardinality(Item)
  BY <1>1, <1>2
<1>5. /\ t \in [1 .. n - 1 -> Item]
      /\ \A j \in 1 .. n - 1 : t[j] = IF j < k THEN s[j] ELSE s[j + 1]
  <2>1. n \in Nat /\ k \in 1 .. n /\ s \in [1 .. n -> Item]
    BY <1>2, <1>4
  <2>2. /\ RemoveAt(s, k) \in [1 .. n - 1 -> Item]
        /\ \A j \in 1 .. n - 1 : j < k => RemoveAt(s, k)[j] = s[j]
        /\ \A j \in 1 .. n - 1 : ~(j < k) => RemoveAt(s, k)[j] = s[j + 1]
    BY <2>1, RemoveAtIs
  <2> HIDE DEF t
  <2> QED
    BY <2>2 DEF t
<1> HIDE DEF t
<1>6. ASSUME NEW i \in 1 .. n - 1, NEW j \in 1 .. n - 1, t[i] = t[j] PROVE i = j
  <2> DEFINE P(a) == IF a < k THEN a ELSE a + 1
  <2>1. P(i) \in 1 .. n /\ P(j) \in 1 .. n /\ (P(i) = P(j) => i = j)
    BY <1>4
  <2>2. t[i] = s[P(i)] /\ t[j] = s[P(j)]
    BY <1>5
  <2> HIDE DEF P
  <2> QED
    BY <1>3, <1>6, <2>1, <2>2
<1>7. t \in SeqOf(Item, Cardinality(Item))
  BY <1>4, <1>5 DEF SeqOf
<1>8. IsInjective(t)
  BY <1>5, <1>6 DEF IsInjective
<1> QED
  BY <1>7, <1>8 DEF Orders, t

LEMMA InitPersisted == Init => Persisted(facts)
<1> SUFFICES ASSUME Init PROVE Persisted(facts)
  OBVIOUS
<1>1. /\ facts.saved = [p \in Root |-> Unset] /\ facts.items = Unset
      /\ facts.members = [m \in Item \X Member |-> Unset]
      /\ facts = [saved |-> facts.saved, items |-> facts.items, members |-> facts.members]
  BY DEF Init
<1> QED
  BY <1>1 DEF Persisted

(* A map is what its three parts are.                                      *)
LEMMA PersistedIs ==
    ASSUME NEW g, NEW a, NEW b, NEW c, g = [saved |-> a, items |-> b, members |-> c],
           a = [p \in Root |-> a[p]], c = [m \in Item \X Member |-> c[m]],
           b \in Orders \cup {Unset},
           \A p \in Root : a[p] \in Value[p] \cup {Unset},
           \A m \in Item \X Member : c[m] \in Value[m[2]] \cup {Unset}
    PROVE  Persisted(g)
<1>1. g.saved = a /\ g.items = b /\ g.members = c
  OBVIOUS
<1>2. g = [saved   |-> [p \in Root |-> g.saved[p]],
           items   |-> g.items,
           members |-> [m \in Item \X Member |-> g.members[m]]]
  BY <1>1, Zenon
<1> QED
  BY <1>1, <1>2 DEF Persisted

LEMMA NextPersisted ==
    ASSUME Persisted(facts), Next
    PROVE  Persisted(facts')
<1> DEFINE a == facts.saved
           b == facts.items
           c == facts.members
<1>1. /\ facts = [saved |-> a, items |-> b, members |-> c]
      /\ a = [p \in Root |-> a[p]] /\ c = [m \in Item \X Member |-> c[m]]
      /\ b \in Orders \cup {Unset}
      /\ \A p \in Root : a[p] \in Value[p] \cup {Unset}
      /\ \A m \in Item \X Member : c[m] \in Value[m[2]] \cup {Unset}
  <2>1. facts = [saved   |-> [p \in Root |-> a[p]], items |-> b,
                 members |-> [m \in Item \X Member |-> c[m]]]
    BY DEF Persisted
  <2>2. a = [p \in Root |-> a[p]] /\ c = [m \in Item \X Member |-> c[m]]
    BY <2>1
  <2>3. facts = [saved |-> a, items |-> b, members |-> c]
    BY <2>1, <2>2
  <2> QED
    BY <2>2, <2>3 DEF Persisted
<1> HIDE DEF a, b, c
<1>2. ASSUME NEW p \in Root, NEW v \in Value[p] \cup {Unset}, facts' = [facts EXCEPT !.saved[p] = v]
      PROVE  Persisted(facts')
  <2> DEFINE a2 == [a EXCEPT ![p] = v]
  <2>1. facts' = [saved |-> a2, items |-> b, members |-> c]
    BY <1>1, <1>2
  <2>2. a2 = [q \in Root |-> a2[q]]
    BY <1>1
  <2>3. \A q \in Root : a2[q] \in Value[q] \cup {Unset}
    BY <1>1
  <2> HIDE DEF a2
  <2> QED
    BY <1>1, <2>1, <2>2, <2>3, PersistedIs
<1>3. ASSUME NEW i \in Item, NEW x \in Member, NEW v \in Value[x] \cup {Unset},
             facts' = [facts EXCEPT !.members[<<i, x>>] = v]
      PROVE  Persisted(facts')
  <2> DEFINE c2 == [c EXCEPT ![<<i, x>>] = v]
  <2>1. facts' = [saved |-> a, items |-> b, members |-> c2]
    BY <1>1, <1>3
  <2>2. c2 = [m \in Item \X Member |-> c2[m]]
    BY <1>1
  <2>3. \A m \in Item \X Member : c2[m] \in Value[m[2]] \cup {Unset}
    BY <1>1
  <2> HIDE DEF c2
  <2> QED
    BY <1>1, <2>1, <2>2, <2>3, PersistedIs
<1>4. ASSUME NEW s \in Orders \cup {Unset}, facts' = [facts EXCEPT !.items = s]
      PROVE  Persisted(facts')
  <2>1. facts = [saved |-> a, items |-> b, members |-> c]
    BY <1>1
  <2>2. facts' = [saved |-> a, items |-> s, members |-> c]
    BY ONLY <1>4, <2>1
  <2> QED
    BY ONLY <1>1, <1>4, <2>2, PersistedIs
<1>5. ASSUME NEW i \in Item, DeleteItem(i) PROVE Persisted(facts')
  <2> DEFINE b2 == RemoveAt(b, CHOOSE k \in DOMAIN b : b[k] = i)
             c2 == [m \in DOMAIN c |-> IF m[1] = i THEN Unset ELSE c[m]]
  <2>1. facts' = [saved |-> a, items |-> b2, members |-> c2]
    BY <1>1, <1>5 DEF DeleteItem
  <2>2. b2 \in Orders
    <3>1. i \in ToSet(Elements(facts))
      BY <1>5 DEF DeleteItem, Resolves
    <3>2. b # Unset
      BY <3>1 DEF Elements, ToSet, b
    <3>3. Elements(facts) = b /\ b \in Orders
      BY <1>1, <3>2 DEF Elements, b
    <3>4. \E k \in DOMAIN b : b[k] = i
      BY <3>1, <3>3 DEF ToSet
    <3> DEFINE k == CHOOSE k \in DOMAIN b : b[k] = i
    <3>5. k \in DOMAIN b
      BY <3>4
    <3> HIDE DEF k
    <3>6. RemoveAt(b, k) \in Orders
      BY <3>3, <3>5, RemoveAtOrder
    <3> QED
      BY <3>6 DEF k
  <2>3. c2 = [m \in Item \X Member |-> c2[m]]
    BY <1>1
  <2>4. \A m \in Item \X Member : c2[m] \in Value[m[2]] \cup {Unset}
    BY <1>1
  <2> HIDE DEF b2, c2
  <2> QED
    BY <1>1, <2>1, <2>2, <2>3, <2>4, PersistedIs
<1> QED
  BY <1>2, <1>3, <1>4, <1>5
     DEF Next, SetFact, DeleteFact, SetMember, DeleteMember, SetItems, DeleteItems

LEMMA TypedResult ==
    ASSUME NEW g, Persisted(g), NEW d \in Derived
    PROVE  HasValue(Result(d, g)) => Result(d, g).value \in Type[Expression[d]]
<1> DEFINE s == <<Expression[d], Unset>>
<1>1. s \in Site /\ s[1] = Expression[d]
  BY Scoping DEF Site
<1>2. Get(g)[s] \in ResultOver(Type[Expression[d]])
  BY <1>1, ResultsTyped
<1> HIDE DEF s
<1>3. HasValue(Get(g)[s]) => Get(g)[s].value \in Type[Expression[d]]
  BY <1>2, States
<1> QED
  BY <1>3 DEF Result, s

LEMMA AlwaysPersisted == Spec => []Persisted(facts)
<1>1. Init => Persisted(facts)
  BY InitPersisted
<1>2. Persisted(facts) /\ [Next]_vars => Persisted(facts)'
  <2>1. ASSUME Persisted(facts), Next PROVE Persisted(facts)'
    BY <2>1, NextPersisted
  <2>2. ASSUME Persisted(facts), UNCHANGED vars PROVE Persisted(facts)'
    BY <2>2 DEF vars, Persisted
  <2> QED
    BY <2>1, <2>2
<1> QED
  BY <1>1, <1>2, PTL DEF Spec

(* Whatever is answered, changed or taken back, in whatever order: what    *)
(* the persister holds is of its facts' types, items are listed once, and  *)
(* what a derived fact evaluates to, if to anything, is of its type.       *)
THEOREM TypeCorrect == Spec => []TypeOK
<1>1. Persisted(facts) => TypeOK
  BY TypedResult DEF TypeOK
<1> QED
  BY <1>1, AlwaysPersisted, PTL

-----------------------------------------------------------------------------
(* The arguments of each operator.                                         *)

LEMMA PlainArguments ==
    ASSUME NEW e \in AllExpressions, NEW g, NEW rs, Typed(e, g, rs), e.op \notin OnItems
    PROVE  /\ Len(Arguments(e)) \in Nat
           /\ rs \in [1 .. Len(Arguments(e)) -> ResultOver(Anything)]
           /\ \A k \in 1 .. Len(Arguments(e)) : rs[k] \in ResultOver(Type[Arguments(e)[k]])
  BY ArgumentsAre DEF Typed

LEMMA BooleanArguments ==
    ASSUME NEW e \in AllExpressions, WellTyped(e), NEW g, NEW rs, Typed(e, g, rs),
           e.op \in {"any", "all"}
    PROVE  rs \in [1 .. Len(Arguments(e)) -> ResultOver(BOOLEAN)]
<1>1. e.op \notin OnItems
  BY DEF OnItems
<1>2. \A k \in 1 .. Len(Arguments(e)) : Type[Arguments(e)[k]] \subseteq BOOLEAN
  BY DEF WellTyped
<1> QED
  BY <1>1, <1>2, PlainArguments, WiderResults

LEMMA CaseArguments ==
    ASSUME NEW e \in AllExpressions, WellTyped(e), NEW g, NEW rs, Typed(e, g, rs),
           e.op \in {"switch", "options"}, NEW h, h = Len(Arguments(e)) \div 2
    PROVE  /\ h \in Nat /\ Len(Arguments(e)) = 2 * h
           /\ \A k \in 1 .. h : k \in 1 .. 2 * h /\ h + k \in 1 .. 2 * h
           /\ \A k \in 1 .. 2 * h : k \in 1 .. h \/ (k - h \in 1 .. h /\ k = h + (k - h))
           /\ Whens(rs) \in [1 .. h -> ResultOver(BOOLEAN)]
           /\ Thens(rs) \in [1 .. h -> ResultOver(Anything)]
           /\ \A k \in 1 .. h : Whens(rs)[k] = rs[k] /\ Thens(rs)[k] = rs[h + k]
<1>1. /\ Len(Arguments(e)) = 2 * h
      /\ \A k \in 1 .. h : Type[Arguments(e)[k]] \subseteq BOOLEAN
  BY DEF WellTyped
<1>2. /\ Len(Arguments(e)) \in Nat
      /\ rs \in [1 .. Len(Arguments(e)) -> ResultOver(Anything)]
      /\ \A k \in 1 .. Len(Arguments(e)) : rs[k] \in ResultOver(Type[Arguments(e)[k]])
  <2>1. e.op \notin OnItems
    BY DEF OnItems
  <2> QED
    BY <2>1, PlainArguments
<1>3. /\ h \in Nat
      /\ \A k \in 1 .. h : k \in 1 .. Len(Arguments(e)) /\ h + k \in 1 .. Len(Arguments(e))
      /\ Whens(rs) \in [1 .. h -> ResultOver(Anything)]
      /\ Thens(rs) \in [1 .. h -> ResultOver(Anything)]
      /\ \A k \in 1 .. h : Whens(rs)[k] = rs[k] /\ Thens(rs)[k] = rs[h + k]
  <2>1. h \in Nat
    BY <1>2
  <2>2. rs \in [1 .. 2 * h -> ResultOver(Anything)]
    BY <1>1, <1>2
  <2>3. Len(rs) = 2 * h
    BY <2>1, <2>2
  <2>4. Whens(rs) = [k \in 1 .. h |-> rs[k]] /\ Thens(rs) = [k \in 1 .. h |-> rs[h + k]]
    BY <2>1, <2>3, HalvesOf
  <2>5. \A k \in 1 .. h : k \in 1 .. 2 * h /\ h + k \in 1 .. 2 * h
    BY <2>1
  <2>6. \A k \in 1 .. h : rs[k] \in ResultOver(Anything) /\ rs[h + k] \in ResultOver(Anything)
    BY <2>2, <2>5
  <2> QED
    BY <1>1, <2>1, <2>4, <2>5, <2>6
<1>4. Whens(rs) \in [1 .. h -> ResultOver(BOOLEAN)]
  <2>1. \A k \in 1 .. h : rs[k] \in ResultOver(BOOLEAN)
    BY <1>1, <1>2, <1>3, WiderResults
  <2> QED
    BY <1>3, <2>1
<1>5. \A k \in 1 .. 2 * h : k \in 1 .. h \/ (k - h \in 1 .. h /\ k = h + (k - h))
  BY <1>3
<1> QED
  BY <1>1, <1>3, <1>4, <1>5

LEMMA OverrideArguments ==
    ASSUME NEW e \in AllExpressions, WellTyped(e), NEW g, NEW rs, Typed(e, g, rs),
           e.op = "override"
    PROVE  /\ Len(Arguments(e)) = 3
           /\ rs[1] \in ResultOver(Anything) /\ rs[2] \in ResultOver(BOOLEAN)
           /\ rs[3] \in ResultOver(Anything)
<1>1. Len(Arguments(e)) = 3 /\ Type[Arguments(e)[2]] \subseteq BOOLEAN
  BY DEF WellTyped
<1>2. e.op \notin OnItems
  BY DEF OnItems
<1>3. /\ rs \in [1 .. Len(Arguments(e)) -> ResultOver(Anything)]
      /\ \A k \in 1 .. Len(Arguments(e)) : rs[k] \in ResultOver(Type[Arguments(e)[k]])
  BY <1>2, PlainArguments
<1>4. /\ rs[1] \in ResultOver(Anything) /\ rs[3] \in ResultOver(Anything)
      /\ rs[2] \in ResultOver(Type[Arguments(e)[2]])
  <2>1. 1 \in 1 .. Len(Arguments(e)) /\ 2 \in 1 .. Len(Arguments(e)) /\ 3 \in 1 .. Len(Arguments(e))
    BY <1>1
  <2> QED
    BY <1>3, <2>1
<1> QED
  BY <1>1, <1>4, WiderResults

LEMMA PlaceholderArguments ==
    ASSUME NEW e \in AllExpressions, WellTyped(e), NEW g, NEW rs, Typed(e, g, rs),
           e.op = "placeholder"
    PROVE  /\ Len(Arguments(e)) = 2
           /\ rs[1] \in ResultOver(Anything) /\ rs[2] \in ResultOver(Anything)
<1>1. Len(Arguments(e)) = 2
  BY DEF WellTyped
<1> QED
  BY <1>1, PlainArguments DEF OnItems

LEMMA ItemArguments ==
    ASSUME NEW e \in AllExpressions, WellTyped(e), NEW g, HasItems(g), NEW rs, Typed(e, g, rs),
           e.op \in OnItems
    PROVE  /\ Len(Elements(g)) \in Nat
           /\ rs \in [1 .. Len(Elements(g)) -> ResultOver(Type[Arguments(e)[1]])]
           /\ e.op = "filter" => rs \in [1 .. Len(Elements(g)) -> ResultOver(BOOLEAN)]
<1>1. Len(Elements(g)) \in Nat
  BY ElementsAre
<1>2. rs \in [1 .. Len(Elements(g)) -> ResultOver(Type[Arguments(e)[1]])]
  BY DEF Typed
<1>3. CASE e.op = "filter"
  <2>1. Type[Arguments(e)[1]] \subseteq BOOLEAN
    BY <1>3 DEF WellTyped
  <2>2. ResultOver(Type[Arguments(e)[1]]) \subseteq ResultOver(BOOLEAN)
    BY <2>1, WiderResults
  <2> QED
    BY <1>1, <1>2, <2>2
<1> QED
  BY <1>1, <1>2, <1>3

(* Facts that rest on nothing provisional.                                 *)
ProvisionalOps == {"find", "indexOf", "name", "isComplete", "today"}

Hedges(f, e) == e.op \in ProvisionalOps \/ \E k \in DOMAIN Arguments(e) : f[Arguments(e)[k]]

LEMMA ProvisionalExists == \E f : f = [e \in AllExpressions |-> Hedges(f, e)]
<1> DEFINE Upto(m, f) == /\ f = [e \in AllExpressions |-> f[e]]
                         /\ \A e \in AllExpressions : Depth[e] < m => f[e] = Hedges(f, e)
           S == {m \in Nat : \E f : Upto(m, f)}
<1>1. \A e \in AllExpressions : Depth[e] \in Nat /\ Depth[e] < MaxDepth + 1
  BY Nesting DEF AllExpressions
<1>2. 0 \in S
  <2> DEFINE f == [e \in AllExpressions |-> e]
  <2>1. \A e \in AllExpressions : ~(Depth[e] < 0)
    BY <1>1
  <2>2. f = [e \in AllExpressions |-> f[e]]
    OBVIOUS
  <2>3. Upto(0, f)
    BY <2>1, <2>2
  <2> QED
    BY <2>3
<1>3. ASSUME NEW m \in Nat, m \in S PROVE m + 1 \in S
  <2>1. PICK f : Upto(m, f)
    BY <1>3
  <2> DEFINE h == [e \in AllExpressions |-> IF Depth[e] < m THEN f[e] ELSE Hedges(f, e)]
  <2>2. \A e \in AllExpressions : Depth[e] < m => h[e] = f[e]
    OBVIOUS
  <2>3. \A e \in AllExpressions : h[e] = Hedges(f, e)
    BY <2>1
  <2>4. h = [e \in AllExpressions |-> h[e]]
    OBVIOUS
  <2> HIDE DEF h
  <2>5. ASSUME NEW e \in AllExpressions, Depth[e] < m + 1 PROVE h[e] = Hedges(h, e)
    <3>1. \A k \in DOMAIN Arguments(e) : f[Arguments(e)[k]] = h[Arguments(e)[k]]
      <4>1. \A k \in DOMAIN Arguments(e) :
                Arguments(e)[k] \in AllExpressions /\ Depth[Arguments(e)[k]] < Depth[e]
        BY ArgumentsAre
      <4> QED
        BY <1>1, <2>2, <2>5, <4>1
    <3>2. Hedges(f, e) <=> Hedges(h, e)
      BY <3>1 DEF Hedges
    <3>3. Hedges(f, e) \in BOOLEAN /\ Hedges(h, e) \in BOOLEAN
      BY DEF Hedges
    <3> QED
      BY <2>3, <3>2, <3>3
  <2>6. Upto(m + 1, h)
    BY <2>4, <2>5
  <2> HIDE DEF Upto
  <2>7. \E f2 : Upto(m + 1, f2)
    BY <2>6
  <2> QED
    BY <2>7
<1>4. MaxDepth + 1 \in S
  <2>1. MaxDepth + 1 \in Nat
    BY Nesting
  <2> HIDE DEF S
  <2> QED
    BY <1>2, <1>3, <2>1, NumberAfterNumber
<1>5. PICK f : Upto(MaxDepth + 1, f)
  BY <1>4
<1>6. \A e \in AllExpressions : f[e] = Hedges(f, e)
  BY <1>1, <1>5
<1>7. f = [e \in AllExpressions |-> Hedges(f, e)]
  BY <1>5, <1>6
<1> QED
  BY <1>7

LEMMA SettledIs ==
    ASSUME NEW e \in AllExpressions, ~provisional[e]
    PROVE  /\ e.op \notin ProvisionalOps
           /\ \A k \in 1 .. Len(Arguments(e)) : ~provisional[Arguments(e)[k]]
<1>1. provisional = [d \in AllExpressions |-> Hedges(provisional, d)]
  BY ProvisionalExists DEF provisional, Hedges, ProvisionalOps, AllExpressions
<1>2. ~Hedges(provisional, e)
  BY <1>1
<1>3. DOMAIN Arguments(e) = 1 .. Len(Arguments(e))
  BY ArgumentsAre
<1> QED
  BY <1>2, <1>3 DEF Hedges

-----------------------------------------------------------------------------
(* A complete result is definitive.                                        *)

(* h has the answers g has, and perhaps more.                              *)
Answers(g, h) ==
    /\ \A p \in Root : g.saved[p] \in {Unset, h.saved[p]}
    /\ \A m \in Item \X Member : g.members[m] \in {Unset, h.members[m]}
    /\ g.items \in {Unset, h.items}

LEMMA SavedSettles ==
    ASSUME NEW v, NEW w, v \in {Unset, w}
    PROVE  Settles(Saved(v), Saved(w))
<1>1. CASE v = w
  BY <1>1 DEF Settles
<1>2. CASE v = Unset
  BY <1>2, NotFinal DEF Saved, Settles
<1> QED
  BY <1>1, <1>2

(* Nothing is complete over a collection without a value.                  *)
LEMMA NoneGiven ==
    ASSUME NEW e \in AllExpressions, WellTyped(e), NEW i, NEW g, g.items = Unset,
           NEW rs, Typed(e, g, rs), e.op \in OnItems, e.op # "find"
    PROVE  ~IsFinal(Apply(e, i, g, rs))
<1> DEFINE T == Type[Arguments(e)[1]]
           given == g.items # Unset
<1>1. Elements(g) = <<>> /\ given = FALSE
  BY DEF Elements
<1>2. rs \in [1 .. 0 -> ResultOver(T)]
  BY <1>1 DEF Typed
<1> HIDE DEF T, given
<1>3. CASE e.op = "sum"
  <2>1. Apply(e, i, g, rs) = Strictly(Sum(Values(rs)), rs, given)
    BY <1>3 DEF Apply, given
  <2> QED
    BY <1>1, <1>2, <2>1, StrictlyFinal
<1>4. CASE e.op = "count"
  <2>1. Apply(e, i, g, rs) = Strictly(Count(Values(rs)), rs, given)
    BY <1>4 DEF Apply, given
  <2> QED
    BY <1>1, <1>2, <2>1, StrictlyFinal
<1>5. CASE e.op = "maximum"
  <2>1. Apply(e, i, g, rs) = MaximumOf(rs)
    BY <1>5 DEF Apply
  <2>2. rs = <<>>
    BY <1>2
  <2>3. MaximumOf(rs) = Incomplete
    BY <2>2 DEF MaximumOf
  <2> QED
    BY <2>1, <2>3, NotFinal
<1>6. CASE e.op = "filter"
  <2>1. Apply(e, i, g, rs) = FilterIn(Elements(g), rs, given)
    BY <1>6 DEF Apply, given
  <2>2. Apply(e, i, g, rs) =
            IF Raises(rs) THEN Raised
            ELSE ResultOf(Kept(Elements(g), rs), given /\ \A k \in DOMAIN rs : IsFinal(rs[k]))
    BY <2>1, FilterIs
  <2>3. (given /\ \A k \in DOMAIN rs : IsFinal(rs[k])) = FALSE
    BY <1>1
  <2>4. ~IsFinal(ResultOf(Kept(Elements(g), rs), FALSE))
    BY FinalOf
  <2> QED
    BY <2>2, <2>3, <2>4, NotFinal
<1> QED
  BY <1>3, <1>4, <1>5, <1>6 DEF OnItems

(* Over the same items, results that settle settle the operator's.         *)
LEMMA CollectingSettles ==
    ASSUME NEW e \in AllExpressions, WellTyped(e), NEW i,
           NEW g, HasItems(g), NEW h, h.items = g.items,
           NEW rs, Typed(e, g, rs), NEW ss, Typed(e, h, ss), e.op \in OnItems, e.op # "find",
           \A k \in 1 .. Len(Elements(g)) : Settles(rs[k], ss[k])
    PROVE  Settles(Apply(e, i, g, rs), Apply(e, i, h, ss))
<1> DEFINE items == Elements(g)
           n     == Len(items)
           T     == Type[Arguments(e)[1]]
           given == g.items # Unset
<1>1. Elements(h) = Elements(g) /\ given \in BOOLEAN /\ (h.items # Unset) = given
  BY DEF Elements
<1>2. /\ n \in Nat
      /\ rs \in [1 .. n -> ResultOver(T)] /\ ss \in [1 .. n -> ResultOver(T)]
      /\ e.op = "filter" => /\ rs \in [1 .. n -> ResultOver(BOOLEAN)]
                            /\ ss \in [1 .. n -> ResultOver(BOOLEAN)]
  <2>1. HasItems(h)
    BY DEF HasItems
  <2> QED
    BY <1>1, <2>1, ItemArguments
<1>3. \A k \in 1 .. n : Settles(rs[k], ss[k])
  OBVIOUS
<1>4. CASE e.op = "sum"
  <2>1. /\ Apply(e, i, g, rs) = Strictly(Sum(Values(rs)), rs, given)
        /\ Apply(e, i, h, ss) = Strictly(Sum(Values(ss)), ss, given)
    BY <1>1, <1>4 DEF Apply
  <2>2. rs = ss => Sum(Values(ss)) = Sum(Values(rs))
    OBVIOUS
  <2> HIDE DEF items, n, T, given
  <2> QED
    BY ONLY <1>1, <1>2, <1>3, <2>1, <2>2, StrictlySettles
<1>5. CASE e.op = "count"
  <2>1. /\ Apply(e, i, g, rs) = Strictly(Count(Values(rs)), rs, given)
        /\ Apply(e, i, h, ss) = Strictly(Count(Values(ss)), ss, given)
    BY <1>1, <1>5 DEF Apply
  <2>2. rs = ss => Count(Values(ss)) = Count(Values(rs))
    OBVIOUS
  <2> HIDE DEF items, n, T, given
  <2> QED
    BY ONLY <1>1, <1>2, <1>3, <2>1, <2>2, StrictlySettles
<1>6. CASE e.op = "maximum"
  <2>1. Apply(e, i, g, rs) = MaximumOf(rs) /\ Apply(e, i, h, ss) = MaximumOf(ss)
    BY <1>6 DEF Apply
  <2> HIDE DEF items, n, T, given
  <2> QED
    BY ONLY <1>2, <1>3, <2>1, MaximumSettles
<1>7. CASE e.op = "filter"
  <2>1. /\ Apply(e, i, g, rs) = FilterIn(items, rs, given)
        /\ Apply(e, i, h, ss) = FilterIn(items, ss, given)
    BY <1>1, <1>7 DEF Apply
  <2> HIDE DEF items, n, T, given
  <2> QED
    BY ONLY <1>1, <1>2, <1>3, <1>7, <2>1, FilterSettles
<1> QED
  BY <1>4, <1>5, <1>6, <1>7 DEF OnItems

(* So do results that settle of arguments.                                 *)
LEMMA ComputingSettles ==
    ASSUME NEW e \in AllExpressions, WellTyped(e), NEW i, NEW g, NEW h,
           NEW rs, Typed(e, g, rs), NEW ss, Typed(e, h, ss), e.op \in {"constant", "fact", "strict"},
           \A k \in 1 .. Len(Arguments(e)) : Settles(rs[k], ss[k])
    PROVE  Settles(Apply(e, i, g, rs), Apply(e, i, h, ss))
<1> DEFINE n == Len(Arguments(e))
<1>1. /\ n \in Nat
      /\ rs \in [1 .. n -> ResultOver(Anything)] /\ ss \in [1 .. n -> ResultOver(Anything)]
  <2>1. e.op \notin OnItems
    BY DEF OnItems
  <2> QED
    BY <2>1, PlainArguments
<1>2. \A k \in 1 .. n : Settles(rs[k], ss[k])
  OBVIOUS
<1>3. CASE e.op = "constant"
  <2>1. n = 0
    BY <1>3 DEF WellTyped
  <2>2. rs = ss
    BY <1>1, <2>1
  <2>3. Apply(e, i, g, rs) = Apply(e, i, h, ss)
    BY <1>3, <2>2 DEF Apply
  <2> QED
    BY <2>3 DEF Settles
<1>4. CASE e.op = "fact"
  <2>1. 1 \in 1 .. n
    BY <1>4 DEF Arguments
  <2>2. Apply(e, i, g, rs) = rs[1] /\ Apply(e, i, h, ss) = ss[1]
    BY <1>4 DEF Apply
  <2> QED
    BY <1>2, <2>1, <2>2
<1>5. CASE e.op = "strict"
  <2>1. /\ Apply(e, i, g, rs) = Strictly(Operation(e.name, Values(rs)), rs, TRUE)
        /\ Apply(e, i, h, ss) = Strictly(Operation(e.name, Values(ss)), ss, TRUE)
    BY <1>5 DEF Apply
  <2>2. rs = ss => Operation(e.name, Values(ss)) = Operation(e.name, Values(rs))
    OBVIOUS
  <2> HIDE DEF n
  <2> QED
    BY ONLY <1>1, <1>2, <2>1, <2>2, StrictlySettles
<1> QED
  BY <1>3, <1>4, <1>5

LEMMA DecidingSettles ==
    ASSUME NEW e \in AllExpressions, WellTyped(e), NEW i, NEW g, NEW h,
           NEW rs, Typed(e, g, rs), NEW ss, Typed(e, h, ss), e.op \in {"any", "all"},
           \A k \in 1 .. Len(Arguments(e)) : Settles(rs[k], ss[k])
    PROVE  Settles(Apply(e, i, g, rs), Apply(e, i, h, ss))
<1> DEFINE n == Len(Arguments(e))
<1>1. /\ n \in Nat
      /\ rs \in [1 .. n -> ResultOver(BOOLEAN)] /\ ss \in [1 .. n -> ResultOver(BOOLEAN)]
  BY ArgumentsAre, BooleanArguments
<1>2. \A k \in 1 .. n : Settles(rs[k], ss[k])
  OBVIOUS
<1>3. \/ Apply(e, i, g, rs) = AnyOf(rs) /\ Apply(e, i, h, ss) = AnyOf(ss)
      \/ Apply(e, i, g, rs) = AllOf(rs) /\ Apply(e, i, h, ss) = AllOf(ss)
  BY DEF Apply
<1> HIDE DEF n
<1>4. Settles(AnyOf(rs), AnyOf(ss))
  BY ONLY <1>1, <1>2, AnyOfSettles
<1>5. Settles(AllOf(rs), AllOf(ss))
  BY ONLY <1>1, <1>2, AllOfSettles
<1> QED
  BY <1>3, <1>4, <1>5

LEMMA CasesSettle ==
    ASSUME NEW e \in AllExpressions, WellTyped(e), NEW i, NEW g, NEW h,
           NEW rs, Typed(e, g, rs), NEW ss, Typed(e, h, ss), e.op \in {"switch", "options"},
           \A k \in 1 .. Len(Arguments(e)) : Settles(rs[k], ss[k])
    PROVE  Settles(Apply(e, i, g, rs), Apply(e, i, h, ss))
<1>1. PICK m : m = Len(Arguments(e)) \div 2
  OBVIOUS
<1>2. /\ m \in Nat /\ Len(Arguments(e)) = 2 * m
      /\ \A k \in 1 .. m : k \in 1 .. 2 * m /\ m + k \in 1 .. 2 * m
      /\ Whens(rs) \in [1 .. m -> ResultOver(BOOLEAN)]
      /\ Thens(rs) \in [1 .. m -> ResultOver(Anything)]
      /\ \A k \in 1 .. m : Whens(rs)[k] = rs[k] /\ Thens(rs)[k] = rs[m + k]
  BY <1>1, CaseArguments
<1>3. /\ Whens(ss) \in [1 .. m -> ResultOver(BOOLEAN)]
      /\ Thens(ss) \in [1 .. m -> ResultOver(Anything)]
      /\ \A k \in 1 .. m : Whens(ss)[k] = ss[k] /\ Thens(ss)[k] = ss[m + k]
  BY <1>1, CaseArguments
<1>4. \A k \in 1 .. m : /\ Settles(Whens(rs)[k], Whens(ss)[k])
                        /\ Settles(Thens(rs)[k], Thens(ss)[k])
  BY <1>2, <1>3
<1>5. Settles(Switch(Whens(rs), Thens(rs)), Switch(Whens(ss), Thens(ss)))
  BY ONLY <1>2, <1>3, <1>4, SwitchSettles
<1>6. Settles(ConditionSet(Whens(rs), Thens(rs)), ConditionSet(Whens(ss), Thens(ss)))
  BY ONLY <1>2, <1>3, <1>4, ConditionSetSettles
<1>7. CASE e.op = "switch"
  BY <1>5, <1>7 DEF Apply
<1>8. CASE e.op = "options"
  BY <1>6, <1>8 DEF Apply
<1> QED
  BY <1>7, <1>8

LEMMA DefaultsSettle ==
    ASSUME NEW e \in AllExpressions, WellTyped(e), NEW i, NEW g, NEW h,
           NEW rs, Typed(e, g, rs), NEW ss, Typed(e, h, ss), e.op \in {"override", "placeholder"},
           \A k \in 1 .. Len(Arguments(e)) : Settles(rs[k], ss[k])
    PROVE  Settles(Apply(e, i, g, rs), Apply(e, i, h, ss))
<1>1. CASE e.op = "override"
  <2>1. /\ Apply(e, i, g, rs) = Override(rs[1], rs[2], rs[3])
        /\ Apply(e, i, h, ss) = Override(ss[1], ss[2], ss[3])
    BY <1>1 DEF Apply
  <2>2. /\ Len(Arguments(e)) = 3
        /\ rs[1] \in ResultOver(Anything) /\ rs[2] \in ResultOver(BOOLEAN)
        /\ rs[3] \in ResultOver(Anything)
    BY <1>1, OverrideArguments
  <2>3. /\ ss[1] \in ResultOver(Anything) /\ ss[2] \in ResultOver(BOOLEAN)
        /\ ss[3] \in ResultOver(Anything)
    BY <1>1, OverrideArguments
  <2>4. Settles(rs[1], ss[1]) /\ Settles(rs[2], ss[2]) /\ Settles(rs[3], ss[3])
    BY <2>2
  <2> QED
    BY ONLY <2>1, <2>2, <2>3, <2>4, OverrideSettles
<1>2. CASE e.op = "placeholder"
  <2>1. /\ Apply(e, i, g, rs) = OrDefault(rs[1], rs[2])
        /\ Apply(e, i, h, ss) = OrDefault(ss[1], ss[2])
    BY <1>2 DEF Apply
  <2>2. /\ Len(Arguments(e)) = 2
        /\ rs[1] \in ResultOver(Anything) /\ rs[2] \in ResultOver(Anything)
        /\ ss[1] \in ResultOver(Anything) /\ ss[2] \in ResultOver(Anything)
    BY <1>2, PlaceholderArguments
  <2>3. Settles(rs[1], ss[1])
    BY <2>2
  <2> QED
    BY ONLY <2>1, <2>2, <2>3, OrDefaultSettles
<1> QED
  BY <1>1, <1>2

LEMMA ReadingSettles ==
    ASSUME NEW s \in Site, NEW g, NEW h, Answers(g, h), NEW rs, NEW ss,
           s[1].op \in {"writable", "member"}
    PROVE  Settles(Apply(s[1], s[2], g, rs), Apply(s[1], s[2], h, ss))
<1>1. CASE s[1].op = "writable"
  <2>1. s[1].path \in Root
    BY <1>1, SiteIs DEF WellTyped
  <2>2. /\ Apply(s[1], s[2], g, rs) = Saved(g.saved[s[1].path])
        /\ Apply(s[1], s[2], h, ss) = Saved(h.saved[s[1].path])
    BY <1>1 DEF Apply
  <2>3. g.saved[s[1].path] \in {Unset, h.saved[s[1].path]}
    BY <2>1 DEF Answers
  <2> QED
    BY ONLY <2>2, <2>3, SavedSettles
<1>2. CASE s[1].op = "member"
  <2>1. s[1].path \in Member
    BY <1>2, SiteIs DEF WellTyped
  <2>2. s[2] \in Item
    BY <1>2, SiteIs, Scoping
  <2>3. PICK m \in Item \X Member : m = <<s[2], s[1].path>>
    BY <2>1, <2>2
  <2>4. /\ Apply(s[1], s[2], g, rs) = Saved(g.members[m])
        /\ Apply(s[1], s[2], h, ss) = Saved(h.members[m])
    BY <1>2, <2>3 DEF Apply
  <2>5. g.members[m] \in {Unset, h.members[m]}
    BY DEF Answers
  <2> QED
    BY ONLY <2>4, <2>5, SavedSettles
<1> QED
  BY <1>1, <1>2

LEMMA ItemRead ==
    ASSUME NEW g, HasItems(g), NEW s \in Site, s[1].op \in OnItems,
           NEW k \in 1 .. Len(Elements(g)), NEW q, q = <<Arguments(s[1])[1], Elements(g)[k]>>
    PROVE  /\ q \in Site /\ Nest(q) < Nest(s) /\ q[1] = Arguments(s[1])[1]
           /\ \A f : Through(f, Asked(s[1], s[2], g))[k] = f[q]
<1>1. q \in Site /\ Nest(q) < Nest(s)
  BY AskedOfItems
<1>2. ASSUME NEW f PROVE Through(f, Asked(s[1], s[2], g))[k] = f[q]
  <2>1. Through(f, Asked(s[1], s[2], g)) =
            [j \in 1 .. Len(Elements(g)) |-> f[<<Arguments(s[1])[1], Elements(g)[j]>>]]
    BY AskedOfItems
  <2> QED
    BY <2>1
<1> QED
  BY <1>1, <1>2

LEMMA ArgumentRead ==
    ASSUME NEW g, HasItems(g), NEW s \in Site, s[1].op \notin OnItems,
           NEW k \in 1 .. Len(Arguments(s[1])), NEW q, q = <<Arguments(s[1])[k], s[2]>>
    PROVE  /\ q \in Site /\ Nest(q) < Nest(s) /\ q[1] = Arguments(s[1])[k]
           /\ \A f : Through(f, Asked(s[1], s[2], g))[k] = f[q]
<1>1. q \in Site /\ Nest(q) < Nest(s)
  BY AskedOfArguments
<1>2. ASSUME NEW f PROVE Through(f, Asked(s[1], s[2], g))[k] = f[q]
  <2>1. Through(f, Asked(s[1], s[2], g)) =
            [j \in 1 .. Len(Arguments(s[1])) |-> f[<<Arguments(s[1])[j], s[2]>>]]
    BY AskedOfArguments
  <2> QED
    BY <2>1
<1> QED
  BY <1>1, <1>2

LEMMA EvaluationSettles ==
    ASSUME NEW g, Persisted(g), NEW h, Persisted(h), Answers(g, h), NEW s \in Site,
           ~provisional[s[1]],
           \A q \in Site : Nest(q) < Nest(s) /\ ~provisional[q[1]] => Settles(Get(g)[q], Get(h)[q])
    PROVE  Settles(Get(g)[s], Get(h)[s])
<1>1. PICK rs : rs = Through(Get(g), Asked(s[1], s[2], g))
  OBVIOUS
<1>2. PICK ss : ss = Through(Get(h), Asked(s[1], s[2], h))
  OBVIOUS
<1>3. HasItems(g) /\ HasItems(h)
  BY DEF Persisted, HasItems
<1>4. Get(g)[s] = Apply(s[1], s[2], g, rs) /\ Get(h)[s] = Apply(s[1], s[2], h, ss)
  BY <1>1, <1>2, <1>3, GetIs DEF Evaluated
<1>5. Typed(s[1], g, rs) /\ Typed(s[1], h, ss)
  BY <1>1, <1>2, GetTyped
<1>6. s[1] \in AllExpressions /\ WellTyped(s[1])
  BY SiteIs
<1>7. /\ s[1].op \notin ProvisionalOps
      /\ \A k \in 1 .. Len(Arguments(s[1])) : ~provisional[Arguments(s[1])[k]]
  BY <1>6, SettledIs
<1>8. CASE s[1].op \in OnItems /\ g.items = Unset
  <2>1. ~IsFinal(Apply(s[1], s[2], g, rs))
    BY <1>5, <1>6, <1>7, <1>8, NoneGiven DEF ProvisionalOps
  <2> QED
    BY <1>4, <2>1 DEF Settles
<1>9. CASE s[1].op \in OnItems /\ g.items # Unset
  <2>1. h.items = g.items /\ Elements(h) = Elements(g)
    BY <1>9 DEF Answers, Elements
  <2>2. s[1].op # "find"
    BY <1>7 DEF ProvisionalOps
  <2>3. ~provisional[Arguments(s[1])[1]]
    BY <1>6, <1>7, <1>9, OneArgument
  <2>4. ASSUME NEW k \in 1 .. Len(Elements(g)) PROVE Settles(rs[k], ss[k])
    <3>1. PICK q : q = <<Arguments(s[1])[1], Elements(g)[k]>>
      OBVIOUS
    <3>2. q \in Site /\ Nest(q) < Nest(s) /\ q[1] = Arguments(s[1])[1]
      BY <1>3, <1>9, <3>1, ItemRead
    <3>3. rs[k] = Get(g)[q]
      <4>1. Through(Get(g), Asked(s[1], s[2], g))[k] = Get(g)[q]
        BY <1>3, <1>9, <3>1, ItemRead
      <4> QED
        BY ONLY <1>1, <4>1
    <3>4. ss[k] = Get(h)[q]
      <4>1. k \in 1 .. Len(Elements(h)) /\ q = <<Arguments(s[1])[1], Elements(h)[k]>>
        BY <2>1, <3>1
      <4>2. Through(Get(h), Asked(s[1], s[2], h))[k] = Get(h)[q]
        BY <1>3, <1>9, <4>1, ItemRead
      <4> QED
        BY <1>2, <4>2
    <3> QED
      BY <2>3, <3>2, <3>3, <3>4
  <2>5. Settles(Apply(s[1], s[2], g, rs), Apply(s[1], s[2], h, ss))
    BY <1>3, <1>5, <1>6, <1>9, <2>1, <2>2, <2>4, CollectingSettles
  <2> QED
    BY <1>4, <2>5
<1>10. CASE s[1].op \notin OnItems
  <2>1. ASSUME NEW k \in 1 .. Len(Arguments(s[1])) PROVE Settles(rs[k], ss[k])
    <3>1. PICK q : q = <<Arguments(s[1])[k], s[2]>>
      OBVIOUS
    <3>2. q \in Site /\ Nest(q) < Nest(s) /\ q[1] = Arguments(s[1])[k]
      BY <1>3, <1>10, <3>1, ArgumentRead
    <3>3. rs[k] = Get(g)[q]
      <4>1. Through(Get(g), Asked(s[1], s[2], g))[k] = Get(g)[q]
        BY <1>3, <1>10, <3>1, ArgumentRead
      <4> QED
        BY ONLY <1>1, <4>1
    <3>4. ss[k] = Get(h)[q]
      <4>1. Through(Get(h), Asked(s[1], s[2], h))[k] = Get(h)[q]
        BY <1>3, <1>10, <3>1, ArgumentRead
      <4> QED
        BY ONLY <1>2, <4>1
    <3> QED
      BY <1>7, <3>2, <3>3, <3>4
  <2>2. s[1].op \in {"constant", "fact", "strict"} \cup {"any", "all"} \cup {"switch", "options"}
                        \cup {"override", "placeholder"} \cup {"writable", "member"}
    BY <1>6, <1>7, <1>10 DEF WellTyped, ProvisionalOps, OnItems
  <2>3. Settles(Apply(s[1], s[2], g, rs), Apply(s[1], s[2], h, ss))
    <3>1. CASE s[1].op \in {"constant", "fact", "strict"}
      BY ONLY <1>5, <1>6, <2>1, <3>1, ComputingSettles
    <3>2. CASE s[1].op \in {"any", "all"}
      BY ONLY <1>5, <1>6, <2>1, <3>2, DecidingSettles
    <3>3. CASE s[1].op \in {"switch", "options"}
      BY ONLY <1>5, <1>6, <2>1, <3>3, CasesSettle
    <3>4. CASE s[1].op \in {"override", "placeholder"}
      BY ONLY <1>5, <1>6, <2>1, <3>4, DefaultsSettle
    <3>5. CASE s[1].op \in {"writable", "member"}
      BY <3>5, ReadingSettles
    <3> QED
      BY <2>2, <3>1, <3>2, <3>3, <3>4, <3>5
  <2> QED
    BY <1>4, <2>3
<1> QED
  BY <1>8, <1>9, <1>10

(* Whatever else is answered, a complete result that rests on nothing      *)
(* provisional is what it was, unless its evaluation throws.               *)
THEOREM ResultsSettle ==
    ASSUME NEW g, Persisted(g), NEW h, Persisted(h), Answers(g, h)
    PROVE  \A s \in Site : ~provisional[s[1]] => Settles(Get(g)[s], Get(h)[s])
<1> DEFINE S == {m \in Nat : \A s \in Site :
                    Nest(s) = m /\ ~provisional[s[1]] => Settles(Get(g)[s], Get(h)[s])}
<1>1. ASSUME NEW n \in Nat, \A m \in 0 .. n - 1 : m \in S PROVE n \in S
  <2>1. ASSUME NEW s \in Site, Nest(s) = n, ~provisional[s[1]]
        PROVE  Settles(Get(g)[s], Get(h)[s])
    <3>1. ASSUME NEW q \in Site, Nest(q) < Nest(s), ~provisional[q[1]]
          PROVE  Settles(Get(g)[q], Get(h)[q])
      <4>1. Nest(q) \in 0 .. n - 1
        BY <2>1, <3>1, SiteIs
      <4> QED
        BY <1>1, <3>1, <4>1
    <3> QED
      BY <2>1, <3>1, EvaluationSettles
  <2> QED
    BY <2>1
<1>2. Nat \subseteq S
  <2> HIDE DEF S
  <2> QED
    BY <1>1, EveryNumber
<1> QED
  BY <1>2, SiteIs

LEMMA ResultSite ==
    ASSUME NEW d \in Derived
    PROVE  /\ <<Expression[d], Unset>> \in Site
           /\ <<Expression[d], Unset>>[1] = Expression[d]
  BY Scoping DEF Site

(* The step property CompleteIsFinal, as TLC checks it, for every          *)
(* dictionary: README.md:129 of all that rests on nothing provisional.     *)
THEOREM CompleteFactsAreFinal == Spec => CompleteIsFinal
<1> DEFINE Final(d) == IsFinal(Result(d, facts)) => Result(d, facts') \in {Result(d, facts), Raised}
<1>1. ASSUME Persisted(facts), Persisted(facts)', Answering, NEW d \in Settled
      PROVE  Final(d)
  <2>1. Answers(facts, facts')
    BY <1>1 DEF Answering, Answers
  <2>2. Persisted(facts')
    BY <1>1 DEF Persisted
  <2>3. PICK s \in Site : s = <<Expression[d], Unset>> /\ s[1] = Expression[d]
    BY ResultSite DEF Settled
  <2>4. ~provisional[s[1]]
    BY <2>3 DEF Settled
  <2>5. Settles(Get(facts)[s], Get(facts')[s])
    BY <1>1, <2>1, <2>2, <2>4, ResultsSettle
  <2> QED
    BY <2>3, <2>5 DEF Result, Settles
<1>2. Persisted(facts) /\ Persisted(facts)' => (Answering => \A d \in Settled : Final(d))
  BY <1>1
<1> QED
  BY <1>2, AlwaysPersisted, PTL DEF CompleteIsFinal

-----------------------------------------------------------------------------
(* Explanations.                                                           *)

Accounted(f, s, g) ==
    Account(s[1], s[2], g, Through(Get(g), Asked(s[1], s[2], g)), Through(f, Asked(s[1], s[2], g)))

(* Explaining is well-founded too.                                         *)
LEMMA ExplainExists ==
    ASSUME NEW g, HasItems(g)
    PROVE  \E f : f = [s \in Site |-> Accounted(f, s, g)]
<1> DEFINE Upto(m, f) == /\ f = [s \in Site |-> f[s]]
                         /\ \A s \in Site : Nest(s) < m => f[s] = Accounted(f, s, g)
           S == {m \in Nat : \E f : Upto(m, f)}
<1>1. 0 \in S
  <2> DEFINE f == [s \in Site |-> s]
  <2>1. \A s \in Site : ~(Nest(s) < 0)
    BY SiteIs
  <2>2. f = [s \in Site |-> f[s]]
    OBVIOUS
  <2>3. Upto(0, f)
    BY <2>1, <2>2
  <2> QED
    BY <2>3
<1>2. ASSUME NEW m \in Nat, m \in S PROVE m + 1 \in S
  <2>1. PICK f : Upto(m, f)
    BY <1>2
  <2> DEFINE h == [s \in Site |-> IF Nest(s) < m THEN f[s] ELSE Accounted(f, s, g)]
  <2>2. \A s \in Site : Nest(s) < m => h[s] = f[s]
    OBVIOUS
  <2>3. \A s \in Site : h[s] = Accounted(f, s, g)
    BY <2>1
  <2>4. h = [s \in Site |-> h[s]]
    OBVIOUS
  <2> HIDE DEF h
  <2>5. ASSUME NEW s \in Site, Nest(s) < m + 1 PROVE h[s] = Accounted(h, s, g)
    <3>1. \A q \in Site : Nest(q) < Nest(s) => f[q] = h[q]
      <4>1. \A q \in Site : Nest(q) \in Nat
        BY SiteIs
      <4> QED
        BY <2>2, <2>5, <4>1
    <3>2. Through(f, Asked(s[1], s[2], g)) = Through(h, Asked(s[1], s[2], g))
      BY <3>1, AskedSame
    <3> QED
      BY <2>3, <3>2 DEF Accounted
  <2>6. Upto(m + 1, h)
    BY <2>4, <2>5
  <2> QED
    BY <2>6
<1>3. MaxDepth + 1 \in S
  <2>1. MaxDepth + 1 \in Nat
    BY Nesting
  <2> HIDE DEF S
  <2> QED
    BY <1>1, <1>2, <2>1, NumberAfterNumber
<1>4. PICK f : Upto(MaxDepth + 1, f)
  BY <1>3
<1>5. \A s \in Site : f[s] = Accounted(f, s, g)
  BY <1>4, SiteIs
<1>6. f = [s \in Site |-> Accounted(f, s, g)]
  BY <1>4, <1>5
<1> QED
  BY <1>6

LEMMA ExplainIs ==
    ASSUME NEW g, HasItems(g), NEW s \in Site
    PROVE  Explain(g)[s] = Accounted(Explain(g), s, g)
<1>1. Explain(g) = CHOOSE f : f = [q \in Site |-> Accounted(f, q, g)]
  BY DEF Explain, Accounted
<1>2. Explain(g) = [q \in Site |-> Accounted(Explain(g), q, g)]
  BY <1>1, ExplainExists
<1> QED
  BY <1>2

(* An explanation that names none of the facts E.                          *)
Spared(x, E) == x # Unexplained /\ E \cap x.facts = {}

LEMMA ListedFacts ==
    ASSUME NEW lists, NEW E, E \cap Explained(lists).facts = {},
           NEW j \in DOMAIN lists, NEW k \in DOMAIN lists[j]
    PROVE  E \cap lists[j][k].facts = {}
  BY DEF Explained

LEMMA InclusiveFacts ==
    ASSUME NEW xs, NEW E, E \cap Inclusive(xs).facts = {}, NEW k \in DOMAIN xs
    PROVE  E \cap xs[k].facts = {}
<1>1. 1 \in DOMAIN <<xs>> /\ <<xs>>[1] = xs
  OBVIOUS
<1> QED
  BY <1>1, ListedFacts DEF Inclusive

LEMMA ExclusiveFacts ==
    ASSUME NEW xs, NEW E, E \cap Exclusive(xs).facts = {}, NEW k \in DOMAIN xs
    PROVE  E \cap xs[k].facts = {}
<1> DEFINE lists == [j \in DOMAIN xs |-> <<xs[j]>>]
<1>1. k \in DOMAIN lists /\ 1 \in DOMAIN lists[k] /\ lists[k][1] = xs[k]
  OBVIOUS
<1>2. E \cap Explained(lists).facts = {}
  BY DEF Exclusive
<1> HIDE DEF lists
<1>3. E \cap lists[k][1].facts = {}
  BY <1>1, <1>2, ListedFacts
<1> QED
  BY <1>1, <1>3

LEMMA AfterSpared ==
    ASSUME NEW xs, NEW x, NEW E, Spared(After(xs, x), E)
    PROVE  Spared(x, E) /\ \A k \in DOMAIN xs : xs[k] # Unexplained
  BY DEF Spared, After

LEMMA OfSpared ==
    ASSUME NEW xs, NEW E, Spared(Of(xs), E)
    PROVE  \A k \in DOMAIN xs : Spared(xs[k], E)
<1>1. /\ E \cap Inclusive(xs).facts = {}
      /\ \A k \in DOMAIN xs : xs[k] # Unexplained
  BY AfterSpared DEF Of, Spared
<1> QED
  BY <1>1, InclusiveFacts DEF Spared

(* Any and All are explained by what they rest on.                         *)
LEMMA DecidingSpared ==
    ASSUME NEW v, NEW n \in Nat, NEW rs, DOMAIN rs = 1 .. n, NEW xs, DOMAIN xs = 1 .. n,
           NEW E, Spared(After(xs, Deciding(v, rs, xs)), E)
    PROVE  LET k == First(Decisive(v, rs)) IN
           IF Decisive(v, rs) = {} THEN \A i \in 1 .. n : Spared(xs[i], E)
           ELSE rs[k] = Complete(v) /\ Spared(xs[k], E)
<1> DEFINE k == First(Decisive(v, rs))
<1>1. Spared(Deciding(v, rs, xs), E) /\ \A i \in 1 .. n : xs[i] # Unexplained
  BY AfterSpared
<1>2. Deciding(v, rs, xs) = IF Decisive(v, rs) = {} THEN Exclusive(xs)
                            ELSE IF rs[k] = Raised THEN Unexplained
                            ELSE Inclusive(<<xs[k]>>)
  BY DEF Deciding, Decisive
<1>3. CASE Decisive(v, rs) = {}
  <2>1. E \cap Exclusive(xs).facts = {}
    BY <1>1, <1>2, <1>3 DEF Spared
  <2>2. \A i \in 1 .. n : E \cap xs[i].facts = {}
    BY <2>1, ExclusiveFacts
  <2> QED
    BY <1>1, <1>3, <2>2 DEF Spared
<1>4. CASE Decisive(v, rs) # {}
  <2>1. k \in Decisive(v, rs)
    BY <1>4, FirstDecisive
  <2>2. k \in 1 .. n /\ rs[k] \in {Complete(v), Raised}
    BY <2>1 DEF Decisive
  <2> HIDE DEF k
  <2>3. rs[k] # Raised /\ E \cap Inclusive(<<xs[k]>>).facts = {}
    BY <1>1, <1>2, <1>4 DEF Spared
  <2>4. 1 \in DOMAIN <<xs[k]>> /\ <<xs[k]>>[1] = xs[k]
    OBVIOUS
  <2>5. E \cap xs[k].facts = {}
    BY <2>3, <2>4, InclusiveFacts
  <2>6. rs[k] = Complete(v) /\ Spared(xs[k], E)
    BY <1>1, <2>2, <2>3, <2>5 DEF Spared
  <2> QED
    BY <1>4, <2>6 DEF k
<1> QED
  BY <1>3, <1>4

(* A switch is explained by the conditions up to the case it takes, and by *)
(* the value of that case.                                                 *)
LEMMA CasesSpared ==
    ASSUME NEW n \in Nat, NEW whens, DOMAIN whens = 1 .. n, NEW thens, NEW whens2, NEW thens2,
           NEW whenXs, DOMAIN whenXs = 1 .. n, NEW thenXs,
           NEW E, Spared(Cases(whens, whenXs, thenXs), E),
           \A k \in 1 .. n : E \cap whenXs[k].facts = {} => Alike(whens[k], whens2[k]),
           \A k \in 1 .. n : E \cap thenXs[k].facts = {} => Alike(thens[k], thens2[k])
    PROVE  CasesAlike(whens, thens, whens2, thens2)
<1> DEFINE k    == First(Undecided(whens))
           last == IF whens[k] = Complete(TRUE) THEN <<whenXs[k], thenXs[k]>> ELSE <<whenXs[k]>>
<1>1. Cases(whens, whenXs, thenXs) =
            IF Undecided(whens) = {} THEN Exclusive(whenXs)
            ELSE IF whens[k] = Raised THEN Unexplained
            ELSE Explained([j \in 1 .. k |-> IF j < k THEN <<whenXs[j]>> ELSE last])
  BY DEF Cases, Undecided
<1>2. CASE Undecided(whens) = {}
  <2>1. E \cap Exclusive(whenXs).facts = {}
    BY <1>1, <1>2 DEF Spared
  <2>2. \A i \in 1 .. n : E \cap whenXs[i].facts = {}
    BY <2>1, ExclusiveFacts
  <2> QED
    BY <1>2, <2>2 DEF CasesAlike
<1>3. CASE Undecided(whens) # {}
  <2>1. k \in 1 .. n
    <3>1. k \in Undecided(whens)
      BY <1>3, FirstUndecided
    <3> QED
      BY <3>1 DEF Undecided
  <2> HIDE DEF k
  <2> DEFINE lists == [j \in 1 .. k |-> IF j < k THEN <<whenXs[j]>> ELSE last]
  <2>2. whens[k] # Raised /\ E \cap Explained(lists).facts = {}
    BY <1>1, <1>3 DEF Spared
  <2>3. \A j \in 1 .. k : /\ j \in DOMAIN lists /\ 1 \in DOMAIN lists[j]
                          /\ lists[j][1] = whenXs[j] /\ j \in 1 .. n
    BY <2>1
  <2>4. whens[k] = Complete(TRUE) =>
            k \in DOMAIN lists /\ 2 \in DOMAIN lists[k] /\ lists[k][2] = thenXs[k]
    BY <2>1
  <2> HIDE DEF lists
  <2>5. \A j \in 1 .. k : Alike(whens[j], whens2[j])
    <3> TAKE j \in 1 .. k
    <3>1. E \cap lists[j][1].facts = {}
      BY <2>2, <2>3, ListedFacts
    <3> QED
      BY <2>3, <3>1
  <2>6. whens[k] = Complete(TRUE) => Alike(thens[k], thens2[k])
    <3> HAVE whens[k] = Complete(TRUE)
    <3>1. E \cap lists[k][2].facts = {}
      BY <2>2, <2>4, ListedFacts
    <3> QED
      BY <2>1, <2>4, <3>1
  <2> QED
    BY <1>3, <2>2, <2>5, <2>6 DEF CasesAlike, k
<1> QED
  BY <1>2, <1>3

(* Persisted facts that differ.                                            *)
Changed(g, h) ==
    {<<p>> : p \in {p \in Root : h.saved[p] # g.saved[p]}}
        \cup {m \in Item \X Member : h.members[m] # g.members[m]}

LEMMA ReadingAlike ==
    ASSUME NEW s \in Site, NEW g, NEW h, NEW rs, NEW ss, NEW rs2, NEW xs,
           s[1].op \in {"writable", "member"},
           Spared(Account(s[1], s[2], g, rs2, xs), Changed(g, h))
    PROVE  Alike(Apply(s[1], s[2], g, rs), Apply(s[1], s[2], h, ss))
<1> DEFINE E == Changed(g, h)
<1>1. CASE s[1].op = "writable"
  <2>1. s[1].path \in Root
    BY <1>1, SiteIs DEF WellTyped
  <2>2. /\ Apply(s[1], s[2], g, rs) = Saved(g.saved[s[1].path])
        /\ Apply(s[1], s[2], h, ss) = Saved(h.saved[s[1].path])
    BY <1>1 DEF Apply
  <2>3. <<s[1].path>> \notin E
    <3>1. Account(s[1], s[2], g, rs2, xs) = Writable(<<s[1].path>>, g.saved[s[1].path] # Unset)
      BY <1>1 DEF Account, OnItems
    <3>2. Account(s[1], s[2], g, rs2, xs).facts = {<<s[1].path>>}
      BY <3>1 DEF Writable
    <3> QED
      BY <3>2 DEF Spared
  <2>4. g.saved[s[1].path] = h.saved[s[1].path]
    BY <2>1, <2>3 DEF Changed
  <2> QED
    BY <2>2, <2>4 DEF Alike
<1>2. CASE s[1].op = "member"
  <2>1. s[1].path \in Member
    BY <1>2, SiteIs DEF WellTyped
  <2>2. s[2] \in Item
    BY <1>2, SiteIs, Scoping
  <2>3. PICK m \in Item \X Member : m = <<s[2], s[1].path>>
    BY <2>1, <2>2
  <2>4. /\ Apply(s[1], s[2], g, rs) = Saved(g.members[m])
        /\ Apply(s[1], s[2], h, ss) = Saved(h.members[m])
    BY <1>2, <2>3 DEF Apply
  <2>5. m \notin E
    <3>1. Account(s[1], s[2], g, rs2, xs) =
                Writable(<<s[2], s[1].path>>, g.members[<<s[2], s[1].path>>] # Unset)
      BY <1>2 DEF Account, OnItems
    <3>2. Account(s[1], s[2], g, rs2, xs).facts = {<<s[2], s[1].path>>}
      BY <3>1 DEF Writable
    <3> QED
      BY <2>3, <3>2 DEF Spared
  <2>6. g.members[m] = h.members[m]
    BY <2>5 DEF Changed
  <2> QED
    BY <2>4, <2>6 DEF Alike
<1> QED
  BY <1>1, <1>2

(* Alike results give alike results.                                       *)
LEMMA CollectingAlike ==
    ASSUME NEW e \in AllExpressions, WellTyped(e), NEW i,
           NEW g, HasItems(g), NEW h, h.items = g.items,
           NEW rs, Typed(e, g, rs), NEW ss, Typed(e, h, ss), e.op \in OnItems, e.op # "find",
           \A k \in 1 .. Len(Elements(g)) : Alike(rs[k], ss[k])
    PROVE  Alike(Apply(e, i, g, rs), Apply(e, i, h, ss))
<1> DEFINE items == Elements(g)
           n     == Len(items)
           T     == Type[Arguments(e)[1]]
           given == g.items # Unset
<1>1. Elements(h) = Elements(g) /\ given \in BOOLEAN /\ (h.items # Unset) = given
  BY DEF Elements
<1>2. /\ n \in Nat
      /\ rs \in [1 .. n -> ResultOver(T)] /\ ss \in [1 .. n -> ResultOver(T)]
      /\ e.op = "filter" => /\ rs \in [1 .. n -> ResultOver(BOOLEAN)]
                            /\ ss \in [1 .. n -> ResultOver(BOOLEAN)]
  <2>1. HasItems(h)
    BY DEF HasItems
  <2> QED
    BY <1>1, <2>1, ItemArguments
<1>3. \A k \in 1 .. n : Alike(rs[k], ss[k])
  OBVIOUS
<1>4. CASE e.op = "sum"
  <2>1. /\ Apply(e, i, g, rs) = Strictly(Sum(Values(rs)), rs, given)
        /\ Apply(e, i, h, ss) = Strictly(Sum(Values(ss)), ss, given)
    BY <1>1, <1>4 DEF Apply
  <2>2. rs = ss => Sum(Values(ss)) = Sum(Values(rs))
    OBVIOUS
  <2> HIDE DEF items, n, T, given
  <2> QED
    BY ONLY <1>1, <1>2, <1>3, <2>1, <2>2, StrictlyAlike
<1>5. CASE e.op = "count"
  <2>1. /\ Apply(e, i, g, rs) = Strictly(Count(Values(rs)), rs, given)
        /\ Apply(e, i, h, ss) = Strictly(Count(Values(ss)), ss, given)
    BY <1>1, <1>5 DEF Apply
  <2>2. rs = ss => Count(Values(ss)) = Count(Values(rs))
    OBVIOUS
  <2> HIDE DEF items, n, T, given
  <2> QED
    BY ONLY <1>1, <1>2, <1>3, <2>1, <2>2, StrictlyAlike
<1>6. CASE e.op = "maximum"
  <2>1. Apply(e, i, g, rs) = MaximumOf(rs) /\ Apply(e, i, h, ss) = MaximumOf(ss)
    BY <1>6 DEF Apply
  <2> HIDE DEF items, n, T, given
  <2> QED
    BY ONLY <1>2, <1>3, <2>1, MaximumAlike
<1>7. CASE e.op = "filter"
  <2>1. /\ Apply(e, i, g, rs) = FilterIn(items, rs, given)
        /\ Apply(e, i, h, ss) = FilterIn(items, ss, given)
    BY <1>1, <1>7 DEF Apply
  <2> HIDE DEF items, n, T, given
  <2> QED
    BY ONLY <1>1, <1>2, <1>3, <1>7, <2>1, FilterAlike
<1> QED
  BY <1>4, <1>5, <1>6, <1>7 DEF OnItems

LEMMA ComputingAlike ==
    ASSUME NEW e \in AllExpressions, WellTyped(e), NEW i, NEW g, NEW h,
           NEW rs, Typed(e, g, rs), NEW ss, Typed(e, h, ss), e.op \in {"constant", "fact", "strict"},
           \A k \in 1 .. Len(Arguments(e)) : Alike(rs[k], ss[k])
    PROVE  Alike(Apply(e, i, g, rs), Apply(e, i, h, ss))
<1> DEFINE n == Len(Arguments(e))
<1>1. /\ n \in Nat
      /\ rs \in [1 .. n -> ResultOver(Anything)] /\ ss \in [1 .. n -> ResultOver(Anything)]
  <2>1. e.op \notin OnItems
    BY DEF OnItems
  <2> QED
    BY <2>1, PlainArguments
<1>2. \A k \in 1 .. n : Alike(rs[k], ss[k])
  OBVIOUS
<1>3. CASE e.op = "constant"
  <2>1. n = 0
    BY <1>3 DEF WellTyped
  <2>2. rs = ss
    BY <1>1, <2>1
  <2>3. Apply(e, i, g, rs) = Apply(e, i, h, ss)
    BY <1>3, <2>2 DEF Apply
  <2> QED
    BY <2>3 DEF Alike
<1>4. CASE e.op = "fact"
  <2>1. 1 \in 1 .. n
    BY <1>4 DEF Arguments
  <2>2. Apply(e, i, g, rs) = rs[1] /\ Apply(e, i, h, ss) = ss[1]
    BY <1>4 DEF Apply
  <2> QED
    BY <1>2, <2>1, <2>2
<1>5. CASE e.op = "strict"
  <2>1. /\ Apply(e, i, g, rs) = Strictly(Operation(e.name, Values(rs)), rs, TRUE)
        /\ Apply(e, i, h, ss) = Strictly(Operation(e.name, Values(ss)), ss, TRUE)
    BY <1>5 DEF Apply
  <2>2. rs = ss => Operation(e.name, Values(ss)) = Operation(e.name, Values(rs))
    OBVIOUS
  <2> HIDE DEF n
  <2> QED
    BY ONLY <1>1, <1>2, <2>1, <2>2, StrictlyAlike
<1> QED
  BY <1>3, <1>4, <1>5


LEMMA DecidingAlike ==
    ASSUME NEW e \in AllExpressions, WellTyped(e), NEW i, NEW g, NEW h,
           NEW rs, Typed(e, g, rs), NEW ss, Typed(e, h, ss), e.op \in {"any", "all"},
           NEW xs, DOMAIN xs = 1 .. Len(Arguments(e)), NEW E, Spared(Account(e, i, g, rs, xs), E),
           \A k \in 1 .. Len(Arguments(e)) : Spared(xs[k], E) => Alike(rs[k], ss[k])
    PROVE  Alike(Apply(e, i, g, rs), Apply(e, i, h, ss))
<1> DEFINE n == Len(Arguments(e))
<1>1. /\ n \in Nat
      /\ rs \in [1 .. n -> ResultOver(BOOLEAN)] /\ ss \in [1 .. n -> ResultOver(BOOLEAN)]
  BY ArgumentsAre, BooleanArguments
<1>2. DOMAIN xs = 1 .. n /\ \A k \in 1 .. n : Spared(xs[k], E) => Alike(rs[k], ss[k])
  OBVIOUS
<1>3. e.op = "any" => Account(e, i, g, rs, xs) = After(xs, Deciding(TRUE, rs, xs))
  BY DEF Account, OnItems
<1>4. e.op = "all" => Account(e, i, g, rs, xs) = After(xs, Deciding(FALSE, rs, xs))
  BY DEF Account, OnItems
<1> HIDE DEF n
<1>5. DOMAIN rs = 1 .. n
  BY <1>1
<1>6. CASE e.op = "any"
  <2> DEFINE k == First(Decisive(TRUE, rs))
  <2>1. IF Decisive(TRUE, rs) = {} THEN \A j \in 1 .. n : Spared(xs[j], E)
        ELSE rs[k] = Complete(TRUE) /\ Spared(xs[k], E)
    BY <1>1, <1>2, <1>3, <1>5, <1>6, DecidingSpared
  <2>2. Decisive(TRUE, rs) # {} => k \in 1 .. n
    BY <1>1, <1>5, FirstDecisive DEF Decisive
  <2>3. IF Decisive(TRUE, rs) = {} THEN \A j \in 1 .. n : Alike(rs[j], ss[j])
        ELSE rs[k] = Complete(TRUE) /\ Alike(rs[k], ss[k])
    BY <1>2, <2>1, <2>2
  <2>4. Alike(AnyOf(rs), AnyOf(ss))
    BY ONLY <1>1, <2>3, AnyOfAlike
  <2> QED
    BY <1>6, <2>4 DEF Apply
<1>7. CASE e.op = "all"
  <2> DEFINE k == First(Decisive(FALSE, rs))
  <2>1. IF Decisive(FALSE, rs) = {} THEN \A j \in 1 .. n : Spared(xs[j], E)
        ELSE rs[k] = Complete(FALSE) /\ Spared(xs[k], E)
    BY <1>1, <1>2, <1>4, <1>5, <1>7, DecidingSpared
  <2>2. Decisive(FALSE, rs) # {} => k \in 1 .. n
    BY <1>1, <1>5, FirstDecisive DEF Decisive
  <2>3. IF Decisive(FALSE, rs) = {} THEN \A j \in 1 .. n : Alike(rs[j], ss[j])
        ELSE rs[k] = Complete(FALSE) /\ Alike(rs[k], ss[k])
    BY <1>2, <2>1, <2>2
  <2>4. Alike(AllOf(rs), AllOf(ss))
    BY ONLY <1>1, <2>3, AllOfAlike
  <2> QED
    BY <1>7, <2>4 DEF Apply
<1> QED
  BY <1>6, <1>7

LEMMA ChoosingAlike ==
    ASSUME NEW e \in AllExpressions, WellTyped(e), NEW i, NEW g, NEW h,
           NEW rs, Typed(e, g, rs), NEW ss, Typed(e, h, ss), e.op \in {"switch", "options"},
           NEW xs, DOMAIN xs = 1 .. Len(Arguments(e)), Len(xs) = Len(Arguments(e)),
           NEW E, Spared(Account(e, i, g, rs, xs), E),
           \A k \in 1 .. Len(Arguments(e)) : Spared(xs[k], E) => Alike(rs[k], ss[k])
    PROVE  Alike(Apply(e, i, g, rs), Apply(e, i, h, ss))
<1>1. PICK m : m = Len(Arguments(e)) \div 2
  OBVIOUS
<1>2. /\ m \in Nat /\ Len(Arguments(e)) = 2 * m
      /\ \A k \in 1 .. m : k \in 1 .. 2 * m /\ m + k \in 1 .. 2 * m
      /\ Whens(rs) \in [1 .. m -> ResultOver(BOOLEAN)]
      /\ Thens(rs) \in [1 .. m -> ResultOver(Anything)]
      /\ \A k \in 1 .. m : Whens(rs)[k] = rs[k] /\ Thens(rs)[k] = rs[m + k]
  <2>1. e \in AllExpressions /\ WellTyped(e) /\ Typed(e, g, rs) /\ e.op \in {"switch", "options"}
    OBVIOUS
  <2> QED
    BY ONLY <1>1, <2>1, CaseArguments
<1>3. /\ Whens(ss) \in [1 .. m -> ResultOver(BOOLEAN)]
      /\ Thens(ss) \in [1 .. m -> ResultOver(Anything)]
      /\ \A k \in 1 .. m : Whens(ss)[k] = ss[k] /\ Thens(ss)[k] = ss[m + k]
  <2>1. e \in AllExpressions /\ WellTyped(e) /\ Typed(e, h, ss) /\ e.op \in {"switch", "options"}
    OBVIOUS
  <2> QED
    BY ONLY <1>1, <2>1, CaseArguments
<1>4. Whens(xs) = [k \in 1 .. m |-> xs[k]] /\ Thens(xs) = [k \in 1 .. m |-> xs[m + k]]
  BY <1>2, HalvesOf
<1>5. CASE e.op = "switch"
  <2>1. Account(e, i, g, rs, xs) = After(xs, Cases(Whens(rs), Whens(xs), Thens(xs)))
    BY <1>5 DEF Account, OnItems
  <2>2. /\ Spared(Cases(Whens(rs), Whens(xs), Thens(xs)), E)
        /\ \A k \in DOMAIN xs : xs[k] # Unexplained
    BY <2>1, AfterSpared
  <2>3. \A k \in 1 .. 2 * m : E \cap xs[k].facts = {} => Alike(rs[k], ss[k])
    BY <1>2, <2>2 DEF Spared
  <2>4. \A k \in 1 .. m : E \cap Whens(xs)[k].facts = {} => Alike(Whens(rs)[k], Whens(ss)[k])
    BY ONLY <1>2, <1>3, <1>4, <2>3
  <2>5. \A k \in 1 .. m : E \cap Thens(xs)[k].facts = {} => Alike(Thens(rs)[k], Thens(ss)[k])
    BY ONLY <1>2, <1>3, <1>4, <2>3
  <2>6. DOMAIN Whens(rs) = 1 .. m /\ DOMAIN Whens(xs) = 1 .. m
    BY <1>2, <1>4
  <2>7. CasesAlike(Whens(rs), Thens(rs), Whens(ss), Thens(ss))
    BY ONLY <1>2, <2>2, <2>4, <2>5, <2>6, CasesSpared
  <2>8. Alike(Switch(Whens(rs), Thens(rs)), Switch(Whens(ss), Thens(ss)))
    BY ONLY <1>2, <1>3, <2>7, SwitchAlike
  <2> QED
    BY <1>5, <2>8 DEF Apply
<1>6. CASE e.op = "options"
  <2>1. Account(e, i, g, rs, xs) = Of(xs)
    BY <1>6 DEF Account, OnItems
  <2>2. \A k \in 1 .. 2 * m : Alike(rs[k], ss[k])
    BY <1>2, <2>1, OfSpared
  <2>3. \A k \in 1 .. m : /\ Alike(Whens(rs)[k], Whens(ss)[k])
                          /\ Alike(Thens(rs)[k], Thens(ss)[k])
    BY <1>2, <1>3, <2>2
  <2>4. Alike(ConditionSet(Whens(rs), Thens(rs)), ConditionSet(Whens(ss), Thens(ss)))
    BY ONLY <1>2, <1>3, <2>3, ConditionSetAlike
  <2> QED
    BY <1>6, <2>4 DEF Apply
<1> QED
  BY <1>5, <1>6

LEMMA DefaultsAlike ==
    ASSUME NEW e \in AllExpressions, WellTyped(e), NEW i, NEW g, NEW h,
           NEW rs, Typed(e, g, rs), NEW ss, Typed(e, h, ss), e.op \in {"override", "placeholder"},
           NEW xs, DOMAIN xs = 1 .. Len(Arguments(e)), NEW E, Spared(Account(e, i, g, rs, xs), E),
           \A k \in 1 .. Len(Arguments(e)) : Spared(xs[k], E) => Alike(rs[k], ss[k])
    PROVE  Alike(Apply(e, i, g, rs), Apply(e, i, h, ss))
<1>1. CASE e.op = "override"
  <2>1. /\ Apply(e, i, g, rs) = Override(rs[1], rs[2], rs[3])
        /\ Apply(e, i, h, ss) = Override(ss[1], ss[2], ss[3])
    BY <1>1 DEF Apply
  <2>2. /\ Len(Arguments(e)) = 3
        /\ rs[1] \in ResultOver(Anything) /\ rs[2] \in ResultOver(BOOLEAN)
        /\ rs[3] \in ResultOver(Anything)
    BY <1>1, OverrideArguments
  <2>3. /\ ss[1] \in ResultOver(Anything) /\ ss[2] \in ResultOver(BOOLEAN)
        /\ ss[3] \in ResultOver(Anything)
    BY <1>1, OverrideArguments
  <2>4. Account(e, i, g, rs, xs) = After(xs, Of(<<xs[1], Overriding(rs, xs)>>))
    BY <1>1 DEF Account, OnItems
  <2>5. /\ Spared(Of(<<xs[1], Overriding(rs, xs)>>), E)
        /\ xs[1] # Unexplained /\ xs[2] # Unexplained /\ xs[3] # Unexplained
    BY <2>2, <2>4, AfterSpared
  <2>6. Spared(xs[1], E) /\ Spared(Overriding(rs, xs), E)
    <3>1. PICK ys : ys = <<xs[1], Overriding(rs, xs)>>
      OBVIOUS
    <3>2. 1 \in DOMAIN ys /\ 2 \in DOMAIN ys /\ ys[1] = xs[1] /\ ys[2] = Overriding(rs, xs)
      BY <3>1
    <3> QED
      BY <2>5, <3>1, <3>2, OfSpared
  <2>7. Alike(rs[1], ss[1])
    BY <2>2, <2>6
  <2> DEFINE whens == <<rs[2], Complete(TRUE)>>   thens == <<rs[3], rs[1]>>
             whens2 == <<ss[2], Complete(TRUE)>>  thens2 == <<ss[3], ss[1]>>
             whenXs == <<xs[2], Constant>>        thenXs == <<xs[3], xs[1]>>
  <2>8. \A k \in 1 .. 2 : E \cap whenXs[k].facts = {} => Alike(whens[k], whens2[k])
    <3>1. E \cap xs[2].facts = {} => Alike(rs[2], ss[2])
      BY <2>2, <2>5 DEF Spared
    <3>2. Alike(Complete(TRUE), Complete(TRUE))
      BY DEF Alike
    <3>3. whens[1] = rs[2] /\ whens2[1] = ss[2] /\ whenXs[1] = xs[2]
      OBVIOUS
    <3>4. whens[2] = Complete(TRUE) /\ whens2[2] = Complete(TRUE)
      OBVIOUS
    <3> HIDE DEF whens, whens2, whenXs
    <3>5. \A k \in 1 .. 2 : k = 1 \/ k = 2
      OBVIOUS
    <3> QED
      BY ONLY <3>1, <3>2, <3>3, <3>4, <3>5
  <2>9. \A k \in 1 .. 2 : E \cap thenXs[k].facts = {} => Alike(thens[k], thens2[k])
    <3>1. E \cap xs[3].facts = {} => Alike(rs[3], ss[3])
      BY <2>2, <2>5 DEF Spared
    <3> QED
      BY <2>7, <3>1
  <2>10. Spared(Cases(whens, whenXs, thenXs), E)
    BY <2>6 DEF Overriding
  <2>11. DOMAIN whens = 1 .. 2 /\ DOMAIN whenXs = 1 .. 2 /\ 2 \in Nat
    OBVIOUS
  <2>12. CasesAlike(whens, thens, whens2, thens2)
    <3> HIDE DEF whens, thens, whens2, thens2, whenXs, thenXs
    <3> QED
      BY ONLY <2>8, <2>9, <2>10, <2>11, CasesSpared
  <2> QED
    BY ONLY <2>1, <2>2, <2>3, <2>7, <2>12, OverrideAlike
<1>2. CASE e.op = "placeholder"
  <2>1. /\ Apply(e, i, g, rs) = OrDefault(rs[1], rs[2])
        /\ Apply(e, i, h, ss) = OrDefault(ss[1], ss[2])
    BY <1>2 DEF Apply
  <2>2. /\ Len(Arguments(e)) = 2
        /\ rs[1] \in ResultOver(Anything) /\ rs[2] \in ResultOver(Anything)
        /\ ss[1] \in ResultOver(Anything) /\ ss[2] \in ResultOver(Anything)
    BY <1>2, PlaceholderArguments
  <2>3. Account(e, i, g, rs, xs) = Of(<<xs[1]>>)
    BY <1>2 DEF Account, OnItems
  <2>4. Spared(xs[1], E)
    <3>1. 1 \in DOMAIN <<xs[1]>> /\ <<xs[1]>>[1] = xs[1]
      OBVIOUS
    <3> QED
      BY <2>3, <3>1, OfSpared
  <2>5. Alike(rs[1], ss[1])
    BY <2>2, <2>4
  <2> QED
    BY ONLY <2>1, <2>2, <2>5, OrDefaultAlike
<1> QED
  BY <1>1, <1>2

LEMMA EvaluationAlike ==
    ASSUME NEW g, Persisted(g), NEW h, Persisted(h), h.items = g.items, NEW s \in Site,
           ~provisional[s[1]],
           \A q \in Site : /\ Nest(q) < Nest(s) /\ ~provisional[q[1]]
                           /\ Spared(Explain(g)[q], Changed(g, h))
                           => Alike(Get(g)[q], Get(h)[q]),
           Spared(Explain(g)[s], Changed(g, h))
    PROVE  Alike(Get(g)[s], Get(h)[s])
<1>1. PICK rs : rs = Through(Get(g), Asked(s[1], s[2], g))
  OBVIOUS
<1>2. PICK ss : ss = Through(Get(h), Asked(s[1], s[2], h))
  OBVIOUS
<1>3. PICK xs : xs = Through(Explain(g), Asked(s[1], s[2], g))
  OBVIOUS
<1>4. PICK E : E = Changed(g, h)
  OBVIOUS
<1>5. HasItems(g) /\ HasItems(h)
  BY DEF Persisted, HasItems
<1>6. Get(g)[s] = Apply(s[1], s[2], g, rs) /\ Get(h)[s] = Apply(s[1], s[2], h, ss)
  BY <1>1, <1>2, <1>5, GetIs DEF Evaluated
<1>7. Explain(g)[s] = Account(s[1], s[2], g, rs, xs)
  BY <1>1, <1>3, <1>5, ExplainIs DEF Accounted
<1>8. Spared(Account(s[1], s[2], g, rs, xs), E)
  BY <1>4, <1>7
<1>9. Typed(s[1], g, rs) /\ Typed(s[1], h, ss)
  BY <1>1, <1>2, GetTyped
<1>10. s[1] \in AllExpressions /\ WellTyped(s[1])
  BY SiteIs
<1>11. /\ s[1].op \notin ProvisionalOps
       /\ \A k \in 1 .. Len(Arguments(s[1])) : ~provisional[Arguments(s[1])[k]]
  BY <1>10, SettledIs
<1>12. Elements(h) = Elements(g)
  BY DEF Elements
<1>13. CASE s[1].op \in OnItems
  <2>1. s[1].op # "find"
    BY <1>11 DEF ProvisionalOps
  <2>2. ~provisional[Arguments(s[1])[1]]
    BY <1>10, <1>11, <1>13, OneArgument
  <2>3. Account(s[1], s[2], g, rs, xs) = Of(xs)
    BY <1>13 DEF Account, OnItems
  <2>4. DOMAIN xs = 1 .. Len(Elements(g))
    <3>1. xs = [k \in 1 .. Len(Elements(g)) |-> Explain(g)[<<Arguments(s[1])[1], Elements(g)[k]>>]]
      BY <1>3, <1>5, <1>13, AskedOfItems
    <3> QED
      BY <3>1
  <2>5. ASSUME NEW k \in 1 .. Len(Elements(g)) PROVE Alike(rs[k], ss[k])
    <3>1. PICK q : q = <<Arguments(s[1])[1], Elements(g)[k]>>
      OBVIOUS
    <3>2. q \in Site /\ Nest(q) < Nest(s) /\ q[1] = Arguments(s[1])[1]
      BY <1>5, <1>13, <3>1, ItemRead
    <3>3. rs[k] = Get(g)[q] /\ xs[k] = Explain(g)[q]
      BY <1>1, <1>3, <1>5, <1>13, <3>1, ItemRead
    <3>4. ss[k] = Get(h)[q]
      <4>1. k \in 1 .. Len(Elements(h)) /\ q = <<Arguments(s[1])[1], Elements(h)[k]>>
        BY <1>12, <3>1
      <4>2. Through(Get(h), Asked(s[1], s[2], h))[k] = Get(h)[q]
        BY <1>5, <1>13, <4>1, ItemRead
      <4> QED
        BY <1>2, <4>2
    <3>5. Spared(xs[k], E)
      BY <1>8, <2>3, <2>4, OfSpared
    <3> QED
      BY <1>4, <2>2, <3>2, <3>3, <3>4, <3>5
  <2>6. Alike(Apply(s[1], s[2], g, rs), Apply(s[1], s[2], h, ss))
    BY <1>5, <1>9, <1>10, <1>13, <2>1, <2>5, CollectingAlike
  <2> QED
    BY <1>6, <2>6
<1>14. CASE s[1].op \notin OnItems
  <2>1. DOMAIN xs = 1 .. Len(Arguments(s[1])) /\ Len(xs) = Len(Arguments(s[1]))
    <3>1. xs = [k \in 1 .. Len(Arguments(s[1])) |-> Explain(g)[<<Arguments(s[1])[k], s[2]>>]]
      BY <1>3, <1>5, <1>14, AskedOfArguments
    <3>2. Len(Arguments(s[1])) \in Nat
      BY <1>10, ArgumentsAre
    <3> QED
      BY <3>1, <3>2
  <2>2. \A k \in 1 .. Len(Arguments(s[1])) : Spared(xs[k], E) => Alike(rs[k], ss[k])
    <3> TAKE k \in 1 .. Len(Arguments(s[1]))
    <3>1. PICK q : q = <<Arguments(s[1])[k], s[2]>>
      OBVIOUS
    <3>2. q \in Site /\ Nest(q) < Nest(s) /\ q[1] = Arguments(s[1])[k]
      BY <1>5, <1>14, <3>1, ArgumentRead
    <3>3. rs[k] = Get(g)[q] /\ xs[k] = Explain(g)[q]
      <4>1. \A f : Through(f, Asked(s[1], s[2], g))[k] = f[q]
        BY <1>5, <1>14, <3>1, ArgumentRead
      <4> QED
        BY <1>1, <1>3, <4>1
    <3>4. ss[k] = Get(h)[q]
      <4>1. \A f : Through(f, Asked(s[1], s[2], h))[k] = f[q]
        BY <1>5, <1>14, <3>1, ArgumentRead
      <4> QED
        BY <1>2, <4>1
    <3> QED
      BY <1>4, <1>11, <3>2, <3>3, <3>4
  <2>3. s[1].op \in {"constant", "fact", "strict"} \cup {"any", "all"} \cup {"switch", "options"}
                        \cup {"override", "placeholder"} \cup {"writable", "member"}
    BY <1>10, <1>11, <1>14 DEF WellTyped, ProvisionalOps, OnItems
  <2>4. Alike(Apply(s[1], s[2], g, rs), Apply(s[1], s[2], h, ss))
    <3>1. CASE s[1].op \in {"constant", "fact", "strict"}
      <4>1. \A k \in 1 .. Len(Arguments(s[1])) : Alike(rs[k], ss[k])
        <5>1. CASE s[1].op = "constant"
          <6>1. Len(Arguments(s[1])) = 0
            BY <1>10, <5>1 DEF WellTyped
          <6> QED
            BY <6>1
        <5>2. CASE s[1].op # "constant"
          <6>1. Account(s[1], s[2], g, rs, xs) = Of(xs)
            BY <3>1, <5>2 DEF Account, OnItems
          <6> QED
            BY <1>8, <2>1, <2>2, <6>1, OfSpared
        <5> QED
          BY <5>1, <5>2
      <4> QED
        BY ONLY <1>9, <1>10, <3>1, <4>1, ComputingAlike
    <3>2. CASE s[1].op \in {"any", "all"}
      BY ONLY <1>8, <1>9, <1>10, <2>1, <2>2, <3>2, DecidingAlike
    <3>3. CASE s[1].op \in {"switch", "options"}
      BY ONLY <1>8, <1>9, <1>10, <2>1, <2>2, <3>3, ChoosingAlike
    <3>4. CASE s[1].op \in {"override", "placeholder"}
      BY ONLY <1>8, <1>9, <1>10, <2>1, <2>2, <3>4, DefaultsAlike
    <3>5. CASE s[1].op \in {"writable", "member"}
      BY <1>4, <1>8, <3>5, ReadingAlike
    <3> QED
      BY <2>3, <3>1, <3>2, <3>3, <3>4, <3>5
  <2> QED
    BY <1>6, <2>4
<1> QED
  BY <1>13, <1>14

(* What an explanation does not name neither completes its fact nor        *)
(* changes it.                                                             *)
THEOREM UnnamedChangesNothing ==
    ASSUME NEW g, Persisted(g), NEW h, Persisted(h), h.items = g.items
    PROVE  \A s \in Site : ~provisional[s[1]] /\ Spared(Explain(g)[s], Changed(g, h))
                            => Alike(Get(g)[s], Get(h)[s])
<1> DEFINE Holds(s) == ~provisional[s[1]] /\ Spared(Explain(g)[s], Changed(g, h))
                            => Alike(Get(g)[s], Get(h)[s])
           S == {m \in Nat : \A s \in Site : Nest(s) = m => Holds(s)}
<1>1. ASSUME NEW n \in Nat, \A m \in 0 .. n - 1 : m \in S PROVE n \in S
  <2>1. ASSUME NEW s \in Site, Nest(s) = n PROVE Holds(s)
    <3>1. ASSUME NEW q \in Site, Nest(q) < Nest(s) PROVE Holds(q)
      <4>1. Nest(q) \in 0 .. n - 1
        BY <2>1, <3>1, SiteIs
      <4> QED
        BY <1>1, <3>1, <4>1
    <3> QED
      BY <3>1, EvaluationAlike
  <2> QED
    BY <2>1
<1>2. Nat \subseteq S
  <2> HIDE DEF S
  <2> QED
    BY <1>1, EveryNumber
<1> QED
  BY <1>2, SiteIs

(* The step property ExplainedOnly, as TLC checks it, for every            *)
(* dictionary: Explanation.scala:3-5 of all that rests on nothing          *)
(* provisional.                                                            *)
THEOREM ExplanationsNameAll == Spec => ExplainedOnly
<1> DEFINE Covered(d) == \/ Explanation(d, facts) = Unexplained
                         \/ Edited \cap Explanation(d, facts).facts # {}
                         \/ Raised \in {Result(d, facts), Result(d, facts')}
                         \/ ~IsFinal(Result(d, facts)) /\ ~IsFinal(Result(d, facts'))
                         \/ Result(d, facts) = Result(d, facts')
<1>1. ASSUME Persisted(facts), Persisted(facts)', facts'.items = facts.items, NEW d \in Settled
      PROVE  Covered(d)
  <2>1. Edited = Changed(facts, facts')
    BY DEF Edited, Changed
  <2>2. Persisted(facts')
    BY <1>1 DEF Persisted
  <2>3. PICK s \in Site : s = <<Expression[d], Unset>> /\ s[1] = Expression[d]
    BY ResultSite DEF Settled
  <2>4. ~provisional[s[1]]
    BY <2>3 DEF Settled
  <2>5. Spared(Explain(facts)[s], Changed(facts, facts')) => Alike(Get(facts)[s], Get(facts')[s])
    BY <1>1, <2>2, <2>4, UnnamedChangesNothing
  <2> QED
    BY <2>1, <2>3, <2>5 DEF Explanation, Result, Alike, Spared
<1>2. Persisted(facts) /\ Persisted(facts)' => (facts'.items = facts.items => \A d \in Settled : Covered(d))
  BY <1>1
<1> QED
  BY <1>2, AlwaysPersisted, PTL DEF ExplainedOnly

-----------------------------------------------------------------------------
(* Asking what to answer.                                                  *)

Calm(x) == x # Unexplained => ~x.throws

LEMMA ExplainedCalm ==
    ASSUME NEW lists,
           \A j \in DOMAIN lists : /\ DOMAIN lists[j] # {}
                                   /\ \A k \in DOMAIN lists[j] : ~lists[j][k].throws
    PROVE  ~Explained(lists).throws
  BY DEF Explained

LEMMA InclusiveCalm ==
    ASSUME NEW xs, DOMAIN xs # {}, \A k \in DOMAIN xs : ~xs[k].throws
    PROVE  ~Inclusive(xs).throws
<1>1. \A j \in DOMAIN <<xs>> : <<xs>>[j] = xs
  OBVIOUS
<1> QED
  BY <1>1, ExplainedCalm DEF Inclusive

LEMMA ExclusiveCalm ==
    ASSUME NEW xs, \A k \in DOMAIN xs : ~xs[k].throws
    PROVE  ~Exclusive(xs).throws
<1> DEFINE lists == [j \in DOMAIN xs |-> <<xs[j]>>]
<1>1. \A j \in DOMAIN lists : /\ DOMAIN lists[j] # {}
                              /\ \A k \in DOMAIN lists[j] : ~lists[j][k].throws
  <2> TAKE j \in DOMAIN lists
  <2>1. j \in DOMAIN xs /\ lists[j] = <<xs[j]>>
    OBVIOUS
  <2>2. DOMAIN <<xs[j]>> = {1} /\ <<xs[j]>>[1] = xs[j]
    OBVIOUS
  <2> HIDE DEF lists
  <2> QED
    BY <2>1, <2>2
<1>2. Exclusive(xs) = Explained(lists)
  BY DEF Exclusive
<1> HIDE DEF lists
<1> QED
  BY <1>1, <1>2, ExplainedCalm

LEMMA AfterCalm ==
    ASSUME NEW xs, NEW x, (\A k \in DOMAIN xs : xs[k] # Unexplained) => Calm(x)
    PROVE  Calm(After(xs, x))
  BY DEF Calm, After

LEMMA OfCalm ==
    ASSUME NEW xs, DOMAIN xs # {}, \A k \in DOMAIN xs : Calm(xs[k])
    PROVE  Calm(Of(xs))
<1>1. ASSUME \A k \in DOMAIN xs : xs[k] # Unexplained PROVE Calm(Inclusive(xs))
  BY <1>1, InclusiveCalm DEF Calm
<1> QED
  BY <1>1, AfterCalm DEF Of

LEMMA DecidingCalm ==
    ASSUME NEW v, NEW n \in Nat, NEW rs, DOMAIN rs = 1 .. n, NEW xs, DOMAIN xs = 1 .. n,
           \A k \in 1 .. n : ~xs[k].throws
    PROVE  Calm(Deciding(v, rs, xs))
<1> DEFINE k == First(Decisive(v, rs))
<1>1. Deciding(v, rs, xs) = IF Decisive(v, rs) = {} THEN Exclusive(xs)
                            ELSE IF rs[k] = Raised THEN Unexplained
                            ELSE Inclusive(<<xs[k]>>)
  BY DEF Deciding, Decisive
<1>2. ~Exclusive(xs).throws
  BY ExclusiveCalm
<1>3. Decisive(v, rs) # {} => k \in 1 .. n
  BY FirstDecisive DEF Decisive
<1> HIDE DEF k
<1>4. ASSUME k \in 1 .. n PROVE ~Inclusive(<<xs[k]>>).throws
  <2>1. DOMAIN <<xs[k]>> = {1} /\ <<xs[k]>>[1] = xs[k]
    OBVIOUS
  <2> QED
    BY <1>4, <2>1, InclusiveCalm
<1> QED
  BY <1>1, <1>2, <1>3, <1>4 DEF Calm

LEMMA CasesCalm ==
    ASSUME NEW n \in Nat, NEW whens, DOMAIN whens = 1 .. n,
           NEW whenXs, DOMAIN whenXs = 1 .. n, NEW thenXs,
           \A k \in 1 .. n : ~whenXs[k].throws /\ ~thenXs[k].throws
    PROVE  Calm(Cases(whens, whenXs, thenXs))
<1> DEFINE k     == First(Undecided(whens))
           last  == IF whens[k] = Complete(TRUE) THEN <<whenXs[k], thenXs[k]>> ELSE <<whenXs[k]>>
           lists == [j \in 1 .. k |-> IF j < k THEN <<whenXs[j]>> ELSE last]
<1>1. Cases(whens, whenXs, thenXs) =
            IF Undecided(whens) = {} THEN Exclusive(whenXs)
            ELSE IF whens[k] = Raised THEN Unexplained
            ELSE Explained(lists)
  BY DEF Cases, Undecided
<1>2. ~Exclusive(whenXs).throws
  BY ExclusiveCalm
<1>3. Undecided(whens) # {} => k \in 1 .. n
  BY FirstUndecided DEF Undecided
<1> HIDE DEF k
<1>4. ASSUME k \in 1 .. n PROVE ~Explained(lists).throws
  <2>1. \A j \in DOMAIN lists : /\ DOMAIN lists[j] # {}
                                /\ \A i \in DOMAIN lists[j] : ~lists[j][i].throws
    <3> TAKE j \in DOMAIN lists
    <3>1. j \in 1 .. n /\ j \in 1 .. k
      BY <1>4
    <3>2. lists[j] \in {<<whenXs[j]>>, <<whenXs[k], thenXs[k]>>, <<whenXs[k]>>}
      BY <3>1
    <3>3. ASSUME NEW x, ~x.throws PROVE DOMAIN <<x>> = {1} /\ ~<<x>>[1].throws
      BY <3>3
    <3>4. /\ DOMAIN <<whenXs[k], thenXs[k]>> = {1, 2}
          /\ <<whenXs[k], thenXs[k]>>[1] = whenXs[k] /\ <<whenXs[k], thenXs[k]>>[2] = thenXs[k]
      OBVIOUS
    <3> HIDE DEF lists
    <3> QED
      BY <1>4, <3>1, <3>2, <3>3, <3>4
  <2> HIDE DEF lists
  <2> QED
    BY <2>1, ExplainedCalm
<1> HIDE DEF lists
<1> QED
  BY <1>1, <1>2, <1>3, <1>4 DEF Calm

(* With something to look at, a list of children is never empty.           *)
LEMMA AccountCalm ==
    ASSUME NEW e \in AllExpressions, WellTyped(e), NEW i, NEW g, HasItems(g), Elements(g) # <<>>,
           NEW n, n = IF e.op \in OnItems THEN Len(Elements(g)) ELSE Len(Arguments(e)), n \in Nat,
           NEW rs, rs = [k \in 1 .. n |-> rs[k]], NEW xs, xs = [k \in 1 .. n |-> xs[k]],
           \A k \in 1 .. n : Calm(xs[k])
    PROVE  Calm(Account(e, i, g, rs, xs))
<1>1. DOMAIN rs = 1 .. n /\ DOMAIN xs = 1 .. n /\ Len(rs) = n /\ Len(xs) = n
  OBVIOUS
<1>2. CASE e.op \in {"constant", "writable", "member"}
  <2>1. Account(e, i, g, rs, xs).throws = FALSE
    <3>1. e.op = "constant" => Account(e, i, g, rs, xs) = Constant
      BY DEF Account, OnItems
    <3>2. e.op = "writable" =>
                Account(e, i, g, rs, xs) = Writable(<<e.path>>, g.saved[e.path] # Unset)
      BY DEF Account, OnItems
    <3>3. e.op = "member" =>
                Account(e, i, g, rs, xs) = Writable(<<i, e.path>>, g.members[<<i, e.path>>] # Unset)
      BY DEF Account, OnItems
    <3> QED
      BY <1>2, <3>1, <3>2, <3>3 DEF Constant, Writable
  <2> QED
    BY <2>1 DEF Calm
<1>3. CASE e.op \in OnItems \cup {"fact", "strict", "name", "options", "isComplete", "today"}
  <2>1. Account(e, i, g, rs, xs) = Of(xs)
    BY <1>3 DEF Account, OnItems
  <2>2. 1 \in 1 .. n
    <3>1. CASE e.op \in OnItems
      <4>1. Len(Elements(g)) # 0
        BY ElementsAre
      <4> QED
        BY <3>1, <4>1
    <3>2. CASE e.op \notin OnItems
      <4>1. Len(Arguments(e)) > 0
        <5>1. e.op = "fact" => Arguments(e) = <<Expression[e.path]>>
          BY DEF Arguments
        <5>2. e.op = "fact" => Len(Arguments(e)) = 1
          BY <5>1
        <5>3. e.op \in {"strict", "options"} => Len(Arguments(e)) > 0
          BY DEF WellTyped
        <5>4. e.op = "name" => Len(Arguments(e)) = 4
          BY DEF WellTyped
        <5>5. e.op \in {"isComplete", "today"} => Len(Arguments(e)) = 1
          BY DEF WellTyped
        <5> QED
          BY <1>3, <3>2, <5>2, <5>3, <5>4, <5>5
      <4> QED
        BY <3>2, <4>1
    <3> QED
      BY <3>1, <3>2
  <2> QED
    BY <1>1, <2>1, <2>2, OfCalm
<1>4. CASE e.op \in {"any", "all"}
  <2>1. \/ Account(e, i, g, rs, xs) = After(xs, Deciding(TRUE, rs, xs))
        \/ Account(e, i, g, rs, xs) = After(xs, Deciding(FALSE, rs, xs))
    BY <1>4 DEF Account, OnItems
  <2>2. ASSUME NEW v, \A k \in DOMAIN xs : xs[k] # Unexplained PROVE Calm(Deciding(v, rs, xs))
    <3>1. \A k \in 1 .. n : ~xs[k].throws
      BY <1>1, <2>2 DEF Calm
    <3> QED
      BY <1>1, <3>1, DecidingCalm
  <2> QED
    BY <2>1, <2>2, AfterCalm
<1>5. CASE e.op = "switch"
  <2>1. Account(e, i, g, rs, xs) = After(xs, Cases(Whens(rs), Whens(xs), Thens(xs)))
    BY <1>5 DEF Account, OnItems
  <2>2. PICK m \in Nat : n = 2 * m
    <3>1. PICK m : m = n \div 2
      OBVIOUS
    <3>2. n = 2 * m
      BY <1>5, <3>1 DEF WellTyped, OnItems
    <3>3. m \in Nat
      BY ONLY <3>1, n \in Nat
    <3> QED
      BY <3>2, <3>3
  <2>3. /\ Whens(rs) = [k \in 1 .. m |-> rs[k]]
        /\ Whens(xs) = [k \in 1 .. m |-> xs[k]] /\ Thens(xs) = [k \in 1 .. m |-> xs[m + k]]
    <3>1. Len(rs) = 2 * m /\ Len(xs) = 2 * m
      BY <1>1, <2>2
    <3> QED
      BY ONLY <2>2, <3>1, HalvesOf
  <2>4. ASSUME \A k \in DOMAIN xs : xs[k] # Unexplained
        PROVE  Calm(Cases(Whens(rs), Whens(xs), Thens(xs)))
    <3>1. \A k \in 1 .. n : ~xs[k].throws
      BY <1>1, <2>4 DEF Calm
    <3>2. \A k \in 1 .. m : k \in 1 .. n /\ m + k \in 1 .. n
      BY <2>2
    <3>3. \A k \in 1 .. m : ~Whens(xs)[k].throws /\ ~Thens(xs)[k].throws
      BY <2>3, <3>1, <3>2
    <3>4. DOMAIN Whens(rs) = 1 .. m /\ DOMAIN Whens(xs) = 1 .. m
      BY <2>3
    <3> QED
      BY ONLY <2>2, <3>3, <3>4, CasesCalm
  <2> QED
    BY <2>1, <2>4, AfterCalm
<1>6. CASE e.op = "override"
  <2>1. Account(e, i, g, rs, xs) = After(xs, Of(<<xs[1], Overriding(rs, xs)>>))
    BY <1>6 DEF Account, OnItems
  <2>2. n = 3
    BY <1>6 DEF WellTyped, OnItems
  <2>3. ASSUME \A k \in DOMAIN xs : xs[k] # Unexplained
        PROVE  Calm(Of(<<xs[1], Overriding(rs, xs)>>))
    <3> DEFINE CalmAt(k) == k \in DOMAIN xs /\ Calm(xs[k])
    <3>0. CalmAt(1) /\ CalmAt(2) /\ CalmAt(3)
      <4>1. 1 \in 1 .. 3 /\ 2 \in 1 .. 3 /\ 3 \in 1 .. 3
        OBVIOUS
      <4> QED
        BY <1>1, <2>2, <4>1
    <3>1. ~xs[1].throws /\ ~xs[2].throws /\ ~xs[3].throws
      BY <2>3, <3>0 DEF Calm
    <3> DEFINE whens  == <<rs[2], Complete(TRUE)>>
               whenXs == <<xs[2], Constant>>
               thenXs == <<xs[3], xs[1]>>
    <3>2. Calm(Cases(whens, whenXs, thenXs))
      <4>1. DOMAIN whens = 1 .. 2 /\ DOMAIN whenXs = 1 .. 2 /\ 2 \in Nat
        OBVIOUS
      <4>2. whenXs[1] = xs[2] /\ whenXs[2] = Constant /\ thenXs[1] = xs[3] /\ thenXs[2] = xs[1]
        OBVIOUS
      <4>3. ~Constant.throws
        BY DEF Constant
      <4> HIDE DEF whens, whenXs, thenXs
      <4>4. \A k \in 1 .. 2 : k = 1 \/ k = 2
        OBVIOUS
      <4>5. \A k \in 1 .. 2 : ~whenXs[k].throws /\ ~thenXs[k].throws
        BY <3>1, <4>2, <4>3, <4>4
      <4> QED
        BY ONLY <4>1, <4>5, CasesCalm
    <3>3. Calm(Overriding(rs, xs))
      BY <3>2 DEF Overriding
    <3>4. Calm(xs[1])
      BY <3>0
    <3> DEFINE ys == <<xs[1], Overriding(rs, xs)>>
    <3>5. DOMAIN ys = {1, 2} /\ ys[1] = xs[1] /\ ys[2] = Overriding(rs, xs)
      OBVIOUS
    <3> HIDE DEF ys, whens, whenXs, thenXs
    <3>6. Calm(Of(ys))
      BY <3>3, <3>4, <3>5, OfCalm
    <3> QED
      BY <3>6 DEF ys
  <2> QED
    BY <2>1, <2>3, AfterCalm
<1>7. CASE e.op = "placeholder"
  <2>1. Account(e, i, g, rs, xs) = Of(<<xs[1]>>)
    BY <1>7 DEF Account, OnItems
  <2>2. Calm(xs[1])
    <3>1. n = 2
      BY <1>7 DEF WellTyped, OnItems
    <3>2. 1 \in 1 .. n
      BY ONLY <3>1
    <3> QED
      BY <3>2
  <2>3. DOMAIN <<xs[1]>> = {1} /\ <<xs[1]>>[1] = xs[1]
    OBVIOUS
  <2> QED
    BY ONLY <2>1, <2>2, <2>3, OfCalm
<1>8. CASE e.op = "indexOf"
  <2> DEFINE w  == Writable(<<Collection>>, g.items # Unset)
             ys == <<Inclusive(<<w>>), xs[1]>>
  <2>1. Account(e, i, g, rs, xs) = Of(ys)
    BY <1>8 DEF Account, OnItems
  <2>2. Calm(xs[1])
    <3>1. n = 1
      BY <1>8 DEF WellTyped, OnItems
    <3>2. 1 \in 1 .. n
      BY ONLY <3>1
    <3> QED
      BY <3>2
  <2>3. ~w.throws
    BY DEF Writable
  <2>4. DOMAIN ys = {1, 2} /\ ys[1] = Inclusive(<<w>>) /\ ys[2] = xs[1]
    OBVIOUS
  <2> HIDE DEF w, ys
  <2>5. DOMAIN <<w>> = {1} /\ <<w>>[1] = w
    OBVIOUS
  <2>6. Calm(Inclusive(<<w>>))
    BY <2>3, <2>5, InclusiveCalm DEF Calm
  <2>7. DOMAIN ys # {} /\ \A k \in DOMAIN ys : Calm(ys[k])
    BY <2>2, <2>4, <2>6
  <2> QED
    BY <2>1, <2>7, OfCalm
<1> QED
  BY <1>2, <1>3, <1>4, <1>5, <1>6, <1>7, <1>8 DEF WellTyped, OnItems

(* With items in the collection, no explanation throws.                    *)
THEOREM ExplanationsAreCalm ==
    ASSUME NEW g, HasItems(g), Elements(g) # <<>>
    PROVE  \A s \in Site : Calm(Explain(g)[s])
<1> DEFINE S == {m \in Nat : \A s \in Site : Nest(s) = m => Calm(Explain(g)[s])}
<1>1. ASSUME NEW m \in Nat, \A j \in 0 .. m - 1 : j \in S PROVE m \in S
  <2>1. ASSUME NEW s \in Site, Nest(s) = m PROVE Calm(Explain(g)[s])
    <3>1. PICK n : n = IF s[1].op \in OnItems THEN Len(Elements(g)) ELSE Len(Arguments(s[1]))
      OBVIOUS
    <3>2. PICK q : q = Asked(s[1], s[2], g)
      OBVIOUS
    <3>3. /\ n \in Nat /\ DOMAIN q = 1 .. n
          /\ \A k \in 1 .. n : q[k] \in Site /\ Nest(q[k]) < Nest(s)
      BY <3>1, <3>2, AskedAre
    <3>4. PICK rs : rs = Through(Get(g), q)
      OBVIOUS
    <3>5. PICK xs : xs = Through(Explain(g), q)
      OBVIOUS
    <3>6. /\ rs = [k \in 1 .. n |-> Get(g)[q[k]]]
          /\ xs = [k \in 1 .. n |-> Explain(g)[q[k]]]
      BY <3>3, <3>4, <3>5, ThroughIs
    <3>7. rs = [k \in 1 .. n |-> rs[k]] /\ xs = [k \in 1 .. n |-> xs[k]]
      BY <3>6
    <3>8. \A k \in 1 .. n : Calm(xs[k])
      <4> TAKE k \in 1 .. n
      <4>1. Nest(q[k]) \in 0 .. m - 1
        BY <2>1, <3>3, SiteIs
      <4>2. Calm(Explain(g)[q[k]])
        BY <1>1, <3>3, <4>1
      <4> QED
        BY <3>6, <4>2
    <3>9. s[1] \in AllExpressions /\ WellTyped(s[1])
      BY SiteIs
    <3>10. Calm(Account(s[1], s[2], g, rs, xs))
      BY ONLY HasItems(g), Elements(g) # <<>>, <3>1, <3>3, <3>7, <3>8, <3>9, AccountCalm
    <3>11. Explain(g)[s] = Account(s[1], s[2], g, rs, xs)
      BY <3>2, <3>4, <3>5, ExplainIs DEF Accounted
    <3> QED
      BY <3>10, <3>11
  <2> QED
    BY <2>1
<1>2. Nat \subseteq S
  <2> HIDE DEF S
  <2> QED
    BY <1>1, EveryNumber
<1> QED
  BY <1>2, SiteIs

(* The invariant SolvesRaisesOnNoItems, as TLC checks it, for every        *)
(* dictionary: the reduction of Explanation.scala:81 finds no empty list   *)
(* but of the children of an operator on a collection without items.       *)
THEOREM SolvesOnlyRaisesOnNoItems == Spec => []SolvesRaisesOnNoItems
<1>1. Persisted(facts) => SolvesRaisesOnNoItems
  <2> SUFFICES ASSUME Persisted(facts), NEW d \in Derived, Elements(facts) # <<>>
               PROVE  Calm(Explanation(d, facts))
    BY DEF SolvesRaisesOnNoItems, Calm
  <2>1. HasItems(facts)
    BY DEF Persisted, HasItems
  <2> QED
    BY <2>1, ResultSite, ExplanationsAreCalm DEF Explanation
<1> QED
  BY <1>1, AlwaysPersisted, PTL
=============================================================================

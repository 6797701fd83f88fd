---------------------------- MODULE ResultsProofs ----------------------------
(***************************************************************************)
(* A complete result is definitive: what CompleteIsFinal checks of the     *)
(* facts of a small dictionary is proved here of each operator, for any    *)
(* number of arguments with any values.                                    *)
(***************************************************************************)
EXTENDS Results, Induction

ResultOver(V) ==
    {Complete(v) : v \in V} \cup {Placeholder(v) : v \in V} \cup {Incomplete, Raised}

(* Once more has been answered, s in place of r: a complete r is the same, *)
(* unless its evaluation now throws.                                       *)
Settles(r, s) == IsFinal(r) => s \in {r, Raised}

(* The first of some positions is one of them, and the least.              *)
LEMMA FirstIsLeast ==
    ASSUME NEW S \in SUBSET Nat, S # {}
    PROVE  First(S) \in S /\ \A j \in S : First(S) <= j
  BY LeastExists DEF First

(* The states of a result tell results apart.                              *)
LEMMA States ==
    ASSUME NEW V, NEW r \in ResultOver(V)
    PROVE  /\ IsFinal(r) <=> r = Complete(r.value) /\ r.value \in V
           /\ IsFinal(r) => HasValue(r) /\ r # Raised /\ r # Incomplete
           /\ HasValue(r) => r.value \in V /\ r # Raised /\ r # Incomplete
           /\ ~HasValue(r) => r \in {Raised, Incomplete}
  BY DEF ResultOver, IsFinal, HasValue, Complete, Placeholder, Incomplete, Raised

LEMMA NotFinal ==
    /\ ~IsFinal(Raised) /\ ~IsFinal(Incomplete)
    /\ \A v : ~IsFinal(Placeholder(v))
  BY DEF IsFinal, Placeholder, Incomplete, Raised

LEMMA FinalOf ==
    ASSUME NEW v, NEW c \in BOOLEAN, IsFinal(ResultOf(v, c))
    PROVE  c
  BY NotFinal DEF ResultOf

(* A fact with a default: as long as the default stands in for the source, *)
(* the result is a placeholder.                                            *)
THEOREM OrDefaultSettles ==
    ASSUME NEW V, NEW r \in ResultOver(V), NEW s \in ResultOver(V),
           NEW d \in ResultOver(V), NEW e \in ResultOver(V),
           Settles(r, s)
    PROVE  Settles(OrDefault(r, d), OrDefault(s, e))
  BY DEF Settles, OrDefault, AsPlaceholder, ResultOver, IsFinal, Complete, Placeholder, Incomplete, Raised

-----------------------------------------------------------------------------
(* The positions an operator looks for among its arguments.                *)
Missing(xs)     == {i \in DOMAIN xs : ~HasValue(xs[i])}
Decisive(v, xs) == {i \in DOMAIN xs : xs[i] \in {Complete(v), Raised}}

LEMMA FirstMissing ==
    ASSUME NEW n \in Nat, NEW xs, DOMAIN xs = 1 .. n, Missing(xs) # {}
    PROVE  First(Missing(xs)) \in Missing(xs)
<1>1. Missing(xs) \in SUBSET Nat
  BY DEF Missing
<1> QED
  BY <1>1, FirstIsLeast

LEMMA FirstDecisive ==
    ASSUME NEW n \in Nat, NEW xs, DOMAIN xs = 1 .. n, NEW v, Decisive(v, xs) # {}
    PROVE  First(Decisive(v, xs)) \in Decisive(v, xs)
<1>1. Decisive(v, xs) \in SUBSET Nat
  BY DEF Decisive
<1> QED
  BY <1>1, FirstIsLeast

(* A strict operator is complete only if all its arguments are.            *)
LEMMA StrictlyFinal ==
    ASSUME NEW V, NEW n \in Nat, NEW rs \in [1 .. n -> ResultOver(V)],
           NEW v, NEW c \in BOOLEAN, IsFinal(Strictly(v, rs, c))
    PROVE  /\ c /\ \A i \in 1 .. n : IsFinal(rs[i])
           /\ Strictly(v, rs, c) = Complete(v)
<1>1. Missing(rs) = {}
  <2> SUFFICES ASSUME Missing(rs) # {} PROVE FALSE
    OBVIOUS
  <2>1. First(Missing(rs)) \in Missing(rs)
    BY FirstMissing
  <2>2. Strictly(v, rs, c) = rs[First(Missing(rs))]
    BY DEF Strictly, Missing
  <2>3. First(Missing(rs)) \in 1 .. n /\ ~HasValue(rs[First(Missing(rs))])
    BY <2>1 DEF Missing
  <2> QED
    BY <2>2, <2>3, States
<1>2. Strictly(v, rs, c) = ResultOf(v, c /\ \A i \in 1 .. n : IsFinal(rs[i]))
  BY <1>1 DEF Strictly, Missing
<1> QED
  BY <1>2 DEF ResultOf, IsFinal, Placeholder

(* Strict operators, sums and counts: the value w is v again as long as    *)
(* the arguments are the same, and the vector they come in, once complete, *)
(* stays so.                                                               *)
THEOREM StrictlySettles ==
    ASSUME NEW V, NEW n \in Nat,
           NEW rs \in [1 .. n -> ResultOver(V)], NEW ss \in [1 .. n -> ResultOver(V)],
           \A i \in 1 .. n : Settles(rs[i], ss[i]),
           NEW v, NEW w, rs = ss => w = v,
           NEW c \in BOOLEAN, NEW d \in BOOLEAN, c => d
    PROVE  Settles(Strictly(v, rs, c), Strictly(w, ss, d))
<1> SUFFICES ASSUME IsFinal(Strictly(v, rs, c))
             PROVE  Strictly(w, ss, d) \in {Complete(v), Raised}
  BY StrictlyFinal DEF Settles
<1>1. c /\ \A i \in 1 .. n : IsFinal(rs[i])
  BY StrictlyFinal
<1>2. \A i \in 1 .. n : ss[i] \in {rs[i], Raised}
  BY <1>1 DEF Settles
<1>3. \A i \in 1 .. n : HasValue(rs[i])
  BY <1>1, States
<1>4. CASE Missing(ss) = {}
  <2>1. \A i \in 1 .. n : ss[i] = rs[i]
    BY <1>2, <1>4 DEF Missing, HasValue, Raised
  <2>2. rs = ss
    BY <2>1
  <2>3. Strictly(w, ss, d) = ResultOf(w, d /\ \A i \in 1 .. n : IsFinal(ss[i]))
    BY <1>4 DEF Strictly, Missing
  <2> QED
    BY <2>1, <2>2, <2>3, <1>1 DEF ResultOf
<1>5. CASE Missing(ss) # {}
  <2>1. First(Missing(ss)) \in Missing(ss)
    BY <1>5, FirstMissing
  <2>2. Strictly(w, ss, d) = ss[First(Missing(ss))]
    BY <1>5 DEF Strictly, Missing
  <2> QED
    BY <2>1, <2>2, <1>2, <1>3 DEF Missing
<1> QED
  BY <1>4, <1>5

(* Any: one complete true is enough, and is not taken back.                *)
THEOREM AnyOfSettles ==
    ASSUME NEW n \in Nat,
           NEW rs \in [1 .. n -> ResultOver(BOOLEAN)], NEW ss \in [1 .. n -> ResultOver(BOOLEAN)],
           \A i \in 1 .. n : Settles(rs[i], ss[i])
    PROVE  Settles(AnyOf(rs), AnyOf(ss))
<1> SUFFICES ASSUME IsFinal(AnyOf(rs)) PROVE AnyOf(ss) \in {AnyOf(rs), Raised}
  BY DEF Settles
<1>1. \A xs : Decisive(TRUE, xs) # {} => AnyOf(xs) = xs[First(Decisive(TRUE, xs))]
  BY DEF AnyOf, Decisive
<1>2. \A xs \in {rs, ss} : Decisive(TRUE, xs) # {} =>
        /\ First(Decisive(TRUE, xs)) \in 1 .. n
        /\ AnyOf(xs) = xs[First(Decisive(TRUE, xs))]
        /\ AnyOf(xs) \in {Complete(TRUE), Raised}
  BY <1>1, FirstDecisive DEF Decisive
<1>3. CASE Decisive(TRUE, rs) # {}
  <2>1. AnyOf(rs) = Complete(TRUE)
    BY <1>2, <1>3, NotFinal
  <2>2. PICK i \in 1 .. n : rs[i] = Complete(TRUE)
    BY <1>2, <1>3, <2>1
  <2>3. ss[i] \in {Complete(TRUE), Raised}
    BY <2>2 DEF Settles, IsFinal, Complete
  <2>4. Decisive(TRUE, ss) # {}
    BY <2>3 DEF Decisive
  <2> QED
    BY <1>2, <2>1, <2>4
<1>4. CASE Decisive(TRUE, rs) = {}
  <2>1. AnyOf(rs) = ResultOf(FALSE, \A i \in 1 .. n : IsFinal(rs[i]))
    BY <1>4, NotFinal DEF AnyOf, Decisive
  <2>2. \A i \in 1 .. n : IsFinal(rs[i])
    BY <2>1, FinalOf
  <2>3. \A i \in 1 .. n : ss[i] \in {rs[i], Raised}
    BY <2>2 DEF Settles
  <2>4. CASE Decisive(TRUE, ss) = {}
    <3>1. \A i \in 1 .. n : ss[i] = rs[i]
      BY <2>3, <2>4 DEF Decisive
    <3>2. rs = ss
      BY <3>1
    <3> QED
      BY <3>2
  <2>5. CASE Decisive(TRUE, ss) # {}
    <3>1. First(Decisive(TRUE, ss)) \in Decisive(TRUE, ss)
      BY <2>5, FirstDecisive
    <3>2. ss[First(Decisive(TRUE, ss))] = Raised
      BY <3>1, <1>4, <2>3 DEF Decisive
    <3> QED
      BY <3>2, <1>1, <2>5
  <2> QED
    BY <2>4, <2>5
<1> QED
  BY <1>3, <1>4

(* All: one complete false is enough, and is not taken back.               *)
THEOREM AllOfSettles ==
    ASSUME NEW n \in Nat,
           NEW rs \in [1 .. n -> ResultOver(BOOLEAN)], NEW ss \in [1 .. n -> ResultOver(BOOLEAN)],
           \A i \in 1 .. n : Settles(rs[i], ss[i])
    PROVE  Settles(AllOf(rs), AllOf(ss))
<1> DEFINE Holds(xs) == \A i \in DOMAIN xs : Values(xs)[i]
<1> SUFFICES ASSUME IsFinal(AllOf(rs)) PROVE AllOf(ss) \in {AllOf(rs), Raised}
  BY DEF Settles
<1>1. \A xs : Decisive(FALSE, xs) # {} => AllOf(xs) = xs[First(Decisive(FALSE, xs))]
  BY DEF AllOf, Decisive
<1>2. \A xs : Decisive(FALSE, xs) = {} => AllOf(xs) = Strictly(Holds(xs), xs, TRUE)
  BY DEF AllOf, Decisive
<1>3. \A xs \in {rs, ss} : Decisive(FALSE, xs) # {} =>
        /\ First(Decisive(FALSE, xs)) \in 1 .. n
        /\ AllOf(xs) = xs[First(Decisive(FALSE, xs))]
        /\ AllOf(xs) \in {Complete(FALSE), Raised}
  BY <1>1, FirstDecisive DEF Decisive
<1>4. CASE Decisive(FALSE, rs) # {}
  <2>1. AllOf(rs) = Complete(FALSE)
    BY <1>3, <1>4, NotFinal
  <2>2. PICK i \in 1 .. n : rs[i] = Complete(FALSE)
    BY <1>3, <1>4, <2>1
  <2>3. ss[i] \in {Complete(FALSE), Raised}
    BY <2>2 DEF Settles, IsFinal, Complete
  <2>4. Decisive(FALSE, ss) # {}
    BY <2>3 DEF Decisive
  <2> QED
    BY <1>3, <2>1, <2>4
<1>5. CASE Decisive(FALSE, rs) = {}
  <2>1. \A i \in 1 .. n : IsFinal(rs[i])
    <3>1. PICK v : AllOf(rs) = Strictly(v, rs, TRUE)
      BY <1>2, <1>5
    <3> QED
      BY <3>1, StrictlyFinal
  <2>2. \A i \in 1 .. n : ss[i] \in {rs[i], Raised}
    BY <2>1 DEF Settles
  <2>3. CASE Decisive(FALSE, ss) = {}
    <3>1. \A i \in 1 .. n : ss[i] = rs[i]
      BY <2>2, <2>3 DEF Decisive
    <3>2. rs = ss
      BY <3>1
    <3> QED
      BY <3>2
  <2>4. CASE Decisive(FALSE, ss) # {}
    <3>1. First(Decisive(FALSE, ss)) \in Decisive(FALSE, ss)
      BY <2>4, FirstDecisive
    <3>2. ss[First(Decisive(FALSE, ss))] = Raised
      BY <3>1, <1>5, <2>2 DEF Decisive
    <3> QED
      BY <3>2, <1>1, <2>4
  <2> QED
    BY <2>3, <2>4
<1> QED
  BY <1>4, <1>5

(* A switch: the conditions that were passed over stay false, and the one  *)
(* that was taken stays true.                                              *)
Taken(whens) ==
    {i \in DOMAIN whens : whens[i] = Raised \/ (HasValue(whens[i]) /\ whens[i].value)}

LEMMA FirstTaken ==
    ASSUME NEW n \in Nat, NEW xs, DOMAIN xs = 1 .. n, Taken(xs) # {}
    PROVE  First(Taken(xs)) \in Taken(xs) /\ \A j \in Taken(xs) : First(Taken(xs)) <= j
<1>1. Taken(xs) \in SUBSET Nat
  BY DEF Taken
<1> QED
  BY <1>1, FirstIsLeast

LEMMA SwitchTakes ==
    ASSUME NEW whens, NEW thens
    PROVE  LET i == First(Taken(whens)) IN
           /\ Taken(whens) = {} => Switch(whens, thens) = Incomplete
           /\ Taken(whens) # {} /\ whens[i] = Raised => Switch(whens, thens) = Raised
           /\ Taken(whens) # {} /\ whens[i] # Raised =>
                Switch(whens, thens) = IF \A j \in 1 .. i : IsFinal(whens[j])
                                       THEN thens[i] ELSE AsPlaceholder(thens[i])
  BY DEF Switch, Taken

THEOREM SwitchSettles ==
    ASSUME NEW V, NEW n \in Nat,
           NEW whens \in [1 .. n -> ResultOver(BOOLEAN)], NEW thens \in [1 .. n -> ResultOver(V)],
           NEW whens2 \in [1 .. n -> ResultOver(BOOLEAN)], NEW thens2 \in [1 .. n -> ResultOver(V)],
           \A i \in 1 .. n : Settles(whens[i], whens2[i]) /\ Settles(thens[i], thens2[i])
    PROVE  Settles(Switch(whens, thens), Switch(whens2, thens2))
<1> DEFINE i == First(Taken(whens))
           k == First(Taken(whens2))
<1> SUFFICES ASSUME IsFinal(Switch(whens, thens))
             PROVE  Switch(whens2, thens2) \in {Switch(whens, thens), Raised}
  BY DEF Settles
<1>1. Taken(whens) # {} /\ whens[i] # Raised
  BY SwitchTakes, NotFinal
<1>2. i \in Taken(whens) /\ \A j \in Taken(whens) : i <= j
  BY <1>1, FirstTaken
<1> HIDE DEF i
<1>3. i \in 1 .. n /\ 1 .. i \subseteq 1 .. n
  BY <1>2 DEF Taken
<1>4. ~IsFinal(AsPlaceholder(thens[i]))
  BY <1>3, NotFinal DEF AsPlaceholder
<1>5. (\A j \in 1 .. i : IsFinal(whens[j])) /\ Switch(whens, thens) = thens[i]
  BY <1>1, <1>4, SwitchTakes DEF i
<1>6. \A j \in 1 .. i : whens2[j] \in {whens[j], Raised}
  BY <1>3, <1>5 DEF Settles
<1>7. i \in Taken(whens2)
  BY <1>2, <1>3, <1>6 DEF Taken
<1>8. k \in Taken(whens2) /\ \A j \in Taken(whens2) : k <= j
  BY <1>7, FirstTaken
<1> HIDE DEF k
<1>9. k \in 1 .. i
  BY <1>3, <1>7, <1>8 DEF Taken
<1>10. CASE whens2[k] = Raised
  BY <1>7, <1>10, SwitchTakes DEF k
<1>11. CASE whens2[k] # Raised
  <2>1. k \in Taken(whens)
    BY <1>3, <1>6, <1>8, <1>9, <1>11 DEF Taken
  <2>2. k = i
    BY <1>2, <1>3, <1>9, <2>1
  <2>3. ASSUME NEW j \in 1 .. i PROVE IsFinal(whens2[j])
    <3>1. whens2[j] # Raised
      BY <1>3, <1>8, <1>11, <2>2 DEF Taken
    <3> QED
      BY <3>1, <1>5, <1>6
  <2>4. Switch(whens2, thens2) = thens2[i]
    BY <1>7, <1>11, <2>2, <2>3, SwitchTakes DEF k
  <2> QED
    BY <2>4, <1>3, <1>5 DEF Settles
<1> QED
  BY <1>10, <1>11

LEMMA Pairs ==
    ASSUME NEW S, NEW x \in S, NEW y \in S
    PROVE  <<x, y>> \in [1 .. 2 -> S] /\ <<x, y>>[1] = x /\ <<x, y>>[2] = y
<1>1. DOMAIN <<x, y>> = 1 .. 2 /\ <<x, y>>[1] = x /\ <<x, y>>[2] = y
  OBVIOUS
<1>2. \A i \in 1 .. 2 : i = 1 \/ i = 2
  OBVIOUS
<1>3. <<x, y>> = [i \in 1 .. 2 |-> <<x, y>>[i]]
  OBVIOUS
<1> QED
  BY <1>1, <1>2, <1>3

(* Override is a switch whose second case always holds.                    *)
THEOREM OverrideSettles ==
    ASSUME NEW V,
           NEW s \in ResultOver(V), NEW s2 \in ResultOver(V), Settles(s, s2),
           NEW b \in ResultOver(BOOLEAN), NEW b2 \in ResultOver(BOOLEAN), Settles(b, b2),
           NEW d \in ResultOver(V), NEW d2 \in ResultOver(V), Settles(d, d2)
    PROVE  Settles(Override(s, b, d), Override(s2, b2, d2))
<1> DEFINE Whens(x)    == <<x, Complete(TRUE)>>
           Thens(x, y) == <<x, y>>
<1>1. Complete(TRUE) \in ResultOver(BOOLEAN)
  BY DEF ResultOver
<1>2. /\ Whens(b) \in [1 .. 2 -> ResultOver(BOOLEAN)]
      /\ Whens(b2) \in [1 .. 2 -> ResultOver(BOOLEAN)]
      /\ Thens(d, s) \in [1 .. 2 -> ResultOver(V)]
      /\ Thens(d2, s2) \in [1 .. 2 -> ResultOver(V)]
  BY <1>1, Pairs
<1>3. \A i \in 1 .. 2 : /\ Settles(Whens(b)[i], Whens(b2)[i])
                        /\ Settles(Thens(d, s)[i], Thens(d2, s2)[i])
  <2>1. \A i \in 1 .. 2 : i = 1 \/ i = 2
    OBVIOUS
  <2>2. Settles(Complete(TRUE), Complete(TRUE))
    BY DEF Settles
  <2>3. Settles(Whens(b)[1], Whens(b2)[1]) /\ Settles(Whens(b)[2], Whens(b2)[2])
    BY <2>2, <1>1, Pairs
  <2>4. Settles(Thens(d, s)[1], Thens(d2, s2)[1]) /\ Settles(Thens(d, s)[2], Thens(d2, s2)[2])
    BY Pairs
  <2> HIDE DEF Whens, Thens
  <2> QED
    BY <2>1, <2>3, <2>4
<1>4. Settles(Switch(Whens(b), Thens(d, s)), Switch(Whens(b2), Thens(d2, s2)))
  <2> HIDE DEF Whens, Thens
  <2> QED
    BY <1>2, <1>3, SwitchSettles
<1> QED
  BY <1>4, NotFinal DEF Override, Settles

-----------------------------------------------------------------------------
(* Operators on vectors that are complete only as a whole.                 *)

Raises(rs) == \E i \in DOMAIN rs : rs[i] = Raised

Kept(items, rs) == [k \in DOMAIN Held(rs) |-> items[Held(rs)[k]]]

LEMMA FilterIs ==
    ASSUME NEW items, NEW rs, NEW c
    PROVE  FilterIn(items, rs, c) =
                IF Raises(rs) THEN Raised
                ELSE ResultOf(Kept(items, rs), c /\ \A i \in DOMAIN rs : IsFinal(rs[i]))
  BY DEF FilterIn, Kept, Raises

(* Of settled results, either all are what they were or one throws.        *)
LEMMA SameOrRaises ==
    ASSUME NEW V, NEW n \in Nat,
           NEW rs \in [1 .. n -> ResultOver(V)], NEW ss \in [1 .. n -> ResultOver(V)],
           \A i \in 1 .. n : Settles(rs[i], ss[i]) /\ IsFinal(rs[i])
    PROVE  Raises(ss) \/ ss = rs
  BY DEF Settles, Raises

(* Filter: its items do not change once every condition is complete.       *)
THEOREM FilterSettles ==
    ASSUME NEW n \in Nat, NEW items,
           NEW rs \in [1 .. n -> ResultOver(BOOLEAN)], NEW ss \in [1 .. n -> ResultOver(BOOLEAN)],
           \A i \in 1 .. n : Settles(rs[i], ss[i]),
           NEW c \in BOOLEAN, NEW d \in BOOLEAN, c => d
    PROVE  Settles(FilterIn(items, rs, c), FilterIn(items, ss, d))
<1> SUFFICES ASSUME IsFinal(FilterIn(items, rs, c))
             PROVE  FilterIn(items, ss, d) \in {FilterIn(items, rs, c), Raised}
  BY DEF Settles
<1>1. ~Raises(rs)
  BY FilterIs, NotFinal
<1>2. FilterIn(items, rs, c) = ResultOf(Kept(items, rs), c /\ \A i \in 1 .. n : IsFinal(rs[i]))
  BY <1>1, FilterIs
<1>3. c /\ \A i \in 1 .. n : IsFinal(rs[i])
  BY <1>2, NotFinal DEF ResultOf
<1>4. CASE Raises(ss)
  BY <1>4, FilterIs
<1>5. CASE ss = rs
  BY <1>1, <1>2, <1>3, <1>5, FilterIs
<1> QED
  BY <1>3, <1>4, <1>5, SameOrRaises

LEMMA MaximumIs ==
    ASSUME NEW V, NEW n \in Nat, NEW rs \in [1 .. n -> ResultOver(V)],
           n > 0, rs[1] # Incomplete
    PROVE  MaximumOf(rs) =
                Strictly(CHOOSE v \in {rs[i].value : i \in DOMAIN rs} :
                            \A w \in {rs[i].value : i \in DOMAIN rs} : v >= w, rs, TRUE)
<1>1. rs # <<>>
  OBVIOUS
<1> QED
  BY <1>1 DEF MaximumOf

LEMMA MaximumFinal ==
    ASSUME NEW V, NEW n \in Nat, NEW rs \in [1 .. n -> ResultOver(V)], IsFinal(MaximumOf(rs))
    PROVE  n > 0 /\ rs[1] # Incomplete
<1>1. rs # <<>>
  BY NotFinal DEF MaximumOf
<1>2. n > 0
  BY <1>1
<1>3. ASSUME rs[1] = Incomplete PROVE FALSE
  <2>1. Len(rs) = n
    OBVIOUS
  <2>2. CASE n > 1
    <3>1. ~HasValue(rs[2]) => ~IsFinal(rs[2])
      BY DEF HasValue, IsFinal
    <3>2. MaximumOf(rs) = IF HasValue(rs[2]) THEN Raised ELSE rs[2]
      BY <1>1, <1>3, <2>1, <2>2 DEF MaximumOf
    <3> QED
      BY <3>1, <3>2, NotFinal
  <2>3. CASE n = 1
    <3>1. MaximumOf(rs) =
                Strictly(CHOOSE v \in {rs[i].value : i \in DOMAIN rs} :
                            \A w \in {rs[i].value : i \in DOMAIN rs} : v >= w, rs, TRUE)
      BY <1>1, <2>1, <2>3 DEF MaximumOf
    <3>2. \A i \in 1 .. n : IsFinal(rs[i])
      BY <3>1, StrictlyFinal
    <3> QED
      BY <1>2, <1>3, <3>2, NotFinal
  <2> QED
    BY <1>2, <2>2, <2>3
<1> QED
  BY <1>2, <1>3

(* Maximum: although it throws over a first element without a value, a     *)
(* complete maximum is not taken back.                                     *)
THEOREM MaximumSettles ==
    ASSUME NEW V, NEW n \in Nat,
           NEW rs \in [1 .. n -> ResultOver(V)], NEW ss \in [1 .. n -> ResultOver(V)],
           \A i \in 1 .. n : Settles(rs[i], ss[i])
    PROVE  Settles(MaximumOf(rs), MaximumOf(ss))
<1> SUFFICES ASSUME IsFinal(MaximumOf(rs))
             PROVE  MaximumOf(ss) \in {MaximumOf(rs), Raised}
  BY DEF Settles
<1> DEFINE Largest(xs) == CHOOSE v \in {xs[i].value : i \in DOMAIN xs} :
                            \A w \in {xs[i].value : i \in DOMAIN xs} : v >= w
<1>1. n > 0 /\ rs[1] # Incomplete
  BY MaximumFinal
<1>2. MaximumOf(rs) = Strictly(Largest(rs), rs, TRUE)
  BY <1>1, MaximumIs
<1>3. \A i \in 1 .. n : IsFinal(rs[i])
  <2> HIDE DEF Largest
  <2> QED
    BY <1>2, StrictlyFinal
<1>4. ss[1] # Incomplete
  BY <1>1, <1>3, NotFinal DEF Settles, Incomplete, Raised
<1>5. MaximumOf(ss) = Strictly(Largest(ss), ss, TRUE)
  BY <1>1, <1>4, MaximumIs
<1>6. rs = ss => Largest(ss) = Largest(rs)
  OBVIOUS
<1>7. Settles(Strictly(Largest(rs), rs, TRUE), Strictly(Largest(ss), ss, TRUE))
  <2> HIDE DEF Largest
  <2> QED
    BY <1>6, StrictlySettles
<1> HIDE DEF Largest
<1> QED
  BY <1>2, <1>5, <1>7 DEF Settles

Open(whens, thens) == {k \in DOMAIN whens : ~IsFinal(whens[k]) \/ ~IsFinal(thens[k])}

Offered(whens, thens) == [j \in DOMAIN Held(whens) |-> thens[Held(whens)[j]].value]

LEMMA ConditionSetIs ==
    ASSUME NEW whens, NEW thens
    PROVE  ConditionSet(whens, thens) =
                LET k == First(Open(whens, thens))
                IN  IF Open(whens, thens) = {} THEN Complete(Offered(whens, thens))
                    ELSE IF whens[k] = Raised \/ (IsFinal(whens[k]) /\ thens[k] = Raised) THEN Raised
                    ELSE Incomplete
  BY DEF ConditionSet, Open, Offered

LEMMA FirstOpen ==
    ASSUME NEW n \in Nat, NEW whens, DOMAIN whens = 1 .. n, NEW thens, Open(whens, thens) # {}
    PROVE  First(Open(whens, thens)) \in Open(whens, thens)
<1>1. Open(whens, thens) \in SUBSET Nat
  BY DEF Open
<1> QED
  BY <1>1, FirstIsLeast

(* The options of an enum: they are complete only when every condition and *)
(* every name is, and are not taken back.                                  *)
THEOREM ConditionSetSettles ==
    ASSUME NEW V, NEW n \in Nat,
           NEW whens \in [1 .. n -> ResultOver(BOOLEAN)], NEW thens \in [1 .. n -> ResultOver(V)],
           NEW whens2 \in [1 .. n -> ResultOver(BOOLEAN)], NEW thens2 \in [1 .. n -> ResultOver(V)],
           \A i \in 1 .. n : Settles(whens[i], whens2[i]) /\ Settles(thens[i], thens2[i])
    PROVE  Settles(ConditionSet(whens, thens), ConditionSet(whens2, thens2))
<1> SUFFICES ASSUME IsFinal(ConditionSet(whens, thens))
             PROVE  ConditionSet(whens2, thens2) \in {ConditionSet(whens, thens), Raised}
  BY DEF Settles
<1>1. Open(whens, thens) = {}
  BY ConditionSetIs, NotFinal
<1>2. ConditionSet(whens, thens) = Complete(Offered(whens, thens))
  BY <1>1, ConditionSetIs
<1>3. \A i \in 1 .. n : IsFinal(whens[i]) /\ IsFinal(thens[i])
  BY <1>1 DEF Open
<1>4. \A i \in 1 .. n : whens2[i] \in {whens[i], Raised} /\ thens2[i] \in {thens[i], Raised}
  BY <1>3 DEF Settles
<1>5. CASE Open(whens2, thens2) = {}
  <2>1. \A i \in 1 .. n : IsFinal(whens2[i]) /\ IsFinal(thens2[i])
    BY <1>5 DEF Open
  <2>2. whens2 = whens /\ thens2 = thens
    BY <1>4, <2>1, NotFinal
  <2> QED
    BY <2>2
<1>6. CASE Open(whens2, thens2) # {}
  <2> DEFINE k == First(Open(whens2, thens2))
  <2>1. k \in Open(whens2, thens2)
    BY <1>6, FirstOpen
  <2>2. k \in 1 .. n /\ (~IsFinal(whens2[k]) \/ ~IsFinal(thens2[k]))
    BY <2>1 DEF Open
  <2>3. whens2[k] = Raised \/ (IsFinal(whens2[k]) /\ thens2[k] = Raised)
    BY <1>3, <1>4, <2>2
  <2> HIDE DEF k
  <2>4. ConditionSet(whens2, thens2) = Raised
    BY <1>6, <2>3, ConditionSetIs DEF k
  <2> QED
    BY <2>4
<1> QED
  BY <1>5, <1>6

-----------------------------------------------------------------------------
(* The values of results: if those of its arguments are of the types an    *)
(* operator is written for, its own are of its type.                       *)

LEMMA ResultsAre ==
    ASSUME NEW V
    PROVE  /\ \A v \in V : Complete(v) \in ResultOver(V) /\ Placeholder(v) \in ResultOver(V)
           /\ Incomplete \in ResultOver(V) /\ Raised \in ResultOver(V)
           /\ \A v \in V, c \in BOOLEAN : ResultOf(v, c) \in ResultOver(V)
           /\ \A r \in ResultOver(V) : AsPlaceholder(r) \in ResultOver(V)
  BY States DEF ResultOver, ResultOf, AsPlaceholder

LEMMA WiderResults ==
    ASSUME NEW V, NEW W, V \subseteq W
    PROVE  ResultOver(V) \subseteq ResultOver(W)
  BY DEF ResultOver

LEMMA StrictlyTyped ==
    ASSUME NEW V, NEW W, NEW n \in Nat, NEW rs \in [1 .. n -> ResultOver(V)], NEW c \in BOOLEAN,
           NEW v, Missing(rs) = {} => v \in W
    PROVE  Strictly(v, rs, c) \in ResultOver(W)
<1>1. CASE Missing(rs) = {}
  <2>1. Strictly(v, rs, c) = ResultOf(v, c /\ \A i \in DOMAIN rs : IsFinal(rs[i]))
    BY <1>1 DEF Strictly, Missing
  <2>2. (c /\ \A i \in DOMAIN rs : IsFinal(rs[i])) \in BOOLEAN
    OBVIOUS
  <2> QED
    BY <1>1, <2>1, <2>2, ResultsAre
<1>2. CASE Missing(rs) # {}
  <2>1. First(Missing(rs)) \in Missing(rs)
    BY <1>2, FirstMissing
  <2>2. Strictly(v, rs, c) = rs[First(Missing(rs))]
    BY <1>2 DEF Strictly, Missing
  <2>3. Strictly(v, rs, c) \in {Raised, Incomplete}
    BY <2>1, <2>2, States DEF Missing
  <2> QED
    BY <2>3, ResultsAre
<1> QED
  BY <1>1, <1>2

LEMMA AnyOfTyped ==
    ASSUME NEW n \in Nat, NEW rs \in [1 .. n -> ResultOver(BOOLEAN)]
    PROVE  AnyOf(rs) \in ResultOver(BOOLEAN)
<1>1. CASE Decisive(TRUE, rs) # {}
  <2>1. First(Decisive(TRUE, rs)) \in 1 .. n
    BY <1>1, FirstDecisive DEF Decisive
  <2>2. AnyOf(rs) = rs[First(Decisive(TRUE, rs))]
    BY <1>1 DEF AnyOf, Decisive
  <2> QED
    BY <2>1, <2>2
<1>2. CASE Decisive(TRUE, rs) = {}
  <2>1. AnyOf(rs) \in {Placeholder(TRUE), Incomplete, ResultOf(FALSE, \A i \in DOMAIN rs : IsFinal(rs[i]))}
    BY <1>2 DEF AnyOf, Decisive
  <2>2. ResultOf(FALSE, \A i \in DOMAIN rs : IsFinal(rs[i])) \in ResultOver(BOOLEAN)
    BY ResultsAre
  <2> QED
    BY <2>1, <2>2, ResultsAre
<1> QED
  BY <1>1, <1>2

LEMMA AllOfTyped ==
    ASSUME NEW n \in Nat, NEW rs \in [1 .. n -> ResultOver(BOOLEAN)]
    PROVE  AllOf(rs) \in ResultOver(BOOLEAN)
<1> DEFINE holds == \A i \in DOMAIN rs : Values(rs)[i]
<1>1. CASE Decisive(FALSE, rs) # {}
  <2>1. First(Decisive(FALSE, rs)) \in 1 .. n
    BY <1>1, FirstDecisive DEF Decisive
  <2>2. AllOf(rs) = rs[First(Decisive(FALSE, rs))]
    BY <1>1 DEF AllOf, Decisive
  <2> QED
    BY <2>1, <2>2
<1>2. CASE Decisive(FALSE, rs) = {}
  <2>1. AllOf(rs) = Strictly(holds, rs, TRUE)
    BY <1>2 DEF AllOf, Decisive
  <2>2. holds \in BOOLEAN
    OBVIOUS
  <2>3. \A b \in BOOLEAN : Strictly(b, rs, TRUE) \in ResultOver(BOOLEAN)
    BY StrictlyTyped
  <2> HIDE DEF holds
  <2> QED
    BY ONLY <2>1, <2>2, <2>3
<1> QED
  BY <1>1, <1>2

LEMMA SwitchTyped ==
    ASSUME NEW V, NEW n \in Nat, NEW whens \in [1 .. n -> ResultOver(BOOLEAN)],
           NEW thens \in [1 .. n -> ResultOver(V)]
    PROVE  Switch(whens, thens) \in ResultOver(V)
<1> DEFINE i == First(Taken(whens))
<1>1. CASE Taken(whens) = {}
  BY <1>1, SwitchTakes, ResultsAre
<1>2. CASE Taken(whens) # {}
  <2>1. i \in 1 .. n
    BY <1>2, FirstTaken DEF Taken
  <2>2. Switch(whens, thens) \in {Raised, thens[i], AsPlaceholder(thens[i])}
    BY <1>2, SwitchTakes
  <2> HIDE DEF i
  <2> QED
    BY <2>1, <2>2, ResultsAre
<1> QED
  BY <1>1, <1>2

LEMMA OverrideTyped ==
    ASSUME NEW V, NEW s \in ResultOver(V), NEW b \in ResultOver(BOOLEAN), NEW d \in ResultOver(V)
    PROVE  Override(s, b, d) \in ResultOver(V)
<1>1. Complete(TRUE) \in ResultOver(BOOLEAN)
  BY DEF ResultOver
<1>2. Switch(<<b, Complete(TRUE)>>, <<d, s>>) \in ResultOver(V)
  BY <1>1, Pairs, SwitchTyped
<1> QED
  BY <1>2 DEF Override

LEMMA OrDefaultTyped ==
    ASSUME NEW V, NEW s \in ResultOver(V), NEW d \in ResultOver(V)
    PROVE  OrDefault(s, d) \in ResultOver(V)
  BY ResultsAre DEF OrDefault

(* Held goes through the positions: f[k] is what it takes of the first k.  *)
Selects(rs, n, f) ==
    f = [k \in 0 .. n |->
            IF k = 0 THEN <<>>
            ELSE IF HasValue(rs[k]) /\ rs[k].value THEN Append(f[k - 1], k)
            ELSE f[k - 1]]

SelectsTo(rs, f, k) ==
    f[k] = IF k = 0 THEN <<>>
           ELSE IF HasValue(rs[k]) /\ rs[k].value THEN Append(f[k - 1], k)
           ELSE f[k - 1]

LEMMA SelectsIs ==
    ASSUME NEW rs, NEW m \in Nat, NEW f
    PROVE  Selects(rs, m, f) <=>
                /\ f = [k \in 0 .. m |-> f[k]]
                /\ \A k \in 0 .. m : SelectsTo(rs, f, k)
  BY DEF Selects, SelectsTo

LEMMA SelectionExists ==
    ASSUME NEW rs, NEW n \in Nat
    PROVE  \E f : Selects(rs, n, f)
<1> DEFINE S == {m \in Nat : m <= n => \E f : Selects(rs, m, f)}
<1>1. 0 \in S
  <2> DEFINE f == [k \in 0 .. 0 |-> <<>>]
  <2>1. f = [k \in 0 .. 0 |-> f[k]] /\ \A k \in 0 .. 0 : SelectsTo(rs, f, k)
    BY DEF SelectsTo
  <2> QED
    BY <2>1, SelectsIs
<1>2. ASSUME NEW m \in Nat, m \in S PROVE m + 1 \in S
  <2> SUFFICES ASSUME m + 1 <= n PROVE \E f : Selects(rs, m + 1, f)
    OBVIOUS
  <2>1. PICK f : Selects(rs, m, f)
    BY <1>2
  <2>2. \A k \in 0 .. m : SelectsTo(rs, f, k)
    BY <2>1, SelectsIs
  <2> DEFINE last == IF HasValue(rs[m + 1]) /\ rs[m + 1].value
                     THEN Append(f[m], m + 1) ELSE f[m]
             g    == [k \in 0 .. m + 1 |-> IF k = m + 1 THEN last ELSE f[k]]
  <2>3. g[m + 1] = last /\ \A k \in 0 .. m : g[k] = f[k]
    OBVIOUS
  <2>4. ASSUME NEW k \in 0 .. m + 1 PROVE SelectsTo(rs, g, k)
    <3>1. CASE k = m + 1
      BY <2>3, <3>1 DEF SelectsTo
    <3>2. CASE k \in 0 .. m
      <4>1. k # 0 => k - 1 \in 0 .. m
        BY <3>2
      <4> HIDE DEF g
      <4> QED
        BY <2>2, <2>3, <3>2, <4>1 DEF SelectsTo
    <3> QED
      BY <3>1, <3>2
  <2>5. g = [k \in 0 .. m + 1 |-> g[k]]
    OBVIOUS
  <2> HIDE DEF g
  <2>6. Selects(rs, m + 1, g)
    BY <2>4, <2>5, SelectsIs
  <2> QED
    BY <2>6
<1>3. n \in S
  <2> HIDE DEF S
  <2> QED
    BY <1>1, <1>2, NumberAfterNumber
<1> QED
  BY <1>3

(* Held gives positions that hold, in order.                               *)
LEMMA HeldIs ==
    ASSUME NEW V, NEW n \in Nat, NEW rs \in [1 .. n -> V]
    PROVE  /\ Held(rs) \in Seq(1 .. n)
           /\ Len(Held(rs)) <= n
           /\ \A j, k \in DOMAIN Held(rs) : j < k => Held(rs)[j] < Held(rs)[k]
<1> DEFINE f == CHOOSE f : Selects(rs, n, f)
<1>1. Held(rs) = f[n]
  <2>1. Len(rs) = n
    OBVIOUS
  <2> QED
    BY <2>1 DEF Held, Selects
<1>2. Selects(rs, n, f)
  BY SelectionExists
<1> HIDE DEF f
<1>3. \A k \in 0 .. n : SelectsTo(rs, f, k)
  BY <1>2, SelectsIs
<1> DEFINE Good(k) == /\ f[k] \in Seq(1 .. k)
                      /\ Len(f[k]) <= k
                      /\ \A i, j \in 1 .. Len(f[k]) : i < j => f[k][i] < f[k][j]
           S == {k \in Nat : k <= n => Good(k)}
<1>4. 0 \in S
  <2>1. f[0] = <<>>
    BY <1>3 DEF SelectsTo
  <2>2. f[0] \in Seq(1 .. 0) /\ Len(f[0]) <= 0
    BY <2>1
  <2>3. \A i, j \in 1 .. Len(f[0]) : i < j => f[0][i] < f[0][j]
    BY <2>2
  <2> QED
    BY <2>2, <2>3
<1>5. ASSUME NEW k \in Nat, k \in S PROVE k + 1 \in S
  <2> SUFFICES ASSUME k + 1 <= n PROVE Good(k + 1)
    OBVIOUS
  <2>1. Good(k)
    BY <1>5
  <2>2. f[k + 1] \in {Append(f[k], k + 1), f[k]}
    <3>1. k + 1 \in 0 .. n /\ k + 1 # 0 /\ (k + 1) - 1 = k
      OBVIOUS
    <3>2. SelectsTo(rs, f, k + 1)
      BY <1>3, <3>1
    <3>3. f[k + 1] \in {Append(f[(k + 1) - 1], k + 1), f[(k + 1) - 1]}
      BY <3>1, <3>2, Zenon DEF SelectsTo
    <3> QED
      BY <3>1, <3>3
  <2>3. f[k] \in Seq(1 .. k + 1)
    BY <2>1
  <2>4. \A i \in 1 .. Len(f[k]) : f[k][i] \in 1 .. k
    BY <2>1
  <2>5. CASE f[k + 1] = f[k]
    BY <2>1, <2>3, <2>5
  <2>6. CASE f[k + 1] = Append(f[k], k + 1)
    <3> DEFINE s == f[k]
               t == Append(s, k + 1)
    <3>1. s \in Seq(1 .. k + 1) /\ Len(s) <= k
      BY <2>1, <2>3
    <3> HIDE DEF s
    <3>2. t \in Seq(1 .. k + 1) /\ Len(t) = Len(s) + 1 /\ t[Len(s) + 1] = k + 1
      BY <3>1
    <3>3. \A i \in 1 .. Len(s) : t[i] = s[i]
      BY <3>1
    <3> HIDE DEF t
    <3>4. ASSUME NEW i \in 1 .. Len(t), NEW j \in 1 .. Len(t), i < j PROVE t[i] < t[j]
      <4>1. i \in 1 .. Len(s) /\ t[i] = s[i] /\ s[i] \in 1 .. k
        BY <2>4, <3>1, <3>2, <3>3, <3>4 DEF s
      <4>2. CASE j = Len(s) + 1
        BY <3>2, <4>1, <4>2
      <4>3. CASE j \in 1 .. Len(s)
        BY <2>1, <3>3, <3>4, <4>1, <4>3 DEF s
      <4> QED
        BY <3>1, <3>2, <4>2, <4>3
    <3>5. f[k + 1] = t
      BY <2>6 DEF s, t
    <3> QED
      BY <3>1, <3>2, <3>4, <3>5
  <2> QED
    BY <2>2, <2>5, <2>6
<1>6. n \in S
  <2> HIDE DEF S
  <2> QED
    BY <1>4, <1>5, NumberAfterNumber
<1> QED
  BY <1>1, <1>6

LEMMA KeptIs ==
    ASSUME NEW T, NEW n \in Nat, NEW items \in [1 .. n -> T], NEW V, NEW rs \in [1 .. n -> V]
    PROVE  /\ Kept(items, rs) \in Seq(T) /\ Len(Kept(items, rs)) <= n
           /\ DOMAIN Kept(items, rs) = DOMAIN Held(rs)
           /\ \A k \in DOMAIN Held(rs) :
                Held(rs)[k] \in 1 .. n /\ Kept(items, rs)[k] = items[Held(rs)[k]]
<1> DEFINE held == Held(rs)
           m    == Len(held)
<1>1. held \in Seq(1 .. n) /\ m \in Nat /\ m <= n /\ DOMAIN held = 1 .. m
  BY HeldIs
<1> HIDE DEF held, m
<1>2. Kept(items, rs) = [k \in 1 .. m |-> items[held[k]]]
  BY <1>1 DEF Kept, held
<1>3. \A k \in 1 .. m : held[k] \in 1 .. n
  BY <1>1 DEF m
<1>4. Kept(items, rs) \in Seq(T) /\ Len(Kept(items, rs)) = m
  BY <1>1, <1>2, <1>3
<1> QED
  BY <1>1, <1>2, <1>3, <1>4 DEF held

(* No item is kept twice.                                                  *)
Distinct(s) == \A j, k \in DOMAIN s : s[j] = s[k] => j = k

LEMMA KeptOnce ==
    ASSUME NEW T, NEW n \in Nat, NEW items \in [1 .. n -> T], NEW V, NEW rs \in [1 .. n -> V],
           Distinct(items)
    PROVE  Distinct(Kept(items, rs))
<1> DEFINE held == Held(rs)
           kept == Kept(items, rs)
<1>1. held \in Seq(1 .. n) /\ \A a, b \in DOMAIN held : a < b => held[a] < held[b]
  BY HeldIs
<1>2. /\ DOMAIN kept = DOMAIN held
      /\ \A k \in DOMAIN held : held[k] \in 1 .. n /\ kept[k] = items[held[k]]
  <2>1. DOMAIN kept = DOMAIN held
    BY DEF Kept
  <2>2. \A k \in DOMAIN held : held[k] \in 1 .. n
    BY <1>1
  <2>3. \A k \in DOMAIN held : kept[k] = items[held[k]]
    BY DEF Kept
  <2> QED
    BY <2>1, <2>2, <2>3
<1> HIDE DEF held, kept
<1>3. ASSUME NEW j \in DOMAIN kept, NEW k \in DOMAIN kept, kept[j] = kept[k] PROVE j = k
  <2>1. held[j] \in DOMAIN items /\ held[k] \in DOMAIN items /\ items[held[j]] = items[held[k]]
    BY <1>2, <1>3
  <2>2. held[j] = held[k]
    BY <2>1 DEF Distinct
  <2>3. j \in Nat /\ k \in Nat
    BY <1>1, <1>2
  <2>4. ~(j < k) /\ ~(k < j)
    <3>1. held[j] \in Nat
      BY <1>2
    <3> QED
      BY <1>1, <1>2, <2>2, <3>1
  <2> QED
    BY <2>3, <2>4
<1> QED
  BY <1>3 DEF Distinct, kept

LEMMA FilterTyped ==
    ASSUME NEW W, NEW n \in Nat, NEW rs \in [1 .. n -> ResultOver(BOOLEAN)],
           NEW items, Kept(items, rs) \in W, NEW c \in BOOLEAN
    PROVE  FilterIn(items, rs, c) \in ResultOver(W)
<1>1. (c /\ \A i \in DOMAIN rs : IsFinal(rs[i])) \in BOOLEAN
  OBVIOUS
<1> QED
  BY <1>1, FilterIs, ResultsAre

LEMMA ConditionSetTyped ==
    ASSUME NEW V, NEW W, NEW n \in Nat, NEW whens \in [1 .. n -> ResultOver(BOOLEAN)],
           NEW thens \in [1 .. n -> ResultOver(V)],
           \A m \in 0 .. n : [1 .. m -> V] \subseteq W
    PROVE  ConditionSet(whens, thens) \in ResultOver(W)
<1>1. CASE Open(whens, thens) # {}
  <2>1. ConditionSet(whens, thens) \in {Raised, Incomplete}
    BY <1>1, ConditionSetIs
  <2> QED
    BY <2>1, ResultsAre
<1>2. CASE Open(whens, thens) = {}
  <2> DEFINE held == Held(whens)
             m    == Len(held)
  <2>1. held \in Seq(1 .. n) /\ m \in Nat /\ m <= n /\ DOMAIN held = 1 .. m
    <3>1. Held(whens) \in Seq(1 .. n) /\ Len(Held(whens)) <= n
      BY HeldIs
    <3> QED
      BY <3>1
  <2>2. \A k \in 1 .. n : thens[k].value \in V
    BY <1>2, States DEF Open
  <2> HIDE DEF held, m
  <2>3. \A k \in 1 .. m : held[k] \in 1 .. n
    BY <2>1 DEF m
  <2>4. Offered(whens, thens) = [k \in 1 .. m |-> thens[held[k]].value]
    BY <2>1 DEF Offered, held
  <2>5. Offered(whens, thens) \in [1 .. m -> V]
    BY <2>2, <2>3, <2>4
  <2>6. Offered(whens, thens) \in W
    BY <2>1, <2>5
  <2> QED
    BY <1>2, <2>6, ConditionSetIs, ResultsAre
<1> QED
  BY <1>1, <1>2

LEMMA MaximumTyped ==
    ASSUME NEW V \in SUBSET Int, NEW n \in Nat, NEW rs \in [1 .. n -> ResultOver(V)]
    PROVE  MaximumOf(rs) \in ResultOver(V)
<1> DEFINE values  == {rs[i].value : i \in DOMAIN rs}
           largest == CHOOSE v \in values : \A w \in values : v >= w
<1>1. CASE n = 0
  <2>1. rs = <<>>
    BY <1>1
  <2> QED
    BY <2>1, ResultsAre DEF MaximumOf
<1>2. CASE n > 0 /\ Len(rs) > 1 /\ rs[1] = Incomplete
  <2>1. rs # <<>> /\ 2 \in 1 .. n
    BY <1>2
  <2>2. MaximumOf(rs) \in {Raised, rs[2]}
    BY <1>2, <2>1 DEF MaximumOf
  <2> QED
    BY <2>1, <2>2, ResultsAre
<1>3. CASE n > 0 /\ ~(Len(rs) > 1 /\ rs[1] = Incomplete)
  <2>1. rs # <<>>
    BY <1>3
  <2>2. MaximumOf(rs) = Strictly(largest, rs, TRUE)
    BY <1>3, <2>1 DEF MaximumOf
  <2>3. ASSUME Missing(rs) = {} PROVE largest \in V
    <3>1. \A i \in 1 .. n : rs[i].value \in V
      BY <2>3, States DEF Missing
    <3>2. [i \in 1 .. n |-> rs[i].value] \in [1 .. n -> Int]
      BY <3>1
    <3>3. PICK k \in 1 .. n : \A j \in 1 .. n : rs[j].value <= rs[k].value
      BY <1>3, <3>2, LargestExists
    <3>4. rs[k].value \in values /\ \A w \in values : rs[k].value >= w
      BY <3>1, <3>3
    <3>5. largest \in values
      <4> HIDE DEF values
      <4> QED
        BY <3>4
    <3> QED
      BY <3>1, <3>5
  <2> HIDE DEF largest
  <2> QED
    BY <2>2, <2>3, StrictlyTyped
<1> QED
  BY <1>1, <1>2, <1>3

-----------------------------------------------------------------------------
(* What an operator makes of arguments that are alike, before and after an *)
(* edit of other facts: nothing it completes, nothing it changes.          *)
Alike(r, s) == r = s \/ (~IsFinal(r) /\ ~IsFinal(s)) \/ Raised \in {r, s}

Answered(xs) == \A i \in DOMAIN xs : IsFinal(xs[i]) \/ xs[i] = Raised

(* Of alike results one is open in both, or the only difference between    *)
(* them is that some throw.                                                *)
LEMMA OpenOrAnswered ==
    ASSUME NEW V, NEW n \in Nat,
           NEW rs \in [1 .. n -> ResultOver(V)], NEW ss \in [1 .. n -> ResultOver(V)],
           \A i \in 1 .. n : Alike(rs[i], ss[i])
    PROVE  \/ \E i \in 1 .. n : ~IsFinal(rs[i]) /\ ~IsFinal(ss[i])
           \/ Answered(rs) /\ Answered(ss) /\ (rs = ss \/ Raises(rs) \/ Raises(ss))
<1> SUFFICES ASSUME \A i \in 1 .. n : IsFinal(rs[i]) \/ IsFinal(ss[i])
             PROVE  Answered(rs) /\ Answered(ss) /\ (rs = ss \/ Raises(rs) \/ Raises(ss))
  OBVIOUS
<1>1. \A i \in 1 .. n : rs[i] = ss[i] \/ Raised \in {rs[i], ss[i]}
  BY DEF Alike
<1>2. Answered(rs) /\ Answered(ss)
  BY <1>1, NotFinal DEF Answered
<1>3. ~Raises(rs) /\ ~Raises(ss) => rs = ss
  BY <1>1 DEF Raises
<1> QED
  BY <1>2, <1>3

LEMMA StrictlyRaises ==
    ASSUME NEW V, NEW n \in Nat, NEW rs \in [1 .. n -> ResultOver(V)],
           Answered(rs), Raises(rs), NEW v, NEW c
    PROVE  Strictly(v, rs, c) = Raised
<1>1. Missing(rs) # {}
  BY DEF Missing, Raises, HasValue, Raised
<1>2. First(Missing(rs)) \in Missing(rs)
  BY <1>1, FirstMissing
<1>3. Strictly(v, rs, c) = rs[First(Missing(rs))]
  BY <1>1 DEF Strictly, Missing
<1> QED
  BY <1>2, <1>3, States DEF Missing, Answered

(* Strict operators, sums and counts.                                      *)
LEMMA StrictlyAlike ==
    ASSUME NEW V, NEW n \in Nat,
           NEW rs \in [1 .. n -> ResultOver(V)], NEW ss \in [1 .. n -> ResultOver(V)],
           \A i \in 1 .. n : Alike(rs[i], ss[i]),
           NEW v, NEW w, rs = ss => w = v, NEW c \in BOOLEAN
    PROVE  Alike(Strictly(v, rs, c), Strictly(w, ss, c))
<1>1. CASE \E i \in 1 .. n : ~IsFinal(rs[i]) /\ ~IsFinal(ss[i])
  BY <1>1, StrictlyFinal DEF Alike
<1>2. CASE rs = ss
  BY <1>2 DEF Alike
<1>3. CASE Answered(rs) /\ Answered(ss) /\ (Raises(rs) \/ Raises(ss))
  BY <1>3, StrictlyRaises DEF Alike
<1> QED
  BY <1>1, <1>2, <1>3, OpenOrAnswered

LEMMA MaximumOpen ==
    ASSUME NEW V, NEW n \in Nat, NEW rs \in [1 .. n -> ResultOver(V)], IsFinal(MaximumOf(rs))
    PROVE  \A i \in 1 .. n : IsFinal(rs[i])
<1>1. n > 0 /\ rs[1] # Incomplete
  BY MaximumFinal
<1>2. PICK v : MaximumOf(rs) = Strictly(v, rs, TRUE)
  BY <1>1, MaximumIs
<1> QED
  BY <1>2, StrictlyFinal

LEMMA MaximumAlike ==
    ASSUME NEW V, NEW n \in Nat,
           NEW rs \in [1 .. n -> ResultOver(V)], NEW ss \in [1 .. n -> ResultOver(V)],
           \A i \in 1 .. n : Alike(rs[i], ss[i])
    PROVE  Alike(MaximumOf(rs), MaximumOf(ss))
<1>1. CASE \E i \in 1 .. n : ~IsFinal(rs[i]) /\ ~IsFinal(ss[i])
  BY <1>1, MaximumOpen DEF Alike
<1>2. CASE rs = ss
  BY <1>2 DEF Alike
<1>3. ASSUME NEW xs \in {rs, ss}, Answered(xs), Raises(xs) PROVE MaximumOf(xs) = Raised
  <2>1. n > 0
    BY <1>3 DEF Raises
  <2>2. xs[1] # Incomplete
    BY <1>3, <2>1, NotFinal DEF Answered, Incomplete, Raised
  <2>3. xs \in [1 .. n -> ResultOver(V)]
    BY <1>3
  <2>4. PICK v : MaximumOf(xs) = Strictly(v, xs, TRUE)
    BY <2>1, <2>2, <2>3, MaximumIs
  <2> QED
    BY <1>3, <2>3, <2>4, StrictlyRaises
<1> QED
  BY <1>1, <1>2, <1>3, OpenOrAnswered DEF Alike

LEMMA FilterAlike ==
    ASSUME NEW n \in Nat, NEW items, NEW c \in BOOLEAN,
           NEW rs \in [1 .. n -> ResultOver(BOOLEAN)], NEW ss \in [1 .. n -> ResultOver(BOOLEAN)],
           \A i \in 1 .. n : Alike(rs[i], ss[i])
    PROVE  Alike(FilterIn(items, rs, c), FilterIn(items, ss, c))
<1>1. ASSUME NEW xs \in {rs, ss}, IsFinal(FilterIn(items, xs, c))
      PROVE  \A i \in 1 .. n : IsFinal(xs[i])
  <2>1. ~Raises(xs)
    BY <1>1, FilterIs, NotFinal
  <2>2. IsFinal(ResultOf(Kept(items, xs), c /\ \A i \in DOMAIN xs : IsFinal(xs[i])))
    BY <1>1, <2>1, FilterIs
  <2>3. (c /\ \A i \in DOMAIN xs : IsFinal(xs[i])) \in BOOLEAN
    OBVIOUS
  <2> QED
    BY <2>2, <2>3, FinalOf
<1>2. CASE \E i \in 1 .. n : ~IsFinal(rs[i]) /\ ~IsFinal(ss[i])
  BY <1>1, <1>2 DEF Alike
<1>3. CASE rs = ss \/ Raises(rs) \/ Raises(ss)
  BY <1>3, FilterIs DEF Alike
<1> QED
  BY <1>2, <1>3, OpenOrAnswered

LEMMA ConditionSetAlike ==
    ASSUME NEW V, NEW n \in Nat,
           NEW whens \in [1 .. n -> ResultOver(BOOLEAN)], NEW thens \in [1 .. n -> ResultOver(V)],
           NEW whens2 \in [1 .. n -> ResultOver(BOOLEAN)], NEW thens2 \in [1 .. n -> ResultOver(V)],
           \A i \in 1 .. n : Alike(whens[i], whens2[i]) /\ Alike(thens[i], thens2[i])
    PROVE  Alike(ConditionSet(whens, thens), ConditionSet(whens2, thens2))
<1>1. ASSUME NEW bs, NEW xs, DOMAIN bs = 1 .. n, IsFinal(ConditionSet(bs, xs))
      PROVE  \A i \in 1 .. n : IsFinal(bs[i]) /\ IsFinal(xs[i])
  <2>1. Open(bs, xs) = {}
    BY <1>1, ConditionSetIs, NotFinal
  <2> QED
    BY <1>1, <2>1 DEF Open
<1>2. ASSUME NEW bs, NEW xs, DOMAIN bs = 1 .. n, DOMAIN xs = 1 .. n,
             Answered(bs), Answered(xs), Raises(bs) \/ Raises(xs)
      PROVE  ConditionSet(bs, xs) = Raised
  <2> DEFINE k == First(Open(bs, xs))
  <2>1. Open(bs, xs) # {}
    BY <1>2, NotFinal DEF Open, Raises
  <2>2. k \in Open(bs, xs)
    BY <1>2, <2>1, FirstOpen
  <2>3. bs[k] = Raised \/ (IsFinal(bs[k]) /\ xs[k] = Raised)
    BY <1>2, <2>2 DEF Open, Answered
  <2> QED
    BY <2>1, <2>3, ConditionSetIs
<1>3. CASE \E i \in 1 .. n : \/ ~IsFinal(whens[i]) /\ ~IsFinal(whens2[i])
                             \/ ~IsFinal(thens[i]) /\ ~IsFinal(thens2[i])
  BY <1>1, <1>3 DEF Alike
<1>4. CASE ~\E i \in 1 .. n : \/ ~IsFinal(whens[i]) /\ ~IsFinal(whens2[i])
                              \/ ~IsFinal(thens[i]) /\ ~IsFinal(thens2[i])
  <2>1. /\ Answered(whens) /\ Answered(whens2) /\ Answered(thens) /\ Answered(thens2)
        /\ whens = whens2 \/ Raises(whens) \/ Raises(whens2)
        /\ thens = thens2 \/ Raises(thens) \/ Raises(thens2)
    BY <1>4, OpenOrAnswered
  <2>2. CASE whens = whens2 /\ thens = thens2
    BY <2>2 DEF Alike
  <2>3. CASE Raises(whens) \/ Raises(thens)
    BY <1>2, <2>1, <2>3 DEF Alike
  <2>4. CASE Raises(whens2) \/ Raises(thens2)
    BY <1>2, <2>1, <2>4 DEF Alike
  <2> QED
    BY <2>1, <2>2, <2>3, <2>4
<1> QED
  BY <1>3, <1>4

LEMMA OrDefaultAlike ==
    ASSUME NEW V, NEW r \in ResultOver(V), NEW s \in ResultOver(V), Alike(r, s),
           NEW d \in ResultOver(V), NEW e \in ResultOver(V)
    PROVE  Alike(OrDefault(r, d), OrDefault(s, e))
<1>1. ~IsFinal(AsPlaceholder(d)) /\ ~IsFinal(AsPlaceholder(e))
  BY NotFinal DEF AsPlaceholder
<1>2. ~IsFinal(r) => ~IsFinal(OrDefault(r, d))
  BY <1>1 DEF OrDefault
<1>3. ~IsFinal(s) => ~IsFinal(OrDefault(s, e))
  BY <1>1 DEF OrDefault
<1>4. r = Raised => OrDefault(r, d) = Raised
  BY DEF OrDefault, Raised, Incomplete
<1>5. s = Raised => OrDefault(s, e) = Raised
  BY DEF OrDefault, Raised, Incomplete
<1>6. r = s /\ IsFinal(r) => OrDefault(r, d) = OrDefault(s, e)
  BY NotFinal DEF OrDefault
<1> QED
  BY <1>2, <1>3, <1>4, <1>5, <1>6 DEF Alike

(* Any: either all its arguments are alike, or the first that decides is.  *)
LEMMA AnyOfAlike ==
    ASSUME NEW n \in Nat,
           NEW rs \in [1 .. n -> ResultOver(BOOLEAN)], NEW ss \in [1 .. n -> ResultOver(BOOLEAN)],
           LET k == First(Decisive(TRUE, rs)) IN
           IF Decisive(TRUE, rs) = {} THEN \A i \in 1 .. n : Alike(rs[i], ss[i])
           ELSE rs[k] = Complete(TRUE) /\ Alike(rs[k], ss[k])
    PROVE  Alike(AnyOf(rs), AnyOf(ss))
<1>1. \A xs : Decisive(TRUE, xs) # {} => AnyOf(xs) = xs[First(Decisive(TRUE, xs))]
  BY DEF AnyOf, Decisive
<1>2. \A xs \in {rs, ss} : Decisive(TRUE, xs) # {} =>
        /\ First(Decisive(TRUE, xs)) \in 1 .. n
        /\ AnyOf(xs) \in {Complete(TRUE), Raised}
  <2> SUFFICES ASSUME NEW xs \in {rs, ss}, Decisive(TRUE, xs) # {}
               PROVE  /\ First(Decisive(TRUE, xs)) \in 1 .. n
                      /\ AnyOf(xs) \in {Complete(TRUE), Raised}
    OBVIOUS
  <2>1. DOMAIN xs = 1 .. n
    OBVIOUS
  <2>2. First(Decisive(TRUE, xs)) \in Decisive(TRUE, xs)
    BY <2>1, FirstDecisive
  <2>3. AnyOf(xs) = xs[First(Decisive(TRUE, xs))]
    BY <1>1
  <2> QED
    BY ONLY <2>1, <2>2, <2>3 DEF Decisive
<1>3. CASE Decisive(TRUE, rs) # {}
  <2> DEFINE k == First(Decisive(TRUE, rs))
  <2>1. k \in 1 .. n /\ rs[k] = Complete(TRUE) /\ Alike(rs[k], ss[k]) /\ AnyOf(rs) = Complete(TRUE)
    BY <1>1, <1>2, <1>3
  <2> HIDE DEF k
  <2>2. IsFinal(Complete(TRUE))
    BY DEF IsFinal, Complete
  <2>3. ss[k] \in {Complete(TRUE), Raised}
    BY <2>1, <2>2, NotFinal DEF Alike
  <2>4. Decisive(TRUE, ss) # {}
    BY <2>1, <2>3 DEF Decisive
  <2> QED
    BY <1>2, <2>1, <2>4 DEF Alike
<1>4. CASE Decisive(TRUE, rs) = {}
  <2>1. \A i \in 1 .. n : Alike(rs[i], ss[i])
    BY <1>4
  <2>2. \A i \in 1 .. n : rs[i] # Raised /\ rs[i] # Complete(TRUE)
    BY <1>4 DEF Decisive
  <2>3. \A i \in 1 .. n : ss[i] = Complete(TRUE) => FALSE
    BY <2>1, <2>2, NotFinal DEF Alike, IsFinal, Complete
  <2>4. CASE Decisive(TRUE, ss) # {}
    <3>1. ss[First(Decisive(TRUE, ss))] = Raised
      BY <1>2, <2>3, <2>4, FirstDecisive DEF Decisive
    <3> QED
      BY <1>1, <2>4, <3>1 DEF Alike
  <2>5. CASE Decisive(TRUE, ss) = {}
    <3>1. \A i \in 1 .. n : ss[i] # Raised
      BY <2>5 DEF Decisive
    <3>2. CASE rs = ss
      BY <3>2 DEF Alike
    <3>3. CASE rs # ss
      <4>1. PICK i \in 1 .. n : ~IsFinal(rs[i]) /\ ~IsFinal(ss[i])
        BY <2>1, <2>2, <3>1, <3>3, OpenOrAnswered DEF Raises
      <4>2. ASSUME NEW xs \in {rs, ss}, Decisive(TRUE, xs) = {} PROVE ~IsFinal(AnyOf(xs))
        <5>1. \/ ~IsFinal(AnyOf(xs))
              \/ AnyOf(xs) = ResultOf(FALSE, \A j \in 1 .. n : IsFinal(xs[j]))
          BY <4>2, NotFinal DEF AnyOf, Decisive
        <5>2. ~\A j \in 1 .. n : IsFinal(xs[j])
          BY <4>1
        <5> QED
          BY <5>1, <5>2, FinalOf
      <4> QED
        BY <1>4, <2>5, <4>2 DEF Alike
    <3> QED
      BY <3>2, <3>3
  <2> QED
    BY <2>4, <2>5
<1> QED
  BY <1>3, <1>4

(* All, likewise.                                                          *)
LEMMA AllOfAlike ==
    ASSUME NEW n \in Nat,
           NEW rs \in [1 .. n -> ResultOver(BOOLEAN)], NEW ss \in [1 .. n -> ResultOver(BOOLEAN)],
           LET k == First(Decisive(FALSE, rs)) IN
           IF Decisive(FALSE, rs) = {} THEN \A i \in 1 .. n : Alike(rs[i], ss[i])
           ELSE rs[k] = Complete(FALSE) /\ Alike(rs[k], ss[k])
    PROVE  Alike(AllOf(rs), AllOf(ss))
<1> DEFINE AllHold(xs) == \A i \in DOMAIN xs : Values(xs)[i]
<1>1. \A xs : Decisive(FALSE, xs) # {} => AllOf(xs) = xs[First(Decisive(FALSE, xs))]
  BY DEF AllOf, Decisive
<1>2. \A xs \in {rs, ss} : Decisive(FALSE, xs) # {} =>
        /\ First(Decisive(FALSE, xs)) \in 1 .. n
        /\ AllOf(xs) \in {Complete(FALSE), Raised}
  <2> SUFFICES ASSUME NEW xs \in {rs, ss}, Decisive(FALSE, xs) # {}
               PROVE  /\ First(Decisive(FALSE, xs)) \in 1 .. n
                      /\ AllOf(xs) \in {Complete(FALSE), Raised}
    OBVIOUS
  <2>1. DOMAIN xs = 1 .. n
    OBVIOUS
  <2>2. First(Decisive(FALSE, xs)) \in Decisive(FALSE, xs)
    BY <2>1, FirstDecisive
  <2>3. AllOf(xs) = xs[First(Decisive(FALSE, xs))]
    BY <1>1
  <2> QED
    BY ONLY <2>1, <2>2, <2>3 DEF Decisive
<1>3. CASE Decisive(FALSE, rs) # {}
  <2> DEFINE k == First(Decisive(FALSE, rs))
  <2>1. k \in 1 .. n /\ rs[k] = Complete(FALSE) /\ Alike(rs[k], ss[k]) /\ AllOf(rs) = Complete(FALSE)
    BY <1>1, <1>2, <1>3
  <2> HIDE DEF k
  <2>2. IsFinal(Complete(FALSE))
    BY DEF IsFinal, Complete
  <2>3. ss[k] \in {Complete(FALSE), Raised}
    BY <2>1, <2>2, NotFinal DEF Alike
  <2>4. Decisive(FALSE, ss) # {}
    BY <2>1, <2>3 DEF Decisive
  <2> QED
    BY <1>2, <2>1, <2>4 DEF Alike
<1>4. CASE Decisive(FALSE, rs) = {}
  <2>1. \A i \in 1 .. n : Alike(rs[i], ss[i])
    BY <1>4
  <2>2. \A i \in 1 .. n : rs[i] # Raised /\ rs[i] # Complete(FALSE)
    BY <1>4 DEF Decisive
  <2>3. \A i \in 1 .. n : ss[i] = Complete(FALSE) => FALSE
    BY <2>1, <2>2, NotFinal DEF Alike, IsFinal, Complete
  <2>4. CASE Decisive(FALSE, ss) # {}
    <3>1. ss[First(Decisive(FALSE, ss))] = Raised
      BY <1>2, <2>3, <2>4, FirstDecisive DEF Decisive
    <3> QED
      BY <1>1, <2>4, <3>1 DEF Alike
  <2>5. CASE Decisive(FALSE, ss) = {}
    <3>1. AllOf(rs) = Strictly(AllHold(rs), rs, TRUE) /\ AllOf(ss) = Strictly(AllHold(ss), ss, TRUE)
      BY <1>4, <2>5 DEF AllOf, Decisive
    <3>2. rs = ss => AllHold(rs) = AllHold(ss)
      OBVIOUS
    <3> HIDE DEF AllHold
    <3> QED
      BY <2>1, <3>1, <3>2, StrictlyAlike
  <2> QED
    BY <2>4, <2>5
<1> QED
  BY <1>3, <1>4

(* A switch: the conditions it looks at are alike, and the value of the    *)
(* case it takes.                                                          *)
Undecided(whens) == {k \in DOMAIN whens : whens[k] # Complete(FALSE)}

LEMMA FirstUndecided ==
    ASSUME NEW n \in Nat, NEW xs, DOMAIN xs = 1 .. n, Undecided(xs) # {}
    PROVE  /\ First(Undecided(xs)) \in Undecided(xs)
           /\ \A j \in Undecided(xs) : First(Undecided(xs)) <= j
<1>1. Undecided(xs) \subseteq DOMAIN xs
  BY Zenon DEF Undecided
<1>2. Undecided(xs) \in SUBSET Nat
  BY <1>1
<1> QED
  BY <1>2, FirstIsLeast

(* The cases that matter to a switch.                                      *)
CasesAlike(whens, thens, whens2, thens2) ==
    LET k == First(Undecided(whens))
    IN  IF Undecided(whens) = {} THEN \A i \in DOMAIN whens : Alike(whens[i], whens2[i])
        ELSE /\ whens[k] # Raised
             /\ \A i \in 1 .. k : Alike(whens[i], whens2[i])
             /\ whens[k] = Complete(TRUE) => Alike(thens[k], thens2[k])

LEMMA SwitchOpen ==
    ASSUME NEW V, NEW n \in Nat, NEW whens \in [1 .. n -> ResultOver(BOOLEAN)],
           NEW thens \in [1 .. n -> ResultOver(V)], NEW k \in 1 .. n,
           ~IsFinal(whens[k]), \A j \in 1 .. k - 1 : whens[j] \in {Complete(FALSE), Raised}
    PROVE  ~IsFinal(Switch(whens, thens))
<1> DEFINE i == First(Taken(whens))
<1>1. CASE Taken(whens) = {} \/ whens[i] = Raised
  BY <1>1, SwitchTakes, NotFinal
<1>2. CASE Taken(whens) # {} /\ whens[i] # Raised
  <2>1. i \in Taken(whens)
    BY <1>2, FirstTaken
  <2> HIDE DEF i
  <2>2. i \in 1 .. n /\ HasValue(whens[i]) /\ whens[i].value
    BY <1>2, <2>1 DEF Taken
  <2>3. whens[i] # Complete(FALSE)
    BY <2>2 DEF Complete
  <2>4. k \in 1 .. i
    <3>1. whens[i] \notin {Complete(FALSE), Raised}
      BY <1>2, <2>3 DEF i
    <3>2. i \notin 1 .. k - 1
      BY <3>1
    <3> QED
      BY <2>2, <3>2
  <2>5. Switch(whens, thens) = AsPlaceholder(thens[i])
    BY <1>2, <2>4, SwitchTakes DEF i
  <2> QED
    BY <2>5, NotFinal DEF AsPlaceholder
<1> QED
  BY <1>1, <1>2

LEMMA SwitchTaken ==
    ASSUME NEW whens, \E n \in Nat : DOMAIN whens = 1 .. n, NEW thens, NEW k \in DOMAIN whens,
           whens[k] \in {Complete(TRUE), Raised},
           \A j \in 1 .. k - 1 : whens[j] \in {Complete(FALSE), Raised}
    PROVE  \/ Switch(whens, thens) = Raised
           \/ whens[k] = Complete(TRUE) /\ Switch(whens, thens) = thens[k]
<1>1. PICK n \in Nat : DOMAIN whens = 1 .. n
  OBVIOUS
<1> DEFINE i == First(Taken(whens))
<1>2. k \in Taken(whens)
  BY DEF Taken, HasValue, Complete
<1>3. i \in Taken(whens) /\ i <= k
  BY <1>1, <1>2, FirstTaken
<1> HIDE DEF i
<1>4. i \in 1 .. n
  BY <1>1, <1>3 DEF Taken
<1>5. CASE whens[i] = Raised
  BY <1>2, <1>5, SwitchTakes DEF i
<1>6. CASE whens[i] # Raised
  <2>1. whens[i].value
    BY <1>3, <1>6 DEF Taken
  <2>2. whens[i] # Complete(FALSE)
    BY <2>1 DEF Complete
  <2>3. i = k
    <3>1. whens[i] \notin {Complete(FALSE), Raised}
      BY <1>6, <2>2
    <3>2. i \notin 1 .. k - 1
      BY <3>1
    <3> QED
      BY <1>1, <1>3, <1>4, <3>2
  <2>4. ASSUME NEW j \in 1 .. i PROVE IsFinal(whens[j])
    <3>1. whens[j] # Raised
      <4>1. j \in Taken(whens) => i <= j
        BY <1>1, <1>2, FirstTaken DEF i
      <4> QED
        BY <1>1, <1>4, <1>6, <4>1 DEF Taken
    <3> QED
      BY <1>6, <2>3, <3>1 DEF IsFinal, Complete
  <2>5. Switch(whens, thens) = thens[i]
    BY <1>2, <1>6, <2>4, SwitchTakes DEF i
  <2> QED
    BY <1>6, <2>3, <2>5
<1> QED
  BY <1>5, <1>6

LEMMA SwitchPasses ==
    ASSUME NEW n \in Nat, NEW whens \in [1 .. n -> ResultOver(BOOLEAN)], NEW thens,
           \A j \in 1 .. n : whens[j] \in {Complete(FALSE), Raised}
    PROVE  Switch(whens, thens) \in {Incomplete, Raised}
<1> DEFINE i == First(Taken(whens))
<1>1. CASE Taken(whens) # {}
  <2>1. i \in Taken(whens)
    BY <1>1, FirstTaken
  <2>2. whens[i] = Raised
    BY <2>1 DEF Taken, Complete
  <2> QED
    BY <1>1, <2>2, SwitchTakes
<1> QED
  BY <1>1, SwitchTakes

LEMMA AlikeToComplete ==
    ASSUME NEW v, NEW s, Alike(Complete(v), s)
    PROVE  s \in {Complete(v), Raised}
<1>1. IsFinal(Complete(v)) /\ Complete(v) # Raised
  BY DEF IsFinal, Complete, Raised
<1> QED
  BY <1>1 DEF Alike

LEMMA SwitchAlike ==
    ASSUME NEW V, NEW n \in Nat,
           NEW whens \in [1 .. n -> ResultOver(BOOLEAN)], NEW thens \in [1 .. n -> ResultOver(V)],
           NEW whens2 \in [1 .. n -> ResultOver(BOOLEAN)], NEW thens2 \in [1 .. n -> ResultOver(V)],
           CasesAlike(whens, thens, whens2, thens2)
    PROVE  Alike(Switch(whens, thens), Switch(whens2, thens2))
<1> DEFINE k == First(Undecided(whens))
<1>1. \A b \in BOOLEAN : IsFinal(Complete(b))
  BY DEF IsFinal, Complete
<1>2. CASE Undecided(whens) = {}
  <2>1. \A i \in 1 .. n : whens[i] = Complete(FALSE)
    BY <1>2 DEF Undecided
  <2>2. \A i \in 1 .. n : whens2[i] \in {Complete(FALSE), Raised}
    BY <1>1, <1>2, <2>1, NotFinal DEF CasesAlike, Alike
  <2>3. /\ Switch(whens, thens) \in {Incomplete, Raised}
        /\ Switch(whens2, thens2) \in {Incomplete, Raised}
    BY <2>1, <2>2, SwitchPasses
  <2> QED
    BY <2>3 DEF Alike
<1>3. CASE Undecided(whens) # {}
  <2>1. k \in Undecided(whens) /\ \A j \in Undecided(whens) : k <= j
    BY <1>3, FirstUndecided
  <2>2. /\ whens[k] # Raised
        /\ \A i \in 1 .. k : Alike(whens[i], whens2[i])
        /\ whens[k] = Complete(TRUE) => Alike(thens[k], thens2[k])
    BY <1>3 DEF CasesAlike
  <2> HIDE DEF k
  <2>3. k \in 1 .. n /\ whens[k] # Complete(FALSE)
    BY <2>1 DEF Undecided
  <2>4. \A j \in 1 .. k - 1 : whens[j] = Complete(FALSE)
    <3>1. \A j \in 1 .. n : j \notin Undecided(whens) => whens[j] = Complete(FALSE)
      BY DEF Undecided
    <3>2. \A j \in 1 .. k - 1 : j \in 1 .. n /\ ~(k <= j)
      BY <2>3
    <3> QED
      BY <2>1, <3>1, <3>2, Zenon
  <2>5. ASSUME NEW j \in 1 .. k - 1
        PROVE  whens[j] \in {Complete(FALSE), Raised} /\ whens2[j] \in {Complete(FALSE), Raised}
    <3>1. j \in 1 .. k
      BY <2>3
    <3>2. Alike(Complete(FALSE), whens2[j])
      BY <2>2, <2>4, <3>1, Zenon
    <3> QED
      BY <2>4, <3>2, AlikeToComplete, Zenon
  <2>6. CASE whens[k] = Complete(TRUE)
    <3>1. Switch(whens, thens) \in {Raised, thens[k]}
      <4>1. whens[k] \in {Complete(TRUE), Raised}
        BY <2>6
      <4>2. \A j \in 1 .. k - 1 : whens[j] \in {Complete(FALSE), Raised}
        BY <2>5
      <4>3. (\E m \in Nat : DOMAIN whens = 1 .. m) /\ k \in DOMAIN whens
        BY <2>3
      <4>4. \/ Switch(whens, thens) = Raised
            \/ whens[k] = Complete(TRUE) /\ Switch(whens, thens) = thens[k]
        BY ONLY <4>1, <4>2, <4>3, SwitchTaken, Zenon
      <4> QED
        BY <4>4
    <3>2. whens2[k] \in {Complete(TRUE), Raised}
      <4>1. k \in 1 .. k
        BY <2>3
      <4>2. Alike(Complete(TRUE), whens2[k])
        BY <2>2, <2>6, <4>1, Zenon
      <4> QED
        BY <4>2, AlikeToComplete, Zenon
    <3>3. Switch(whens2, thens2) \in {Raised, thens2[k]}
      <4>1. \A j \in 1 .. k - 1 : whens2[j] \in {Complete(FALSE), Raised}
        BY <2>5
      <4>2. (\E m \in Nat : DOMAIN whens2 = 1 .. m) /\ k \in DOMAIN whens2
        BY <2>3
      <4>3. \/ Switch(whens2, thens2) = Raised
            \/ whens2[k] = Complete(TRUE) /\ Switch(whens2, thens2) = thens2[k]
        BY ONLY <3>2, <4>1, <4>2, SwitchTaken, Zenon
      <4> QED
        BY <4>3
    <3> QED
      BY <2>2, <2>6, <3>1, <3>3 DEF Alike
  <2>7. CASE whens[k] # Complete(TRUE)
    <3>1. ~IsFinal(whens[k])
      <4>1. whens[k] \in ResultOver(BOOLEAN)
        BY <2>3
      <4>2. IsFinal(whens[k]) => whens[k] = Complete(TRUE) \/ whens[k] = Complete(FALSE)
        <5>1. \A r \in ResultOver(BOOLEAN) :
                IsFinal(r) => r = Complete(TRUE) \/ r = Complete(FALSE)
          BY DEF ResultOver, IsFinal, Complete, Placeholder, Incomplete, Raised
        <5> QED
          BY <4>1, <5>1, Zenon
      <4> QED
        BY <2>3, <2>7, <4>2, Zenon
    <3>2. ~IsFinal(whens2[k])
      BY <2>2, <2>3, <3>1, NotFinal DEF Alike
    <3>3. ~IsFinal(Switch(whens, thens)) /\ ~IsFinal(Switch(whens2, thens2))
      BY <2>3, <2>4, <2>5, <3>1, <3>2, SwitchOpen
    <3> QED
      BY <3>3 DEF Alike
  <2> QED
    BY <2>6, <2>7
<1> QED
  BY <1>2, <1>3

LEMMA OverrideAlike ==
    ASSUME NEW V,
           NEW s \in ResultOver(V), NEW s2 \in ResultOver(V), Alike(s, s2),
           NEW b \in ResultOver(BOOLEAN), NEW b2 \in ResultOver(BOOLEAN),
           NEW d \in ResultOver(V), NEW d2 \in ResultOver(V),
           CasesAlike(<<b, Complete(TRUE)>>, <<d, s>>, <<b2, Complete(TRUE)>>, <<d2, s2>>)
    PROVE  Alike(Override(s, b, d), Override(s2, b2, d2))
<1>1. Complete(TRUE) \in ResultOver(BOOLEAN)
  BY DEF ResultOver
<1>2. Alike(Switch(<<b, Complete(TRUE)>>, <<d, s>>), Switch(<<b2, Complete(TRUE)>>, <<d2, s2>>))
  BY <1>1, Pairs, SwitchAlike
<1> QED
  BY <1>2 DEF Override, Alike
=============================================================================

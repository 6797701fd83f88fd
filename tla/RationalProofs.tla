---------------------------- MODULE RationalProofs ----------------------------
(***************************************************************************)
(* The arithmetic of rationals for machine integers of any width: what     *)
(* Euclid's algorithm finds, that operations in range are exact, and that  *)
(* a regular computation never loses the sign of a denominator.            *)
(***************************************************************************)
EXTENDS Rational, Induction

-----------------------------------------------------------------------------
(* Words.                                                                  *)

LEMMA BoundIs == Bound \in Nat /\ Bound > 0
BY LiteralAssumption

LEMMA WrapIs ==
    ASSUME NEW i \in Int
    PROVE  /\ Wrap(i) \in Word
           /\ -Bound <= i /\ i < Bound => Wrap(i) = i
           /\ i = Bound => Wrap(i) = -Bound
<1>1. (i + Bound) % (2 * Bound) \in 0 .. 2 * Bound - 1
  BY BoundIs
<1>2. -Bound <= i /\ i < Bound => (i + Bound) % (2 * Bound) = i + Bound
  BY BoundIs
<1>3. i = Bound => (i + Bound) % (2 * Bound) = 0
  BY BoundIs
<1> QED
  BY <1>1, <1>2, <1>3, BoundIs DEF Wrap, Word

LEMMA WordIs == ASSUME NEW i PROVE i \in Word <=> i \in Int /\ -Bound <= i /\ i < Bound
BY BoundIs DEF Word

LEMMA AbsIs == ASSUME NEW i \in Int PROVE Abs(i) \in Nat /\ i = Sign(i) * Abs(i) /\ (Abs(i) = 0 <=> i = 0)
BY DEF Abs, Sign

LEMMA DivisionIs ==
    ASSUME NEW a \in Nat, NEW b \in Nat, b > 0
    PROVE  /\ a \div b \in Nat /\ a % b \in Nat
           /\ a % b < b /\ a = b * (a \div b) + (a % b)
OBVIOUS

(* The remainder is smaller than the divisor, and what it leaves out is a  *)
(* multiple of it.                                                         *)
LEMMA RemIs ==
    ASSUME NEW i \in Word, NEW j \in Word, j # 0
    PROVE  /\ Rem(i, j) \in Word
           /\ Abs(Rem(i, j)) < Abs(j)
           /\ \E q \in Int : i = q * j + Rem(i, j)
<1> DEFINE a == Abs(i)
           b == Abs(j)
           q == a \div b
           r == a % b
<1>1. i \in Int /\ j \in Int /\ -Bound <= i /\ i < Bound /\ -Bound <= j /\ j < Bound
  BY WordIs
<1>2. a \in Nat /\ b \in Nat /\ b > 0 /\ i = Sign(i) * a /\ j = Sign(j) * b /\ b <= Bound
  BY <1>1, BoundIs DEF Abs, Sign
<1>3. q \in Nat /\ r \in Nat /\ r < b /\ a = b * q + r
  <2> HIDE DEF a, b
  <2> QED
    BY <1>2, DivisionIs
<1> HIDE DEF a, b, q, r
<1>4. Rem(i, j) = Sign(i) * r
  BY DEF Rem, a, b, r
<1>5. Sign(i) \in {-1, 0, 1} /\ Sign(j) \in {-1, 1}
  BY <1>1 DEF Sign
<1>6. Rem(i, j) \in Int /\ -r <= Rem(i, j) /\ Rem(i, j) <= r
  BY <1>3, <1>4, <1>5
<1>7. Rem(i, j) \in Word
  BY <1>2, <1>3, <1>6, BoundIs, WordIs
<1>8. Abs(Rem(i, j)) < b
  BY <1>2, <1>3, <1>6 DEF Abs
<1>9. i = (Sign(i) * Sign(j) * q) * j + Rem(i, j)
  <2>1. CASE Sign(i) = 0
    BY <1>2, <1>3, <1>4, <1>5, <2>1
  <2>2. CASE Sign(i) = 1
    BY <1>2, <1>3, <1>4, <1>5, <2>2
  <2>3. CASE Sign(i) = -1
    BY <1>2, <1>3, <1>4, <1>5, <2>3
  <2> QED
    BY <1>5, <2>1, <2>2, <2>3
<1>10. Sign(i) * Sign(j) * q \in Int
  BY <1>3, <1>5
<1> QED
  BY <1>7, <1>8, <1>9, <1>10 DEF b

-----------------------------------------------------------------------------
(* Euclid's algorithm: a function with its recursion exists.               *)

Pair == Word \X Word

Step(f, p) == IF p[1] = 0 THEN Wrap(Abs(p[2])) ELSE f[<<Rem(p[2], p[1]), p[1]>>]

IsGcd(f) == f = [p \in Word \X Word |->
                    IF p[1] = 0 THEN Wrap(Abs(p[2])) ELSE f[<<Rem(p[2], p[1]), p[1]>>]]

LEMMA NextPair ==
    ASSUME NEW p \in Pair, p[1] # 0
    PROVE  /\ <<Rem(p[2], p[1]), p[1]>> \in Pair
           /\ Abs(Rem(p[2], p[1])) \in Nat /\ Abs(p[1]) \in Nat
           /\ Abs(Rem(p[2], p[1])) < Abs(p[1])
<1>1. p[1] \in Word /\ p[2] \in Word /\ p[1] \in Int
  BY WordIs DEF Pair
<1>2. Rem(p[2], p[1]) \in Word /\ Abs(Rem(p[2], p[1])) < Abs(p[1])
  BY <1>1, RemIs
<1>3. Rem(p[2], p[1]) \in Int
  BY <1>2, WordIs
<1> QED
  BY <1>1, <1>2, <1>3, AbsIs DEF Pair

LEMMA GcdExists == \E f : IsGcd(f)
<1> DEFINE Upto(m, f) == /\ f = [p \in Pair |-> f[p]]
                         /\ \A p \in Pair : Abs(p[1]) <= m => f[p] = Step(f, p)
           S == {m \in Nat : \E f : Upto(m, f)}
<1>1. 0 \in S
  <2> DEFINE f == [p \in Pair |-> Wrap(Abs(p[2]))]
  <2>1. ASSUME NEW p \in Pair, Abs(p[1]) <= 0 PROVE f[p] = Step(f, p)
    <3>1. p[1] = 0
      BY <2>1, WordIs, AbsIs DEF Pair
    <3> QED
      BY <3>1 DEF Step
  <2>2. Upto(0, f)
    BY <2>1
  <2> QED
    BY <2>2
<1>2. ASSUME NEW m \in Nat, m \in S PROVE m + 1 \in S
  <2>1. PICK f : Upto(m, f)
    BY <1>2
  <2> DEFINE g == [p \in Pair |-> IF Abs(p[1]) <= m THEN f[p] ELSE Step(f, p)]
  <2>2. ASSUME NEW p \in Pair, Abs(p[1]) <= m PROVE g[p] = f[p]
    BY <2>2
  <2>3. ASSUME NEW p \in Pair, Abs(p[1]) <= m + 1 PROVE g[p] = Step(f, p)
    BY <2>1
  <2>4. g = [p \in Pair |-> g[p]]
    OBVIOUS
  <2> HIDE DEF g
  <2>5. ASSUME NEW p \in Pair, Abs(p[1]) <= m + 1 PROVE Step(f, p) = Step(g, p)
    <3>1. CASE p[1] = 0
      BY <3>1 DEF Step
    <3>2. CASE p[1] # 0
      <4> DEFINE q == <<Rem(p[2], p[1]), p[1]>>
      <4>1. q \in Pair /\ Abs(q[1]) <= m
        BY <2>5, <3>2, NextPair
      <4> HIDE DEF q
      <4>2. g[q] = f[q]
        BY <2>2, <4>1
      <4> QED
        BY <3>2, <4>2 DEF Step, q
    <3> QED
      BY <3>1, <3>2
  <2>6. Upto(m + 1, g)
    BY <2>3, <2>4, <2>5
  <2> QED
    BY <2>6
<1>3. Bound \in S
  <2> HIDE DEF S
  <2> QED
    BY <1>1, <1>2, BoundIs, NumberAfterNumber
<1>4. PICK f : Upto(Bound, f)
  BY <1>3
<1>5. ASSUME NEW p \in Pair PROVE f[p] = Step(f, p)
  <2>1. Abs(p[1]) <= Bound
    BY WordIs, BoundIs DEF Pair, Abs
  <2> QED
    BY <1>4, <2>1
<1>6. f = [p \in Pair |-> Step(f, p)]
  BY <1>4, <1>5
<1>7. IsGcd(f)
  BY <1>6 DEF IsGcd, Step, Pair
<1> QED
  BY <1>7

LEMMA GcdIs == \A p \in Pair : gcd[p] = Step(gcd, p)
<1>1. IsGcd(gcd)
  BY GcdExists DEF gcd, IsGcd
<1> QED
  BY <1>1 DEF IsGcd, Step, Pair

-----------------------------------------------------------------------------
(* What the algorithm finds.                                               *)

Divides(e, i) == \E k \in Int : i = e * k

LEMMA DividesSum ==
    ASSUME NEW e \in Int, NEW i \in Int, NEW j \in Int, NEW q \in Int, Divides(e, i), Divides(e, j)
    PROVE  Divides(e, q * i + j)
<1>1. PICK k \in Int : i = e * k
  BY DEF Divides
<1>2. PICK l \in Int : j = e * l
  BY DEF Divides
<1>3. q * i + j = e * (q * k + l) /\ q * k + l \in Int
  BY <1>1, <1>2
<1> QED
  BY <1>3 DEF Divides

(* A common divisor that every other one divides; for two zeros it is zero *)
(* and for the least word and itself or zero it is the least word.         *)
IsGreatestDivisor(g, p) ==
    /\ g \in Word
    /\ Divides(g, p[1]) /\ Divides(g, p[2])
    /\ \A e \in Int : Divides(e, p[1]) /\ Divides(e, p[2]) => Divides(e, g)
    /\ g > 0 \/ g = -Bound \/ (g = 0 /\ p[1] = 0 /\ p[2] = 0)

LEMMA GcdOfZero ==
    ASSUME NEW p \in Pair, p[1] = 0
    PROVE  IsGreatestDivisor(Wrap(Abs(p[2])), p)
<1> DEFINE b == p[2]
           g == Wrap(Abs(b))
<1>1. b \in Int /\ -Bound <= b /\ b < Bound /\ Abs(b) \in Int
  BY WordIs, AbsIs DEF Pair
<1>2. g \in Word /\ (Abs(b) < Bound => g = Abs(b)) /\ (Abs(b) = Bound => g = -Bound)
  BY <1>1, WrapIs, AbsIs, BoundIs DEF Abs
<1>3. g \in Int /\ (g = b \/ g = -b)
  BY <1>1, <1>2, WordIs, BoundIs DEF Abs
<1>4. g > 0 \/ g = -Bound \/ (g = 0 /\ b = 0)
  BY <1>1, <1>2, BoundIs DEF Abs
<1> HIDE DEF b, g
<1>5. Divides(g, 0)
  BY <1>3 DEF Divides
<1>6. Divides(g, b)
  <2>1. b = g * 1 \/ b = g * (-1)
    BY <1>1, <1>3
  <2> QED
    BY <2>1 DEF Divides
<1>7. ASSUME NEW e \in Int, Divides(e, b) PROVE Divides(e, g)
  <2>1. PICK k \in Int : b = e * k
    BY <1>7 DEF Divides
  <2>2. g = e * k \/ g = e * (-k)
    BY <1>1, <1>3, <2>1
  <2>3. k \in Int /\ -k \in Int
    BY <2>1
  <2> QED
    BY <2>2, <2>3 DEF Divides
<1> QED
  BY <1>2, <1>4, <1>5, <1>6, <1>7 DEF IsGreatestDivisor, b, g

LEMMA GcdOfNext ==
    ASSUME NEW p \in Pair, p[1] # 0, NEW g,
           IsGreatestDivisor(g, <<Rem(p[2], p[1]), p[1]>>)
    PROVE  IsGreatestDivisor(g, p)
<1> DEFINE a == p[1]
           b == p[2]
           r == Rem(b, a)
<1>1. a \in Word /\ b \in Word /\ a \in Int /\ b \in Int /\ a # 0
  BY WordIs DEF Pair
<1>2. r \in Int /\ \E q \in Int : b = q * a + r
  BY <1>1, RemIs, WordIs
<1>3. PICK q \in Int : b = q * a + r
  BY <1>2
<1>4. /\ g \in Word /\ g \in Int
      /\ Divides(g, r) /\ Divides(g, a)
      /\ \A e \in Int : Divides(e, r) /\ Divides(e, a) => Divides(e, g)
      /\ g > 0 \/ g = -Bound \/ (g = 0 /\ a = 0)
  BY WordIs DEF IsGreatestDivisor
<1> HIDE DEF a, b, r
<1>5. Divides(g, b)
  BY <1>1, <1>2, <1>3, <1>4, DividesSum
<1>6. ASSUME NEW e \in Int, Divides(e, a), Divides(e, b) PROVE Divides(e, g)
  <2>1. Divides(e, (-q) * a + b)
    <3>1. -q \in Int
      BY <1>3
    <3> QED
      BY <1>1, <1>6, <3>1, DividesSum
  <2>2. (-q) * a + b = r
    BY <1>1, <1>2, <1>3
  <2> QED
    BY <1>4, <1>6, <2>1, <2>2
<1> QED
  BY <1>1, <1>4, <1>5, <1>6 DEF IsGreatestDivisor, a, b

(* Math.gcd is the greatest common divisor of any two words, and not       *)
(* negative unless it is the least word, which has no absolute value       *)
(* (Math.scala:3-8).                                                       *)
THEOREM GcdIsGreatestDivisor == \A p \in Pair : IsGreatestDivisor(gcd[p], p)
<1> DEFINE S == {m \in Nat : \A p \in Pair : Abs(p[1]) = m => IsGreatestDivisor(gcd[p], p)}
<1>1. ASSUME NEW m \in Nat, \A l \in 0 .. m - 1 : l \in S PROVE m \in S
  <2> SUFFICES ASSUME NEW p \in Pair, Abs(p[1]) = m PROVE IsGreatestDivisor(gcd[p], p)
    OBVIOUS
  <2>1. CASE p[1] = 0
    BY <2>1, GcdIs, GcdOfZero DEF Step
  <2>2. CASE p[1] # 0
    <3> DEFINE q == <<Rem(p[2], p[1]), p[1]>>
    <3>1. q \in Pair /\ Abs(q[1]) \in 0 .. m - 1
      BY <2>2, NextPair
    <3>2. gcd[p] = gcd[q]
      BY <2>2, GcdIs DEF Step
    <3> HIDE DEF q
    <3>3. IsGreatestDivisor(gcd[q], q)
      BY <1>1, <3>1
    <3> QED
      BY <2>2, <3>2, <3>3, GcdOfNext DEF q
  <2> QED
    BY <2>1, <2>2
<1>2. Nat \subseteq S
  <2> HIDE DEF S
  <2> QED
    BY <1>1, EveryNumber
<1> QED
  <2> SUFFICES ASSUME NEW p \in Pair PROVE IsGreatestDivisor(gcd[p], p)
    OBVIOUS
  <2>1. Abs(p[1]) \in Nat
    BY WordIs, AbsIs DEF Pair
  <2> QED
    BY <1>2, <2>1

-----------------------------------------------------------------------------
(* Rational.simplify.                                                      *)

LEMMA ProductSigns ==
    ASSUME NEW e \in Int, e # 0, NEW k \in Int
    PROVE  /\ e * k \in Int
           /\ Abs(e * k) = Abs(e) * Abs(k)
           /\ Sign(e * k) * Sign(e) * Abs(k) = k
           /\ Abs(k) <= Abs(e * k)
           /\ k # 0 => e * k # 0
<1>1. e * k \in Int
  OBVIOUS
<1>2. CASE k = 0
  BY <1>2 DEF Abs, Sign
<1>3. CASE e > 0 /\ k > 0
  <2>1. e * k > 0 /\ k <= e * k
    BY <1>3
  <2> QED
    BY <1>1, <1>3, <2>1 DEF Abs, Sign
<1>4. CASE e > 0 /\ k < 0
  <2>1. e * k < 0 /\ -k <= -(e * k) /\ -(e * k) = e * (-k)
    BY <1>4
  <2> QED
    BY <1>1, <1>4, <2>1 DEF Abs, Sign
<1>5. CASE e < 0 /\ k > 0
  <2>1. e * k < 0 /\ k <= -(e * k) /\ -(e * k) = (-e) * k
    BY <1>5
  <2> QED
    BY <1>1, <1>5, <2>1 DEF Abs, Sign
<1>6. CASE e < 0 /\ k < 0
  <2>1. e * k > 0 /\ -k <= e * k /\ e * k = (-e) * (-k)
    BY <1>6
  <2> QED
    BY <1>1, <1>6, <2>1 DEF Abs, Sign
<1> QED
  BY <1>2, <1>3, <1>4, <1>5, <1>6

LEMMA QuotientIs == ASSUME NEW b \in Nat, b > 0, NEW m \in Nat PROVE (b * m) \div b = m
OBVIOUS

LEMMA QuotIs ==
    ASSUME NEW e \in Int, e # 0, NEW k \in Int
    PROVE  Quot(e * k, e) = Wrap(k)
<1>1. Abs(e) \in Nat /\ Abs(e) > 0 /\ Abs(k) \in Nat
  BY AbsIs DEF Abs
<1>2. Abs(e * k) \div Abs(e) = Abs(k)
  BY <1>1, ProductSigns, QuotientIs
<1>3. Sign(e * k) * Sign(e) * Abs(k) = k
  BY ProductSigns
<1> QED
  BY <1>2, <1>3 DEF Quot

Rationals == [n : Word, d : Word \ {0}]

DivisorOf(r) == Wrap(gcd[<<r.n, r.d>>] * (IF r.d < 0 THEN -1 ELSE 1))

LEMMA DividesNegative ==
    ASSUME NEW e \in Int, NEW i \in Int
    PROVE  (Divides(e, i) <=> Divides(-e, i)) /\ (Divides(e, i) <=> Divides(e, -i))
<1>1. ASSUME NEW f \in Int, NEW j \in Int, Divides(f, j) PROVE Divides(-f, j) /\ Divides(f, -j)
  <2>1. PICK k \in Int : j = f * k
    BY <1>1 DEF Divides
  <2>2. j = (-f) * (-k) /\ -j = f * (-k) /\ -k \in Int
    BY <2>1
  <2> QED
    BY <2>2 DEF Divides
<1>2. -e \in Int /\ -i \in Int /\ -(-e) = e /\ -(-i) = i
  OBVIOUS
<1> QED
  BY <1>1, <1>2

(* The divisor is not zero and has the denominator's sign, the least word  *)
(* included: no simplification divides by zero.                            *)
LEMMA DivisorIs ==
    ASSUME NEW r \in Rationals
    PROVE  /\ DivisorOf(r) \in Int /\ DivisorOf(r) # 0
           /\ DivisorOf(r) > 0 <=> r.d > 0
           /\ Divides(DivisorOf(r), r.n) /\ Divides(DivisorOf(r), r.d)
           /\ \A e \in Int : Divides(e, r.n) /\ Divides(e, r.d) => Divides(e, DivisorOf(r))
<1> DEFINE p == <<r.n, r.d>>
           g == gcd[p]
           s == DivisorOf(r)
<1>1. /\ r.n \in Int /\ r.d \in Int /\ r.d # 0 /\ -Bound <= r.d /\ r.d < Bound
      /\ p \in Pair /\ p[1] = r.n /\ p[2] = r.d
  BY WordIs DEF Rationals, Pair
<1>2. IsGreatestDivisor(g, p)
  BY <1>1, GcdIsGreatestDivisor
<1>3. s = Wrap(g * (IF r.d < 0 THEN -1 ELSE 1))
  BY DEF DivisorOf
<1> HIDE DEF p, g, s
<1>4. /\ g \in Int /\ -Bound <= g /\ g < Bound
      /\ g > 0 \/ g = -Bound
      /\ Divides(g, r.n) /\ Divides(g, r.d)
      /\ \A e \in Int : Divides(e, r.n) /\ Divides(e, r.d) => Divides(e, g)
  BY <1>1, <1>2, WordIs DEF IsGreatestDivisor
<1>5. g = -Bound => r.d = -Bound
  <2> SUFFICES ASSUME g = -Bound PROVE r.d = -Bound
    OBVIOUS
  <2>1. PICK k \in Int : r.d = g * k
    BY <1>4 DEF Divides
  <2>2. Abs(r.d) = Abs(g) * Abs(k) /\ Abs(g) = Bound
    <3>1. g # 0 /\ Abs(g) = Bound
      BY <1>4, BoundIs DEF Abs
    <3> QED
      BY <1>4, <2>1, <3>1, ProductSigns
  <2>3. k # 0
    BY <1>1, <1>4, <2>1
  <2>4. Abs(k) \in Nat /\ Abs(k) >= 1
    BY <2>3 DEF Abs
  <2>5. Bound * Abs(k) >= Bound
    BY <2>4, BoundIs
  <2> QED
    BY <1>1, <2>2, <2>5, BoundIs DEF Abs
<1>6. (s = g \/ s = -g) /\ (s > 0 <=> r.d > 0)
  <2>1. CASE g > 0
    <3>1. CASE r.d < 0
      <4>1. g * (-1) = -g /\ -g \in Int /\ -Bound <= -g /\ -g < Bound
        BY <1>4, <2>1, BoundIs
      <4>2. s = Wrap(-g)
        BY <1>3, <3>1, <4>1
      <4> QED
        <5>1. s = -g
          BY <4>1, <4>2, WrapIs
        <5> QED
          BY <1>1, <1>4, <2>1, <3>1, <5>1
    <3>2. CASE r.d > 0
      <4>1. s = Wrap(g)
        BY <1>1, <1>3, <1>4, <3>2
      <4> QED
        BY <1>4, <2>1, <3>2, <4>1, WrapIs
    <3> QED
      BY <1>1, <3>1, <3>2
  <2>2. CASE g = -Bound
    <3>1. s = Wrap(Bound)
      BY <1>3, <1>5, <2>2, BoundIs
    <3>2. s = -Bound
      BY <3>1, WrapIs, BoundIs
    <3> QED
      BY <1>5, <2>2, <3>2, BoundIs
  <2> QED
    BY <1>4, <2>1, <2>2
<1>7. Divides(s, r.n) /\ Divides(s, r.d)
  BY <1>1, <1>4, <1>6, DividesNegative
<1>8. ASSUME NEW e \in Int, Divides(e, r.n), Divides(e, r.d) PROVE Divides(e, s)
  BY <1>4, <1>6, <1>8, DividesNegative
<1>9. s \in Int /\ s # 0
  BY <1>4, <1>6, BoundIs
<1> QED
  BY <1>6, <1>7, <1>8, <1>9 DEF s

LEMMA SimplifyIs ==
    ASSUME NEW r \in Rationals
    PROVE  \E k \in Int, l \in Int :
             /\ r.n = DivisorOf(r) * k /\ r.d = DivisorOf(r) * l
             /\ Simplify(r) = [n |-> Wrap(k), d |-> Wrap(l)]
<1> DEFINE s == DivisorOf(r)
<1>1. s \in Int /\ s # 0 /\ Divides(s, r.n) /\ Divides(s, r.d)
  BY DivisorIs
<1>2. Simplify(r) = [n |-> Quot(r.n, s), d |-> Quot(r.d, s)]
  BY DEF Simplify, DivisorOf
<1> HIDE DEF s
<1>3. PICK k \in Int : r.n = s * k
  BY <1>1 DEF Divides
<1>4. PICK l \in Int : r.d = s * l
  BY <1>1 DEF Divides
<1>5. Quot(r.n, s) = Wrap(k) /\ Quot(r.d, s) = Wrap(l)
  BY <1>1, <1>3, <1>4, QuotIs
<1> QED
  BY <1>2, <1>3, <1>4, <1>5 DEF s

(* What simplify gives is a rational whatever has overflowed, and, of one  *)
(* in range, the same value in lowest terms over a positive denominator    *)
(* (Rational.scala:19-22).                                                 *)
THEOREM SimplifyIsInLowestTerms ==
    ASSUME NEW r \in Rationals
    PROVE  /\ Simplify(r) \in Rationals
           /\ InRange(r.n) /\ InRange(r.d) =>
                /\ SameValue(Simplify(r), r)
                /\ Ordinary(Simplify(r))
                /\ \A e \in Int : Divides(e, Simplify(r).n) /\ Divides(e, Simplify(r).d)
                                    => e \in {1, -1}
<1> DEFINE s == DivisorOf(r)
<1>0. r.n \in Int /\ r.d \in Int /\ r.d # 0
  BY WordIs DEF Rationals
<1>1. /\ s \in Int /\ s # 0 /\ (s > 0 <=> r.d > 0)
      /\ \A e \in Int : Divides(e, r.n) /\ Divides(e, r.d) => Divides(e, s)
  BY DivisorIs
<1>2. PICK k \in Int, l \in Int :
        /\ r.n = s * k /\ r.d = s * l
        /\ Simplify(r) = [n |-> Wrap(k), d |-> Wrap(l)]
  BY SimplifyIs
<1> HIDE DEF s
<1>3. /\ Abs(k) <= Abs(r.n) /\ Abs(l) <= Abs(r.d) /\ l # 0
  <2>1. Abs(k) <= Abs(s * k) /\ Abs(l) <= Abs(s * l)
    BY <1>1, <1>2, ProductSigns
  <2>2. l # 0
    BY <1>0, <1>1, <1>2
  <2> QED
    BY <1>2, <2>1, <2>2
<1>4. Wrap(k) \in Word /\ Wrap(l) \in Word
  BY <1>2, WrapIs
<1>5. Wrap(l) # 0
  <2>1. Abs(r.d) <= Bound
    BY WordIs, BoundIs DEF Rationals, Abs
  <2>2. -Bound <= l /\ l <= Bound
    BY <1>0, <1>2, <1>3, <2>1, BoundIs DEF Abs
  <2> QED
    BY <1>2, <1>3, <2>2, WrapIs, BoundIs
<1>6. Simplify(r) \in Rationals
  BY <1>2, <1>4, <1>5 DEF Rationals
<1>7. ASSUME InRange(r.n), InRange(r.d)
      PROVE  /\ SameValue(Simplify(r), r)
             /\ Ordinary(Simplify(r))
             /\ \A e \in Int : Divides(e, Simplify(r).n) /\ Divides(e, Simplify(r).d)
                                 => e \in {1, -1}
  <2>1. Abs(k) < Bound /\ Abs(l) < Bound
    <3>1. Abs(k) \in Int /\ Abs(l) \in Int /\ Abs(r.n) \in Int /\ Abs(r.d) \in Int
      BY <1>0, <1>2, AbsIs
    <3> QED
      BY <1>3, <1>7, <3>1, BoundIs DEF InRange
  <2>2. Wrap(k) = k /\ Wrap(l) = l
    BY <1>2, <2>1, WrapIs, BoundIs DEF Abs
  <2>3. Simplify(r).n = k /\ Simplify(r).d = l
    BY <1>2, <2>2
  <2>4. SameValue(Simplify(r), r)
    <3>1. k * (s * l) = (s * k) * l
      BY <1>1, <1>2
    <3> QED
      BY <1>2, <2>3, <3>1 DEF SameValue
  <2>5. l > 0
    <3>1. CASE s > 0
      BY <1>1, <1>2, <1>3, <3>1, ProductSigns
    <3>2. CASE s < 0
      BY <1>0, <1>1, <1>2, <1>3, <3>2
    <3> QED
      BY <1>1, <3>1, <3>2
  <2>6. ASSUME NEW e \in Int, Divides(e, k), Divides(e, l) PROVE e \in {1, -1}
    <3>1. PICK i \in Int : k = e * i
      BY <2>6 DEF Divides
    <3>2. PICK j \in Int : l = e * j
      BY <2>6 DEF Divides
    <3>3. r.n = (s * e) * i /\ r.d = (s * e) * j /\ s * e \in Int
      BY <1>1, <1>2, <3>1, <3>2
    <3>4. Divides(s * e, s)
      BY <1>1, <3>1, <3>2, <3>3 DEF Divides
    <3>5. PICK m \in Int : s = (s * e) * m
      BY <3>4 DEF Divides
    <3>6. e * m = 1
      BY <1>1, <3>5
    <3> QED
      BY <3>5, <3>6
  <2> QED
    BY <2>1, <2>3, <2>4, <2>5, <2>6 DEF Ordinary, InRange
<1> QED
  BY <1>6, <1>7

-----------------------------------------------------------------------------
(* One operation.                                                          *)

LEMMA RationalIs ==
    ASSUME NEW x
    PROVE  x \in Rationals => /\ x.n \in Int /\ x.d \in Int /\ x.d # 0
                              /\ x.n \in Word /\ x.d \in Word
BY WordIs DEF Rationals

LEMMA UnwrappedIs ==
    ASSUME NEW op \in Operation, NEW x \in Rationals, NEW y \in Rationals
    PROVE  /\ Unwrapped(op, x, y) \in [n : Int, d : Int]
           /\ SameDenominator(op, x, y) =>
                /\ op \in {"+", "-"} /\ x.d = y.d
                /\ Unwrapped(op, x, y).n = (IF op = "+" THEN x.n + y.n ELSE x.n - y.n)
                /\ Unwrapped(op, x, y).d = x.d
           /\ ~SameDenominator(op, x, y) => Unwrapped(op, x, y) = Exact(op, x, y)
           /\ Exact(op, x, y).d = (IF op = "/" THEN x.d * y.n ELSE x.d * y.d)
<1>1. x.n \in Int /\ x.d \in Int /\ y.n \in Int /\ y.d \in Int
  BY RationalIs
<1>2. CASE SameDenominator(op, x, y)
  BY <1>1, <1>2 DEF Unwrapped, SameDenominator, Exact
<1>3. CASE ~SameDenominator(op, x, y)
  BY <1>1, <1>3 DEF Unwrapped, Exact, Operation
<1> QED
  BY <1>2, <1>3

LEMMA UnwrappedDenominator ==
    ASSUME NEW op \in Operation, NEW x \in Rationals, NEW y \in Rationals
    PROVE  Unwrapped(op, x, y).d = IF SameDenominator(op, x, y) THEN x.d
                                   ELSE IF op = "/" THEN x.d * y.n ELSE x.d * y.d
BY UnwrappedIs

LEMMA WrappedIs ==
    ASSUME NEW op \in Operation, NEW x \in Rationals, NEW y \in Rationals
    PROVE  /\ Wrapped(op, x, y).n \in Word /\ Wrapped(op, x, y).d \in Word
           /\ ~Refuses(Wrapped(op, x, y)) => Wrapped(op, x, y) \in Rationals
           /\ Fits(op, x, y) => /\ Wrapped(op, x, y) = Unwrapped(op, x, y)
                                /\ InRange(Wrapped(op, x, y).n) /\ InRange(Wrapped(op, x, y).d)
<1> DEFINE u == Unwrapped(op, x, y)
<1>1. u \in [n : Int, d : Int]
  BY UnwrappedIs
<1>2. Wrapped(op, x, y) = [n |-> Wrap(u.n), d |-> Wrap(u.d)]
  BY DEF Wrapped
<1>3. Fits(op, x, y) => InRange(u.n) /\ InRange(u.d)
  BY DEF Fits
<1> HIDE DEF u
<1>4. Wrap(u.n) \in Word /\ Wrap(u.d) \in Word
  BY <1>1, WrapIs
<1>5. ASSUME NEW i \in Int, InRange(i) PROVE Wrap(i) = i
  BY <1>5, WrapIs, BoundIs DEF InRange, Abs
<1>6. Fits(op, x, y) => Wrap(u.n) = u.n /\ Wrap(u.d) = u.d
  BY <1>1, <1>3, <1>5
<1>7. u = [n |-> u.n, d |-> u.d]
  BY <1>1
<1>8. ~Refuses(Wrapped(op, x, y)) => Wrapped(op, x, y) \in Rationals
  BY <1>2, <1>4 DEF Refuses, Rationals
<1> QED
  BY <1>2, <1>3, <1>4, <1>6, <1>7, <1>8 DEF u

LEMMA AppliedType ==
    ASSUME NEW op \in Operation, NEW x \in Rationals, NEW y \in Rationals, Apply(op, x, y), TypeOK
    PROVE  TypeOK'
<1>1. ~Refuses(Wrapped(op, x, y)) => /\ Wrapped(op, x, y) \in Rationals
                                     /\ Simplify(Wrapped(op, x, y)) \in Rationals
  BY WrappedIs, SimplifyIsInLowestTerms
<1>2. acc' \in Rationals
  BY <1>1 DEF Apply, TypeOK, Rationals
<1>3. regular' \in BOOLEAN
  BY DEF Apply
<1>4. raised' \in {"nothing", "divide by zero", "denominator cannot be zero"}
  BY DEF Apply, TypeOK
<1> QED
  BY <1>2, <1>3, <1>4 DEF TypeOK, Rationals

(* In range, the operands' product of denominators is not lost.            *)
LEMMA AppliedOrdinary ==
    ASSUME NEW op \in Operation, NEW x \in Rationals, NEW y \in Rationals, Apply(op, x, y),
           RegularIsOrdinary
    PROVE  RegularIsOrdinary'
<1> SUFFICES ASSUME regular' PROVE Ordinary(acc')
  BY DEF RegularIsOrdinary
<1> DEFINE w == Wrapped(op, x, y)
<1>1. regular /\ Ordinary(acc) /\ Ordinary(x)
  BY DEF Apply, RegularIsOrdinary
<1>2. CASE DividesByZero(op, y) \/ Refuses(w)
  BY <1>1, <1>2 DEF Apply
<1>3. CASE ~DividesByZero(op, y) /\ ~Refuses(w)
  <2>1. Fits(op, x, y) /\ acc' = (IF SameDenominator(op, x, y) THEN w ELSE Simplify(w))
    BY <1>3 DEF Apply
  <2>2. w \in Rationals /\ InRange(w.n) /\ InRange(w.d) /\ w = Unwrapped(op, x, y)
    BY <1>3, <2>1, WrappedIs
  <2>3. SameDenominator(op, x, y) => Ordinary(w)
    BY <1>1, <2>2, UnwrappedIs DEF Ordinary
  <2>4. Ordinary(Simplify(w))
    BY <2>2, SimplifyIsInLowestTerms
  <2> QED
    BY <2>1, <2>3, <2>4
<1> QED
  BY <1>2, <1>3

LEMMA NonZeroProduct ==
    ASSUME NEW i \in Int, NEW j \in Int, i # 0, j # 0
    PROVE  i * j # 0
OBVIOUS

LEMMA AppliedZeroDenominator ==
    ASSUME NEW op \in Operation, NEW x \in Rationals, NEW y \in Rationals, Apply(op, x, y),
           raised' = "denominator cannot be zero"
    PROVE  ~regular'
<1> DEFINE w == Wrapped(op, x, y)
<1>1. ~DividesByZero(op, y) /\ Refuses(w)
  BY DEF Apply
<1> SUFFICES ASSUME Fits(op, x, y) PROVE FALSE
  BY <1>1 DEF Apply
<1>2. w.d = Unwrapped(op, x, y).d
  BY WrappedIs
<1>3. x.n \in Int /\ x.d \in Int /\ y.n \in Int /\ y.d \in Int /\ x.d # 0 /\ y.d # 0
  BY RationalIs
<1>4. CASE SameDenominator(op, x, y)
  BY <1>1, <1>2, <1>3, <1>4, UnwrappedDenominator DEF Refuses
<1>5. CASE ~SameDenominator(op, x, y)
  <2>1. w.d = (IF op = "/" THEN x.d * y.n ELSE x.d * y.d)
    BY <1>2, <1>5, UnwrappedDenominator
  <2>2. op = "/" => y.n # 0
    BY <1>1 DEF DividesByZero
  <2>3. w.d # 0
    BY <1>3, <2>1, <2>2, NonZeroProduct
  <2> QED
    BY <1>1, <2>3 DEF Refuses
<1> QED
  BY <1>4, <1>5

LEMMA SameDenominatorExact ==
    ASSUME NEW i \in Int, NEW j \in Int, NEW d \in Int
    PROVE  /\ (i + j) * (d * d) = (i * d + j * d) * d
           /\ (i - j) * (d * d) = (i * d - j * d) * d
OBVIOUS

LEMMA AppliedExact ==
    ASSUME NEW op \in Operation, NEW x \in Rationals, NEW y \in Rationals, Apply(op, x, y),
           Fits(op, x, y), raised' = "nothing"
    PROVE  SameValue(acc', Exact(op, x, y))
<1> DEFINE w == Wrapped(op, x, y)
<1>1. /\ ~Refuses(w)
      /\ acc' = (IF SameDenominator(op, x, y) THEN w ELSE Simplify(w))
  BY DEF Apply
<1>2. w \in Rationals /\ InRange(w.n) /\ InRange(w.d) /\ w = Unwrapped(op, x, y)
  BY <1>1, WrappedIs
<1>3. CASE SameDenominator(op, x, y)
  <2>1. x.n \in Int /\ x.d \in Int /\ y.n \in Int
    BY RationalIs
  <2>2. /\ op \in {"+", "-"} /\ x.d = y.d /\ w.d = x.d
        /\ w.n = (IF op = "+" THEN x.n + y.n ELSE x.n - y.n)
    BY <1>2, <1>3, UnwrappedIs
  <2>3. SameValue(w, Exact(op, x, y))
    <3>1. CASE op = "+"
      <4>1. Exact(op, x, y) = [n |-> x.n * x.d + y.n * x.d, d |-> x.d * x.d]
        BY <2>2, <3>1 DEF Exact
      <4> QED
        BY <2>1, <2>2, <3>1, <4>1, SameDenominatorExact DEF SameValue
    <3>2. CASE op = "-"
      <4>1. Exact(op, x, y) = [n |-> x.n * x.d - y.n * x.d, d |-> x.d * x.d]
        BY <2>2, <3>2 DEF Exact
      <4> QED
        BY <2>1, <2>2, <3>2, <4>1, SameDenominatorExact DEF SameValue
    <3> QED
      BY <2>2, <3>1, <3>2
  <2> QED
    BY <1>1, <1>3, <2>3
<1>4. CASE ~SameDenominator(op, x, y)
  BY <1>1, <1>2, <1>4, UnwrappedIs, SimplifyIsInLowestTerms
<1> QED
  BY <1>3, <1>4

-----------------------------------------------------------------------------
(* Computations.                                                           *)

LEMMA LiteralIs == Literal \subseteq Rationals
BY LiteralAssumption DEF Rationals

LEMMA NextIs ==
    ASSUME TypeOK, Next
    PROVE  \/ \E op \in Operation, x \in Rationals, y \in Rationals : Apply(op, x, y)
           \/ Restart
<1>1. acc \in Rationals
  BY DEF TypeOK, Rationals
<1> QED
  BY <1>1, LiteralIs DEF Next

(* A computed value is a pair of machine integers, the second of them not  *)
(* zero (Rational.scala:42-44).                                            *)
THEOREM TypeCorrect == Spec => []TypeOK
<1>1. Init => TypeOK
  BY LiteralAssumption DEF Init, TypeOK, Ordinary
<1>2. TypeOK /\ [Next]_vars => TypeOK'
  <2> SUFFICES ASSUME TypeOK, [Next]_vars PROVE TypeOK'
    OBVIOUS
  <2>1. CASE Restart
    BY <2>1, LiteralAssumption DEF Restart, TypeOK, Ordinary
  <2>2. CASE UNCHANGED vars
    BY <2>2 DEF vars, TypeOK
  <2> QED
    BY <2>1, <2>2, NextIs, AppliedType
<1> QED
  BY <1>1, <1>2, PTL DEF Spec

(* As long as no operation leaves the range and no literal is written with *)
(* a negative denominator, the denominator stays positive: the sign        *)
(* simplify gives its divisor is the one it needs (Rational.scala:19-22).  *)
THEOREM RegularValuesAreOrdinary == Spec => []RegularIsOrdinary
<1>1. Init => RegularIsOrdinary
  BY DEF Init, RegularIsOrdinary
<1>2. TypeOK /\ RegularIsOrdinary /\ [Next]_vars => RegularIsOrdinary'
  <2> SUFFICES ASSUME TypeOK, RegularIsOrdinary, [Next]_vars PROVE RegularIsOrdinary'
    OBVIOUS
  <2>1. CASE Restart
    BY <2>1 DEF Restart, RegularIsOrdinary
  <2>2. CASE UNCHANGED vars
    BY <2>2 DEF vars, RegularIsOrdinary
  <2> QED
    BY <2>1, <2>2, NextIs, AppliedOrdinary
<1> QED
  BY <1>1, <1>2, TypeCorrect, PTL DEF Spec

(* compare is the order of the rationals on such values, as long as its    *)
(* own two products are in range (Rational.scala:57-58).                   *)
LEMMA OrdinaryOrder ==
    ASSUME TypeOK, RegularIsOrdinary
    PROVE  ComputedValuesAreOrdered
<1> SUFFICES ASSUME regular, NEW r \in Literal, r.d > 0, InRange(acc.n * r.d), InRange(r.n * acc.d)
             PROVE  Compare(acc, r) = Order(acc, r)
  BY DEF ComputedValuesAreOrdered
<1>1. acc.n \in Int /\ acc.d \in Int /\ acc.d > 0 /\ r.n \in Int /\ r.d \in Int
  <2>1. acc \in Rationals /\ r \in Rationals
    BY LiteralIs DEF TypeOK, Rationals
  <2> QED
    BY <2>1, RationalIs DEF RegularIsOrdinary, Ordinary
<1> DEFINE i == acc.n * r.d
           j == r.n * acc.d
<1>2. i \in Int /\ j \in Int
  BY <1>1
<1>3. Sign(acc.d) = 1 /\ Sign(r.d) = 1
  BY <1>1 DEF Sign
<1>4. InRange(i) /\ InRange(j)
  OBVIOUS
<1>5. Compare(acc, r) = Sign(Wrap(i) - Wrap(j)) /\ Order(acc, r) = Sign(i - j) * 1 * 1
  BY <1>3 DEF Compare, Order
<1> HIDE DEF i, j
<1>6. Wrap(i) = i /\ Wrap(j) = j
  BY <1>2, <1>4, WrapIs, BoundIs DEF InRange, Abs
<1>7. Sign(i - j) \in Int
  BY <1>2 DEF Sign
<1> QED
  BY <1>5, <1>6, <1>7

(* "returns true if the left hand side is less than the right"             *)
(* (RationalSpec.scala:50-55), of values any computation has made.         *)
THEOREM RegularValuesAreOrdered == Spec => []ComputedValuesAreOrdered
BY TypeCorrect, RegularValuesAreOrdinary, OrdinaryOrder, PTL

(* The exception for a denominator of zero means an overflow               *)
(* (Rational.scala:42-44).                                                 *)
THEOREM ZeroDenominatorsMeanOverflow == Spec => []ZeroDenominatorsComeFromOverflow
<1>1. Init => ZeroDenominatorsComeFromOverflow
  BY DEF Init, ZeroDenominatorsComeFromOverflow
<1>2. TypeOK /\ ZeroDenominatorsComeFromOverflow /\ [Next]_vars => ZeroDenominatorsComeFromOverflow'
  <2> SUFFICES ASSUME TypeOK, ZeroDenominatorsComeFromOverflow, [Next]_vars
               PROVE  ZeroDenominatorsComeFromOverflow'
    OBVIOUS
  <2>1. CASE Restart
    BY <2>1 DEF Restart, ZeroDenominatorsComeFromOverflow
  <2>2. CASE UNCHANGED vars
    BY <2>2 DEF vars, ZeroDenominatorsComeFromOverflow
  <2> QED
    BY <2>1, <2>2, NextIs, AppliedZeroDenominator DEF ZeroDenominatorsComeFromOverflow
<1> QED
  BY <1>1, <1>2, TypeCorrect, PTL DEF Spec

(* "adds the values", "subtracts the values", "multiplies the values",     *)
(* "divides the values" (RationalSpec.scala:7-37), for every pair of       *)
(* operands whose result is in range.                                      *)
THEOREM OperationsInRangeAreExact == Spec => OperationsAreExact
<1>1. TypeOK => [\A op \in Operation, r \in Literal :
        /\ Apply(op, acc, r) /\ Fits(op, acc, r) /\ raised' = "nothing"
                => SameValue(acc', Exact(op, acc, r))
        /\ Apply(op, r, acc) /\ Fits(op, r, acc) /\ raised' = "nothing"
                => SameValue(acc', Exact(op, r, acc))]_vars
  <2>1. TypeOK => acc \in Rationals
    BY DEF TypeOK, Rationals
  <2> QED
    BY <2>1, LiteralIs, AppliedExact
<1> QED
  BY <1>1, TypeCorrect, PTL DEF Spec, OperationsAreExact
=============================================================================

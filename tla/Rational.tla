------------------------------ MODULE Rational ------------------------------
(***************************************************************************)
(* The rational numbers of types/Rational.scala: a numerator and a         *)
(* denominator that are machine integers, whose sums and products wrap     *)
(* around without notice.  An expression is evaluated as a chain of        *)
(* operations on an accumulator and rationals of the dictionary, in either *)
(* order; a step is one operation.                                         *)
(***************************************************************************)
EXTENDS Integers

CONSTANTS
    Bound,   \* 2^31 in the code
    Literal  \* the rationals that dictionaries and clients write down

Word == -Bound .. Bound - 1

(* Rational("n/d"): the pattern admits a negative denominator.             *)
ASSUME LiteralAssumption ==
    /\ Bound \in Nat \ {0}
    /\ Literal \subseteq [n : Word, d : Word \ {0}]

VARIABLES
    acc,      \* the value computed so far
    raised,   \* the exception that ended the computation, if any
    regular   \* history: no overflow and no negative denominator was met

vars == <<acc, raised, regular>>

Operation == {"+", "-", "*", "/"}

-----------------------------------------------------------------------------
(* The machine's arithmetic: division and remainder truncate.              *)

Wrap(i) == ((i + Bound) % (2 * Bound)) - Bound
Abs(i)  == IF i < 0 THEN -i ELSE i
Sign(i) == IF i < 0 THEN -1 ELSE IF i > 0 THEN 1 ELSE 0

Quot(i, j) == Wrap(Sign(i) * Sign(j) * (Abs(i) \div Abs(j)))
Rem(i, j)  == Sign(i) * (Abs(i) % Abs(j))

(* Of a pair of words, by Euclid's algorithm.                              *)
gcd[p \in Word \X Word] ==
    IF p[1] = 0 THEN Wrap(Abs(p[2])) ELSE gcd[<<Rem(p[2], p[1]), p[1]>>]

(* Mutant: the sign of the denominator is left where it is.                *)
SimplifyUnsigned(r) ==
    LET divisor == gcd[<<r.n, r.d>>]
    IN  [n |-> Quot(r.n, divisor), d |-> Quot(r.d, divisor)]

(* It divides by the greatest common divisor, with the denominator's sign. *)
Simplify(r) ==
    LET divisor == Wrap(gcd[<<r.n, r.d>>] * (IF r.d < 0 THEN -1 ELSE 1))
    IN  [n |-> Quot(r.n, divisor), d |-> Quot(r.d, divisor)]

SameDenominator(op, x, y) == op \in {"+", "-"} /\ x.d = y.d

(* Mutant: the operands of a difference are swapped.                       *)
UnwrappedSwapped(op, x, y) ==
    IF SameDenominator(op, x, y)
    THEN [n |-> IF op = "+" THEN x.n + y.n ELSE y.n - x.n, d |-> x.d]
    ELSE CASE op = "+" -> [n |-> x.n * y.d + y.n * x.d, d |-> x.d * y.d]
           [] op = "-" -> [n |-> x.n * y.d - y.n * x.d, d |-> x.d * y.d]
           [] op = "*" -> [n |-> x.n * y.n, d |-> x.d * y.d]
           [] op = "/" -> [n |-> x.n * y.d, d |-> x.d * y.n]

(* The numerator and denominator that are passed on, before they wrap.     *)
Unwrapped(op, x, y) ==
    IF SameDenominator(op, x, y)
    THEN [n |-> IF op = "+" THEN x.n + y.n ELSE x.n - y.n, d |-> x.d]
    ELSE CASE op = "+" -> [n |-> x.n * y.d + y.n * x.d, d |-> x.d * y.d]
           [] op = "-" -> [n |-> x.n * y.d - y.n * x.d, d |-> x.d * y.d]
           [] op = "*" -> [n |-> x.n * y.n, d |-> x.d * y.d]
           [] op = "/" -> [n |-> x.n * y.d, d |-> x.d * y.n]

Wrapped(op, x, y) ==
    LET r == Unwrapped(op, x, y) IN [n |-> Wrap(r.n), d |-> Wrap(r.d)]

(* compare, as -1, 0 or 1.                                                 *)
Compare(x, y) == Sign(Wrap(x.n * y.d) - Wrap(y.n * x.d))

-----------------------------------------------------------------------------
(* An operation is in range when nothing wraps around, at either end.      *)
InRange(i) == Abs(i) < Bound

Fits(op, x, y) ==
    LET r == Unwrapped(op, x, y) IN InRange(r.n) /\ InRange(r.d)

Ordinary(x) == x.d > 0 /\ InRange(x.n)

Init ==
    /\ acc \in Literal
    /\ raised = "nothing"
    /\ regular = Ordinary(acc)

(* Mutant: div does not look at its divisor.                               *)
DividesByZeroNever(op, y) == FALSE

DividesByZero(op, y) == op = "/" /\ y.n = 0

(* Mutant: new Rational(n, d) instead of Rational(n, d).                   *)
RefusesNothing(r) == FALSE

(* Rational(n, d) refuses a denominator that is, or has become, zero.      *)
Refuses(r) == r.d = 0

Apply(op, x, y) ==
    /\ raised = "nothing"
    /\ regular' = /\ regular
                  /\ Ordinary(x) /\ Ordinary(y)
                  /\ DividesByZero(op, y) \/ Fits(op, x, y)
    /\ IF DividesByZero(op, y) THEN raised' = "divide by zero" /\ UNCHANGED acc
       ELSE IF Refuses(Wrapped(op, x, y))
       THEN raised' = "denominator cannot be zero" /\ UNCHANGED acc
       ELSE /\ acc' = IF SameDenominator(op, x, y) THEN Wrapped(op, x, y)
                      ELSE Simplify(Wrapped(op, x, y))
            /\ UNCHANGED raised

(* Another expression is evaluated.                                        *)
Restart ==
    /\ acc' \in Literal
    /\ raised' = "nothing"
    /\ regular' = Ordinary(acc')

Next ==
    \/ \E op \in Operation, r \in Literal : Apply(op, acc, r) \/ Apply(op, r, acc)
    \/ Restart

Spec == Init /\ [][Next]_vars

-----------------------------------------------------------------------------
(* Properties.                                                             *)

TypeOK ==
    /\ acc \in [n : Word, d : Word \ {0}]
    /\ raised \in {"nothing", "divide by zero", "denominator cannot be zero"}
    /\ regular \in BOOLEAN

(* The exact arithmetic: fractions of integers, equal by value, negative   *)
(* denominators included.                                                  *)
Exact(op, x, y) ==
    CASE op = "+" -> [n |-> x.n * y.d + y.n * x.d, d |-> x.d * y.d]
      [] op = "-" -> [n |-> x.n * y.d - y.n * x.d, d |-> x.d * y.d]
      [] op = "*" -> [n |-> x.n * y.n, d |-> x.d * y.d]
      [] op = "/" -> [n |-> x.n * y.d, d |-> x.d * y.n]

SameValue(x, y) == x.n * y.d = y.n * x.d

(* The sign of x - y.                                                      *)
Order(x, y) == Sign(x.n * y.d - y.n * x.d) * Sign(x.d) * Sign(y.d)

(* "adds the values", "subtracts the values", "multiplies the values",     *)
(* "divides the values" (RationalSpec.scala:7-37), whatever came before:   *)
(* an operation that stays in range and does not throw is exact, although  *)
(* the denominators may be negative and fractions not in lowest terms.     *)
OperationsAreExact ==
    [][\A op \in Operation, r \in Literal :
        /\ Apply(op, acc, r) /\ Fits(op, acc, r) /\ raised' = "nothing"
                => SameValue(acc', Exact(op, acc, r))
        /\ Apply(op, r, acc) /\ Fits(op, r, acc) /\ raised' = "nothing"
                => SameValue(acc', Exact(op, r, acc))]_vars

(* Until something overflows or is written with a negative denominator,    *)
(* every computed value has a positive denominator and a numerator with an *)
(* absolute value: simplify moves the sign where it belongs                *)
(* (Rational.scala:19-22).                                                 *)
RegularIsOrdinary == regular => Ordinary(acc)

(* "returns true if the left hand side is less than the right"             *)
(* (RationalSpec.scala:50-55), of computed values: as long as nothing has  *)
(* left the range and no negative denominator was written down, no chain   *)
(* of operations makes a value that compare orders wrongly.                *)
ComputedValuesAreOrdered ==
    regular => \A r \in Literal :
        r.d > 0 /\ InRange(acc.n * r.d) /\ InRange(r.n * acc.d)
            => Compare(acc, r) = Order(acc, r)

(* The exception that rejects a denominator of zero (Rational.scala:42-44) *)
(* is for literals: in the middle of a computation only an overflow can    *)
(* bring it about, a division by zero has its own (Rational.scala:75-77).  *)
ZeroDenominatorsComeFromOverflow ==
    raised = "denominator cannot be zero" => ~regular
=============================================================================

----------------------------- MODULE MCRational -----------------------------
(***************************************************************************)
(* Literals for Rational: zero, fractions with a common and with different *)
(* denominators, negative ones, one with a negative denominator, and the   *)
(* word's least integer.                                                   *)
(***************************************************************************)
EXTENDS Rational

MCLiteral ==
    {[n |-> 0, d |-> 1], [n |-> 3, d |-> 1], [n |-> 1, d |-> 2], [n |-> -3, d |-> 2],
     [n |-> 5, d |-> 6], [n |-> 1, d |-> -2], [n |-> -Bound, d |-> 1]}
=============================================================================

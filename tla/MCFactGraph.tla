----------------------------- MODULE MCFactGraph -----------------------------
(***************************************************************************)
(* Small dictionaries for FactGraph: two writable facts, a and b, whose    *)
(* values are integers, and two derived facts, cap, which reads b, and     *)
(* room, which reads cap and a.  The limits of a are the dictionaries'     *)
(* difference; b has a Max of 1 that only warns.                           *)
(***************************************************************************)
EXTENDS FactGraph, Integers

MCWritable == {"a", "b"}
MCDerived  == {"cap", "room"}
MCResult   == {0, 1, 2, Incomplete}
MCReads    == [d \in MCDerived |-> IF d = "cap" THEN {"b"} ELSE {"cap", "a"}]

Quotient(n, m) == IF m = 0 THEN Raises ELSE n \div m
Monus(n, m)    == IF m > n THEN 0 ELSE n - m

(* A strict operator is Incomplete when one of its arguments is.           *)
Strictly(in, r) ==
    IF \E q \in DOMAIN in : in[q] = Incomplete THEN Incomplete ELSE r

(* cap = 2 - b, or 2 / b; room = cap - a, but never less than zero.        *)
TotalCompute(d, in) ==
    Strictly(in, IF d = "cap" THEN Monus(2, in["b"]) ELSE Monus(in["cap"], in["a"]))

PartialCompute(d, in) ==
    Strictly(in, IF d = "cap" THEN Quotient(2, in["b"]) ELSE Monus(in["cap"], in["a"]))

Exceeds(x, max) == x # Incomplete /\ max # Incomplete /\ x > max

(* a has a Max of 1.                                                       *)
OwnLimitReads == [w \in MCWritable |-> {w}]

OwnVerdict(w, in) ==
    IF w = "a" /\ Exceeds(in["a"], 1) THEN "error"
    ELSE IF w = "b" /\ Exceeds(in["b"], 1) THEN "warn"
    ELSE "ok"

(* a has a Max of cap.  A limit that reads a fact that throws throws.      *)
CrossLimitReads == [w \in MCWritable |-> IF w = "a" THEN {"a", "cap"} ELSE {"b"}]

CrossVerdict(w, in) ==
    IF \E q \in DOMAIN in : in[q] = Raises THEN "raises"
    ELSE IF w = "a" /\ Exceeds(in["a"], in["cap"]) THEN "error"
    ELSE IF w = "b" /\ Exceeds(in["b"], 1) THEN "warn"
    ELSE "ok"

RECURSIVE Meaning(_, _, _)
Meaning(compute(_, _), p, env) ==
    IF env[p] # Unset THEN env[p]
    ELSE IF p \in MCWritable THEN Incomplete
    ELSE IF \E q \in MCReads[p] : Meaning(compute, q, env) = Raises THEN Raises
    ELSE compute(p, [q \in MCReads[p] |-> Meaning(compute, q, env)])

TotalEval(p, env)   == Meaning(TotalCompute, p, env)
PartialEval(p, env) == Meaning(PartialCompute, p, env)

(* A persister without seeds.                                              *)
SpecFromEmpty == Init /\ store = [w \in Writable |-> Unset] /\ [][Next]_vars
=============================================================================

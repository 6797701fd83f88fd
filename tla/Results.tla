------------------------------- MODULE Results -------------------------------
(***************************************************************************)
(* What reading a fact gives (monads/Result.scala) and what the operators  *)
(* of an expression make of the results of their arguments.  A value is    *)
(* complete, or it is a placeholder that rests on a default, or there is   *)
(* none; an evaluation may also throw.  The arguments of an operator are   *)
(* evaluated from left to right, and only as far as it looks.              *)
(***************************************************************************)
EXTENDS Integers, Sequences

Complete(v)    == [state |-> "complete", value |-> v]
Placeholder(v) == [state |-> "placeholder", value |-> v]
Incomplete     == [state |-> "incomplete"]
Raised         == [state |-> "raised"]

ResultOf(v, complete) == IF complete THEN Complete(v) ELSE Placeholder(v)

IsFinal(r)  == r.state = "complete"
HasValue(r) == r.state \in {"complete", "placeholder"}

AsPlaceholder(r) == IF IsFinal(r) THEN Placeholder(r.value) ELSE r

(* The first of a non-empty set of positions.                              *)
First(S) == CHOOSE i \in S : \A j \in S : i <= j

(* The values there are.                                                   *)
Values(rs) == [i \in {i \in DOMAIN rs : HasValue(rs[i])} |-> rs[i].value]

(* The positions of the conditions that have the value true, in order.     *)
Held(rs) ==
    LET held[k \in 0 .. Len(rs)] ==
            IF k = 0 THEN <<>>
            ELSE IF HasValue(rs[k]) /\ rs[k].value THEN Append(held[k - 1], k)
            ELSE held[k - 1]
    IN  held[Len(rs)]

(* Unary, binary and reducing operators, sums and counts: the first        *)
(* argument without a value decides; else the result, the value v of them  *)
(* all, is as complete as they are, and as the vector they come in.        *)
Strictly(v, rs, complete) ==
    LET missing == {i \in DOMAIN rs : ~HasValue(rs[i])}
    IN  IF missing # {} THEN rs[First(missing)]
        ELSE ResultOf(v, complete /\ \A i \in DOMAIN rs : IsFinal(rs[i]))

(* A name v of four parts is made of those that have a value, and asks for *)
(* the first and the third of them only: the others are optional.          *)
NameOf(v, rs) ==
    IF \E i \in DOMAIN rs : rs[i] = Raised THEN Raised
    ELSE ResultOf(v, IsFinal(rs[1]) /\ IsFinal(rs[3]))

(* A writable or derived fact with a default.                              *)
OrDefault(source, default) ==
    IF source = Incomplete THEN AsPlaceholder(default) ELSE source

(* The first case whose condition has the value true is taken, and it is   *)
(* complete when every condition up to its own is.                         *)
Switch(whens, thens) ==
    LET taken == {i \in DOMAIN whens : whens[i] = Raised \/ (HasValue(whens[i]) /\ whens[i].value)}
        i     == First(taken)
    IN  IF taken = {} THEN Incomplete
        ELSE IF whens[i] = Raised THEN Raised
        ELSE IF \A j \in 1 .. i : IsFinal(whens[j]) THEN thens[i]
        ELSE AsPlaceholder(thens[i])

(* Override: its default under its condition, once the source is read.     *)
Override(source, condition, default) ==
    IF source = Raised THEN Raised
    ELSE Switch(<<condition, Complete(TRUE)>>, <<default, source>>)

(* The options of an enum: all of it must be complete, even the names of   *)
(* the options that are not offered.                                       *)
ConditionSet(whens, thens) ==
    LET open(k)  == ~IsFinal(whens[k]) \/ ~IsFinal(thens[k])
        opens    == {k \in DOMAIN whens : open(k)}
        k        == First(opens)
    IN  IF opens = {} THEN Complete([j \in DOMAIN Held(whens) |-> thens[Held(whens)[j]].value])
        ELSE IF whens[k] = Raised \/ (IsFinal(whens[k]) /\ thens[k] = Raised) THEN Raised
        ELSE Incomplete

(* Today v is complete whatever its offset from UTC rests on, and throws   *)
(* when there is none.                                                     *)
TodayAt(v, offset) == IF HasValue(offset) THEN Complete(v) ELSE Raised

(* Mutant: Any stops at the first value true, complete or not.             *)
AnyStops(rs) ==
    LET decisive == {i \in DOMAIN rs : rs[i] = Raised \/ (HasValue(rs[i]) /\ rs[i].value)}
    IN  IF decisive # {}
        THEN LET r == rs[First(decisive)] IN IF r = Raised THEN r ELSE Complete(TRUE)
        ELSE IF Incomplete \in {rs[i] : i \in DOMAIN rs} THEN Incomplete
        ELSE ResultOf(FALSE, \A i \in DOMAIN rs : IsFinal(rs[i]))

(* Any: one complete true is enough, whatever the others are.              *)
AnyOf(rs) ==
    LET decisive == {i \in DOMAIN rs : rs[i] \in {Complete(TRUE), Raised}}
        met      == {rs[i] : i \in DOMAIN rs}
    IN  IF decisive # {} THEN rs[First(decisive)]
        ELSE IF Placeholder(TRUE) \in met THEN Placeholder(TRUE)
        ELSE IF Incomplete \in met THEN Incomplete
        ELSE ResultOf(FALSE, \A i \in DOMAIN rs : IsFinal(rs[i]))

(* All: one complete false is enough.                                      *)
AllOf(rs) ==
    LET decisive == {i \in DOMAIN rs : rs[i] \in {Complete(FALSE), Raised}}
        holds    == \A i \in DOMAIN rs : Values(rs)[i]
    IN  IF decisive # {} THEN rs[First(decisive)] ELSE Strictly(holds, rs, TRUE)

(* Maximum of the elements of a vector: it is strict, except that a first  *)
(* element without a value is asked for it as soon as the second has one.  *)
MaximumOf(rs) ==
    LET values  == {rs[i].value : i \in DOMAIN rs}
        largest == CHOOSE v \in values : \A w \in values : v >= w
    IN  IF rs = <<>> THEN Incomplete
        ELSE IF Len(rs) > 1 /\ rs[1] = Incomplete
        THEN IF HasValue(rs[2]) THEN Raised ELSE rs[2]
        ELSE Strictly(largest, rs, TRUE)

(* Filter: the items whose condition has the value true.                  *)
FilterIn(items, rs, complete) ==
    IF \E i \in DOMAIN rs : rs[i] = Raised THEN Raised
    ELSE ResultOf([k \in DOMAIN Held(rs) |-> items[Held(rs)[k]]],
                  complete /\ \A i \in DOMAIN rs : IsFinal(rs[i]))

(* Find: the first item whose condition has the value true.                *)
FindIn(items, rs) ==
    LET found == {i \in DOMAIN rs : rs[i] = Raised \/ (HasValue(rs[i]) /\ rs[i].value)}
    IN  IF found = {} THEN Incomplete
        ELSE IF rs[First(found)] = Raised THEN Raised
        ELSE Complete(items[First(found)])

(* IndexOf counts from zero; what it finds is complete.                    *)
IndexIn(collection, index) ==
    IF ~HasValue(collection) THEN collection
    ELSE IF ~HasValue(index) THEN index
    ELSE IF index.value + 1 \in DOMAIN collection.value
    THEN Complete(collection.value[index.value + 1])
    ELSE Incomplete

IsComplete(r) == IF r = Raised THEN Raised ELSE Complete(IsFinal(r))
=============================================================================

------------------------------ MODULE Evaluation ------------------------------
(***************************************************************************)
(* Derived facts as expressions (Expression.scala) over persisted facts,   *)
(* their explanations (the explain methods) and the questions that solve   *)
(* them (Explanation.scala).  A client answers questions, changes its      *)
(* answers and takes them back; every step is a call of Graph.set or       *)
(* Graph.delete that no limit refuses, so what is evaluated is what was    *)
(* set (FactGraph models caches and save()).                               *)
(*                                                                         *)
(* An expression is a record: `op' names a case of Expression or an        *)
(* operator, `args' are its arguments.  The dictionary has one collection. *)
(* Where the code works on vectors, an expression is evaluated for each    *)
(* item.                                                                   *)
(***************************************************************************)
EXTENDS Results, FiniteSets, SequencesExt

CONSTANTS
    Root,            \* writable facts outside the collection
    Member,          \* writable facts of each item
    Collection,      \* the path of the collection
    Item,            \* the ids of its items
    Derived,         \* derived facts
    Value,           \* Value[p]: the values of the writable fact p
    Expression,      \* Expression[d]: the expression of d
    Outer,           \* the expressions of derived facts, and below
    Inner,           \* the expressions evaluated for each item, and below
    Depth,           \* Depth[e]: how deep e is nested, dependencies included
    MaxDepth,        \* the depth of the dictionary
    Type,            \* Type[e]: the values of e
    Operation(_, _), \* Operation(f, vs): what the strict operator f computes
    Unset            \* no value

VARIABLE
    facts  \* the persister's map, in three parts: the facts outside the
           \* collection, its items, and the facts of the items

vars == facts

-----------------------------------------------------------------------------
(* Evaluation over a map g of persisted facts.                             *)

Saved(v) == IF v = Unset THEN Incomplete ELSE Complete(v)

(* A path with a wildcard through a collection without a value resolves to *)
(* an empty vector that is not complete.                                   *)
Elements(g) == IF g.items = Unset THEN <<>> ELSE g.items

(* Mutant: the accumulator starts from the first number instead of zero.   *)
SumFromOne(vs) ==
    LET upTo[k \in 0 .. Len(vs)] == IF k = 0 THEN 1 ELSE upTo[k - 1] + vs[k]
    IN  upTo[Len(vs)]

Sum(vs) ==
    LET upTo[k \in 0 .. Len(vs)] == IF k = 0 THEN 0 ELSE upTo[k - 1] + vs[k]
    IN  upTo[Len(vs)]

Count(vs) == Cardinality({k \in DOMAIN vs : vs[k]})

(* The cases of a switch or of an enum: its conditions, then its values.   *)
Whens(xs) == [k \in 1 .. Len(xs) \div 2 |-> xs[k]]
Thens(xs) == [k \in 1 .. Len(xs) \div 2 |-> xs[Len(xs) \div 2 + k]]

(* The result of e, for item i where e is about the items, from those of   *)
(* its arguments.                                                          *)
Apply(e, i, g, rs) ==
    LET computed == Operation(e.name, Values(rs))
        given    == g.items # Unset
    IN  CASE e.op = "constant"    -> Complete(computed)
          [] e.op = "writable"    -> Saved(g.saved[e.path])
          [] e.op = "member"      -> Saved(g.members[<<i, e.path>>])
          [] e.op = "fact"        -> rs[1]
          [] e.op = "strict"      -> Strictly(computed, rs, TRUE)
          [] e.op = "name"        -> NameOf(computed, rs)
          [] e.op = "any"         -> AnyOf(rs)
          [] e.op = "all"         -> AllOf(rs)
          [] e.op = "switch"      -> Switch(Whens(rs), Thens(rs))
          [] e.op = "options"     -> ConditionSet(Whens(rs), Thens(rs))
          [] e.op = "override"    -> Override(rs[1], rs[2], rs[3])
          [] e.op = "today"       -> TodayAt(computed, rs[1])
          [] e.op = "placeholder" -> OrDefault(rs[1], rs[2])
          [] e.op = "sum"         -> Strictly(Sum(Values(rs)), rs, given)
          [] e.op = "count"       -> Strictly(Count(Values(rs)), rs, given)
          [] e.op = "maximum"     -> MaximumOf(rs)
          [] e.op = "filter"      -> FilterIn(Elements(g), rs, given)
          [] e.op = "find"        -> FindIn(Elements(g), rs)
          [] e.op = "indexOf"     -> IndexIn(Saved(g.items), rs[1])
          [] e.op = "isComplete"  -> IsComplete(rs[1])

(* Where expressions are evaluated: for an item, or for none.              *)
Site == (Outer \X {Unset}) \cup (Inner \X Item)

(* A dependency reads the fact's expression.                               *)
Arguments(e) == IF e.op = "fact" THEN <<Expression[e.path]>> ELSE e.args

OnItems == {"sum", "count", "maximum", "filter", "find"}

(* The evaluations that the evaluation of e for i asks for.                *)
Asked(e, i, g) ==
    IF e.op \in OnItems
    THEN [k \in DOMAIN Elements(g) |-> <<Arguments(e)[1], Elements(g)[k]>>]
    ELSE [k \in DOMAIN Arguments(e) |-> <<Arguments(e)[k], i>>]

(* The collection is a list of items.                                      *)
Orders == {s \in SeqOf(Item, Cardinality(Item)) : IsInjective(s)}

Through(f, sites) == <<>> \o [k \in DOMAIN sites |-> f[sites[k]]]

Get(g) ==
    LET get[s \in Site] == Apply(s[1], s[2], g, Through(get, Asked(s[1], s[2], g)))
    IN  get

Result(d, g) == Get(g)[<<Expression[d], Unset>>]

-----------------------------------------------------------------------------
(* Dictionaries the parser accepts.                                        *)

(* An operator has as many arguments as it takes, each of a type it is     *)
(* written for: S are those it may be given values of.                     *)
WellTyped(e) ==
    LET n           == Len(Arguments(e))
        half        == n \div 2
        TypeAt(k)   == Type[Arguments(e)[k]]
        Guarded     == {TypeAt(half + k) : k \in 1 .. half}
        Choosing    == n = 2 * half /\ \A k \in 1 .. half : TypeAt(k) \subseteq BOOLEAN
        Computes(S) == \A vs \in [S -> UNION {TypeAt(k) : k \in 1 .. n}] :
                           (\A k \in S : vs[k] \in TypeAt(k)) => Operation(e.name, vs) \in Type[e]
    IN  CASE e.op = "constant"    -> n = 0 /\ Computes({})
          [] e.op = "writable"    -> n = 0 /\ e.path \in Root /\ Value[e.path] \subseteq Type[e]
          [] e.op = "member"      -> n = 0 /\ e.path \in Member /\ Value[e.path] \subseteq Type[e]
          [] e.op = "fact"        -> TypeAt(1) \subseteq Type[e]
          [] e.op = "strict"      -> n > 0 /\ Computes(1 .. n)
          [] e.op = "name"        -> n = 4 /\ \A S \in SUBSET (1 .. n) : Computes(S)
          [] e.op \in {"any", "all"} ->
                (\A k \in 1 .. n : TypeAt(k) \subseteq BOOLEAN) /\ BOOLEAN \subseteq Type[e]
          [] e.op = "switch"      -> Choosing /\ \A T \in Guarded : T \subseteq Type[e]
          [] e.op = "options"     -> n > 0 /\ Choosing /\ SeqOf(UNION Guarded, half) \subseteq Type[e]
          [] e.op = "override"    ->
                n = 3 /\ TypeAt(2) \subseteq BOOLEAN /\ TypeAt(1) \cup TypeAt(3) \subseteq Type[e]
          [] e.op = "today"       -> n = 1 /\ Computes({1})
          [] e.op = "placeholder" -> n = 2 /\ TypeAt(1) \cup TypeAt(2) \subseteq Type[e]
          [] e.op = "sum"         ->
                /\ n = 1 /\ TypeAt(1) \subseteq Int
                /\ \A v, w \in TypeAt(1) \cup {0} :
                       Cardinality(Item) * v .. Cardinality(Item) * w \subseteq Type[e]
          [] e.op = "count"       ->
                n = 1 /\ TypeAt(1) \subseteq BOOLEAN /\ 0 .. Cardinality(Item) \subseteq Type[e]
          [] e.op = "maximum"     -> n = 1 /\ TypeAt(1) \subseteq Type[e] \cap Int
          [] e.op = "filter"      -> n = 1 /\ TypeAt(1) \subseteq BOOLEAN /\ Orders \subseteq Type[e]
          [] e.op = "find"        -> n = 1 /\ TypeAt(1) \subseteq BOOLEAN /\ Item \subseteq Type[e]
          [] e.op = "indexOf"     -> n = 1 /\ TypeAt(1) \subseteq Int /\ Item \subseteq Type[e]
          [] e.op = "isComplete"  -> n = 1 /\ BOOLEAN \subseteq Type[e]
          [] OTHER -> FALSE

(* Only the elements of the collection have members; what is evaluated for *)
(* each of them is the argument of an operator on the collection.          *)
ASSUME Scoping ==
    /\ IsFiniteSet(Item)
    /\ \A d \in Derived : Expression[d] \in Outer
    /\ \A e \in Outer \cup Inner : Arguments(e) \in Seq(Outer \cup Inner)
    /\ \A e \in Outer :
           /\ e.op # "member"
           /\ IF e.op \in OnItems THEN Arguments(e)[1] \in Inner ELSE Arguments(e) \in Seq(Outer)
    /\ \A e \in Inner : Arguments(e) \in Seq(Inner)

(* No fact depends on itself.                                              *)
ASSUME Nesting ==
    /\ MaxDepth \in Nat
    /\ \A e \in Outer \cup Inner :
           /\ Depth[e] \in 0 .. MaxDepth
           /\ \A k \in DOMAIN Arguments(e) : Depth[Arguments(e)[k]] < Depth[e]

ASSUME Typing == \A e \in Outer \cup Inner : WellTyped(e)

ASSUME UnsetIsNoValue ==
    /\ Unset \notin Item \cup Orders
    /\ \A p \in Root \cup Member : Unset \notin Value[p]

-----------------------------------------------------------------------------
(* Explanations.  A dependency explains as an operation whose only child   *)
(* is the fact's explanation.  An explanation is known by the facts at its *)
(* leaves and by what its solves gives: the sets of questions whose        *)
(* answers would do, one from each child of a list, in no order; or an     *)
(* exception, for it reduces each list of children.                        *)

(* One question from each of these.                                        *)
Combined(xs) ==
    LET questions == UNION {xs[k].solves : k \in DOMAIN xs}
        chosen    == {f \in [DOMAIN xs -> questions] : \A k \in DOMAIN xs : f[k] \in xs[k].solves}
    IN  {UNION {f[k] : k \in DOMAIN xs} : f \in chosen}

Explained(lists) ==
    [facts  |-> UNION {UNION {lists[j][k].facts : k \in DOMAIN lists[j]} : j \in DOMAIN lists},
     solves |-> UNION {Combined(lists[j]) : j \in DOMAIN lists},
     throws |-> \E j \in DOMAIN lists :
                    DOMAIN lists[j] = {} \/ \E k \in DOMAIN lists[j] : lists[j][k].throws]

Constant          == [facts |-> {}, solves |-> {}, throws |-> FALSE]
Writable(p, done) == [facts |-> {p}, solves |-> IF done THEN {} ELSE {{{p}}}, throws |-> FALSE]
Unexplained       == [raised |-> TRUE]

Inclusive(xs) == Explained(<<xs>>)
Exclusive(xs) == Explained([k \in DOMAIN xs |-> <<xs[k]>>])

(* An explanation for which the explanations xs are made first.            *)
After(xs, x) ==
    IF \E k \in DOMAIN xs : xs[k] = Unexplained THEN Unexplained ELSE x

Of(xs) == After(xs, Inclusive(xs))

(* Mutant: the explanation starts from one list without a child.           *)
DecidingFromEmpty(value, rs, xs) ==
    LET decisive == {k \in DOMAIN rs : rs[k] \in {Complete(value), Raised}}
        k        == First(decisive)
    IN  IF decisive = {} THEN Explained(<<<<>>>> \o [j \in DOMAIN xs |-> <<xs[j]>>])
        ELSE IF rs[k] = Raised THEN Unexplained
        ELSE Inclusive(<<xs[k]>>)

(* Any and All: the first argument that decides, or each on its own.       *)
Deciding(value, rs, xs) ==
    LET decisive == {k \in DOMAIN rs : rs[k] \in {Complete(value), Raised}}
        k        == First(decisive)
    IN  IF decisive = {} THEN Exclusive(xs)
        ELSE IF rs[k] = Raised THEN Unexplained
        ELSE Inclusive(<<xs[k]>>)

(* Mutant: of the cases passed over, no condition is explained.            *)
CasesTaken(whens, whenXs, thenXs) ==
    LET open == {k \in DOMAIN whens : whens[k] # Complete(FALSE)}
        k    == First(open)
    IN  IF open = {} THEN Exclusive(whenXs)
        ELSE IF whens[k] = Raised THEN Unexplained
        ELSE IF whens[k] = Complete(TRUE) THEN Inclusive(<<whenXs[k], thenXs[k]>>)
        ELSE Inclusive(<<whenXs[k]>>)

(* Switch: the conditions up to the first that is not a complete false,    *)
(* and the value it guards if it is a complete true.                       *)
Cases(whens, whenXs, thenXs) ==
    LET open == {k \in DOMAIN whens : whens[k] # Complete(FALSE)}
        k    == First(open)
        last == IF whens[k] = Complete(TRUE) THEN <<whenXs[k], thenXs[k]>> ELSE <<whenXs[k]>>
    IN  IF open = {} THEN Exclusive(whenXs)
        ELSE IF whens[k] = Raised THEN Unexplained
        ELSE Explained([j \in 1 .. k |-> IF j < k THEN <<whenXs[j]>> ELSE last])

(* Override: a switch whose second case always holds.                      *)
Overriding(rs, xs) ==
    Cases(<<rs[2], Complete(TRUE)>>, <<xs[2], Constant>>, <<xs[3], xs[1]>>)

(* The explanation of e from its arguments' results and explanations.      *)
Account(e, i, g, rs, xs) ==
    CASE e.op = "constant" -> Constant
      [] e.op = "writable" -> Writable(<<e.path>>, g.saved[e.path] # Unset)
      [] e.op = "member"   -> Writable(<<i, e.path>>, g.members[<<i, e.path>>] # Unset)
      [] e.op \in OnItems \cup {"fact", "strict", "name", "options", "isComplete", "today"} -> Of(xs)
      [] e.op = "any"      -> After(xs, Deciding(TRUE, rs, xs))
      [] e.op = "all"      -> After(xs, Deciding(FALSE, rs, xs))
      [] e.op = "switch"   -> After(xs, Cases(Whens(rs), Whens(xs), Thens(xs)))
      [] e.op = "override" -> After(xs, Of(<<xs[1], Overriding(rs, xs)>>))
      [] e.op = "placeholder" -> Of(<<xs[1]>>)
      [] e.op = "indexOf"  -> Of(<<Inclusive(<<Writable(<<Collection>>, g.items # Unset)>>), xs[1]>>)

Explain(g) ==
    LET explain[s \in Site] ==
            LET asked == Asked(s[1], s[2], g)
            IN  Account(s[1], s[2], g, Through(Get(g), asked), Through(explain, asked))
    IN  explain

Explanation(d, g) == Explain(g)[<<Expression[d], Unset>>]

-----------------------------------------------------------------------------
(* What clients do.                                                        *)

Init ==
    facts = [saved   |-> [p \in Root |-> Unset],
             items   |-> Unset,
             members |-> [m \in Item \X Member |-> Unset]]

SetFact(p, v) == facts' = [facts EXCEPT !.saved[p] = v]

DeleteFact(p) == facts' = [facts EXCEPT !.saved[p] = Unset]

(* The path of a member resolves only through the collection.              *)
Resolves(i) == i \in ToSet(Elements(facts))

SetMember(i, x, v) ==
    /\ Resolves(i)
    /\ facts' = [facts EXCEPT !.members[<<i, x>>] = v]

DeleteMember(i, x) ==
    /\ Resolves(i)
    /\ facts' = [facts EXCEPT !.members[<<i, x>>] = Unset]

(* Fact.set refuses to remove an item.                                     *)
SetItems(s) ==
    /\ ToSet(Elements(facts)) \subseteq ToSet(s)
    /\ facts' = [facts EXCEPT !.items = s]

(* An item is deleted with its facts; the collection, without them.        *)
DeleteItem(i) ==
    /\ Resolves(i)
    /\ facts' = [facts EXCEPT
            !.items   = RemoveAt(@, CHOOSE k \in DOMAIN @ : @[k] = i),
            !.members = [m \in DOMAIN @ |-> IF m[1] = i THEN Unset ELSE @[m]]]

DeleteItems == facts' = [facts EXCEPT !.items = Unset]

Next ==
    \/ \E p \in Root : DeleteFact(p) \/ \E v \in Value[p] : SetFact(p, v)
    \/ \E i \in Item, x \in Member : DeleteMember(i, x) \/ \E v \in Value[x] : SetMember(i, x, v)
    \/ \E s \in Orders : SetItems(s)
    \/ \E i \in Item : DeleteItem(i)
    \/ DeleteItems

Spec == Init /\ [][Next]_vars

-----------------------------------------------------------------------------
(* Properties.                                                             *)

(* Persisted facts.                                                        *)
Persisted(g) ==
    /\ g = [saved   |-> [p \in Root |-> g.saved[p]],
            items   |-> g.items,
            members |-> [m \in Item \X Member |-> g.members[m]]]
    /\ \A p \in Root : g.saved[p] \in Value[p] \cup {Unset}
    /\ \A m \in Item \X Member : g.members[m] \in Value[m[2]] \cup {Unset}
    /\ g.items \in Orders \cup {Unset}

(* Results that have a value have one of their fact's type.                *)
TypeOK ==
    /\ Persisted(facts)
    /\ \A d \in Derived : HasValue(Result(d, facts)) => Result(d, facts).value \in Type[Expression[d]]

(* Facts that rest on a search, an index, a name, a date or a question of  *)
(* completeness: Find, IndexOf, TruncateNameForMeF, Today and IsComplete   *)
(* are complete over arguments that are not.                               *)
provisional[e \in Outer \cup Inner] ==
    \/ e.op \in {"find", "indexOf", "name", "isComplete", "today"}
    \/ \E k \in DOMAIN Arguments(e) : provisional[Arguments(e)[k]]

Settled == {d \in Derived : ~provisional[Expression[d]]}

(* The step answers questions and changes no answer.                       *)
Answering ==
    /\ \A p \in Root : facts.saved[p] \in {Unset, facts'.saved[p]}
    /\ \A m \in Item \X Member : facts.members[m] \in {Unset, facts'.members[m]}
    /\ facts.items \in {Unset, facts'.items}

(* A complete result is definitive (README.md:129): however much is still  *)
(* unanswered, no further answer changes it.  It may still throw, where a  *)
(* Maximum does.                                                           *)
CompleteIsFinal ==
    [][Answering =>
        \A d \in Settled :
            LET r == Result(d, facts) IN
            IsFinal(r) => Result(d, facts') \in {r, Raised}]_vars

(* The writable facts a step sets or deletes.                              *)
Edited ==
    {<<p>> : p \in {p \in Root : facts'.saved[p] # facts.saved[p]}}
        \cup {m \in Item \X Member : facts'.members[m] # facts.members[m]}

(* The explanation of a fact names every question that could complete it   *)
(* and every answer its complete result rests on (Explanation.scala:3-5):  *)
(* an edit of any other fact does neither.  New and lost items are not     *)
(* explained, and a condition that throws leaves no explanation.           *)
ExplainedOnly ==
    [][facts'.items = facts.items =>
        \A d \in Settled :
            LET x == Explanation(d, facts)
                r == Result(d, facts)
                s == Result(d, facts')
            IN  \/ x = Unexplained
                \/ Edited \cap x.facts # {}
                \/ Raised \in {r, s}
                \/ ~IsFinal(r) /\ ~IsFinal(s)
                \/ r = s]_vars

(* Asking what to answer throws only about a collection without items      *)
(* (Explanation.scala:81): never because nothing is left to answer.        *)
SolvesRaisesOnNoItems ==
    \A d \in Derived :
        LET x == Explanation(d, facts) IN
        x # Unexplained /\ x.throws => Elements(facts) = <<>>

(* "finds the maximum in a collection and returns incomplete if not all    *)
(* items are complete" (MaximumSpec.scala:200).                            *)
MaximumIsIncomplete ==
    \A d \in Derived :
        LET e == Expression[d] IN
        (/\ e.op = "maximum"
         /\ \E k \in DOMAIN Elements(facts) : ~HasValue(Get(facts)[<<e.args[1], Elements(facts)[k]>>]))
            => Result(d, facts) = Incomplete
=============================================================================

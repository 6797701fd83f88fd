---------------------------- MODULE MCEvaluation ----------------------------
(***************************************************************************)
(* A dictionary for Evaluation: a question a, a number n, a collection of  *)
(* items that have an amount and a mark, and a derived fact for every      *)
(* operator, some of them over the others.                                 *)
(***************************************************************************)
EXTENDS Evaluation

CONSTANTS i1, i2

Fact(p)       == [op |-> "fact", path |-> p]
Const(name)   == [op |-> "constant", name |-> name, args |-> <<>>]
Of1(op, e)    == [op |-> op, args |-> <<e>>]
Op(op, args)  == [op |-> op, args |-> args]
F(name, args) == [op |-> "strict", name |-> name, args |-> args]
A             == [op |-> "writable", path |-> "a", args |-> <<>>]
N             == [op |-> "writable", path |-> "n", args |-> <<>>]
Amount        == [op |-> "member", path |-> "amount", args |-> <<>>]
Marked        == [op |-> "member", path |-> "marked", args |-> <<>>]
Default(e, v) == [op |-> "placeholder", args |-> <<e, v>>]

MCRoot   == {"a", "n"}
MCMember == {"amount", "marked"}
MCItem   == {i1, i2}

MCExpression ==
    [guess   |-> Default(A, F("positive", <<N>>)),
     total   |-> Of1("sum", Amount),
     marks   |-> Of1("count", Default(Marked, Const("false"))),
     largest |-> Of1("maximum", Amount),
     enough  |-> F("more", <<Fact("total"), N>>),
     either  |-> Op("any", <<A, Fact("enough"), Fact("guess")>>),
     both    |-> Op("all", <<Fact("guess"), Fact("enough"), A>>),
     chosen  |-> Op("switch", <<Fact("guess"), Fact("either"), F("not", <<A>>)>>
                                  \o <<Fact("total"), Fact("marks"), N>>),
     longest |-> Op("any", <<F("more", <<Fact("largest"), N>>), A>>),
     selected |-> Of1("filter", Default(Marked, A)),
     few     |-> F("small", <<Fact("selected")>>),
     name    |-> [op |-> "name", name |-> "join", args |-> <<N, Fact("total"), Fact("marks"), N>>],
     options |-> Op("options", <<A, Fact("enough")>> \o <<Fact("total"), N>>),
     forced  |-> Op("override", <<N, Fact("either"), Fact("total")>>),
     today   |-> [op |-> "today", name |-> "day", args |-> <<Default(N, Fact("total"))>>],
     first   |-> Of1("find", Default(Marked, A)),
     nth     |-> Of1("indexOf", Default(N, Const("zero"))),
     known   |-> Of1("isComplete", Fact("enough"))]

MCDerived == DOMAIN MCExpression

MCValue ==
    [p \in MCRoot \cup MCMember |-> IF p \in {"n", "amount"} THEN {0, 1} ELSE BOOLEAN]

MCOperation(f, vs) ==
    CASE f = "false"    -> FALSE
      [] f = "zero"     -> 0
      [] f = "positive" -> vs[1] > 0
      [] f = "more"     -> vs[1] > vs[2]
      [] f = "not"      -> ~vs[1]
      [] f = "join"     -> FoldFunction(LAMBDA x, y : x + y, 0, vs)
      [] f = "day"      -> vs[1]
      [] f = "small"    -> Len(vs[1]) < 2

-----------------------------------------------------------------------------
(* What the dictionary's parser knows of its expressions.                  *)

MCArguments(e) == IF e.op = "fact" THEN <<MCExpression[e.path]>> ELSE e.args

RECURSIVE Below(_)
Below(e) == {e} \cup UNION {Below(a) : a \in Range(MCArguments(e))}

RECURSIVE Around(_)
Around(e) ==
    {e} \cup IF e.op \in OnItems THEN {} ELSE UNION {Around(a) : a \in Range(MCArguments(e))}

MCAll   == UNION {Below(MCExpression[d]) : d \in MCDerived}
MCOuter == UNION {Around(MCExpression[d]) : d \in MCDerived}
MCInner == UNION {Below(e.args[1]) : e \in {e \in MCAll : e.op \in OnItems}}

RECURSIVE DepthOf(_)
DepthOf(e) ==
    IF MCArguments(e) = <<>> THEN 0 ELSE 1 + Max({DepthOf(a) : a \in Range(MCArguments(e))})

MCDepth    == [e \in MCAll |-> DepthOf(e)]
MCMaxDepth == Max(Range(MCDepth))

RECURSIVE TypeOf(_)
TypeOf(e) ==
    LET args == MCArguments(e)
    IN  CASE e.op \in {"writable", "member"} -> MCValue[e.path]
          [] e.op \in {"any", "all", "isComplete"} -> BOOLEAN
          [] e.op \in {"strict", "constant"} ->
                IF e.name = "zero" THEN {0} ELSE BOOLEAN
          [] e.op \in {"fact", "maximum", "today"} -> TypeOf(args[1])
          [] e.op \in {"placeholder", "override"} -> TypeOf(args[1]) \cup TypeOf(Last(args))
          [] e.op = "switch" -> UNION {TypeOf(a) : a \in Range(Thens(args))}
          [] e.op = "options" -> SeqOf(UNION {TypeOf(a) : a \in Range(Thens(args))}, 2)
          [] e.op \in {"sum", "count"} -> 0 .. 2
          [] e.op = "name" -> 0 .. 6
          [] e.op = "filter" -> Orders
          [] e.op \in {"find", "indexOf"} -> MCItem

MCType == [e \in MCAll |-> TypeOf(e)]
=============================================================================

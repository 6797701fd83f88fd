---------------------------- MODULE MCCollections ----------------------------
(***************************************************************************)
(* A dictionary with a collection c whose items have a limited fact x and  *)
(* a collection s, whose items have a fact y.  c may hold one item, by its *)
(* MaxCollectionSize; s and y have no limits.  The limit of x may throw on *)
(* `odd', a value only the first item gets; of the other, x is ever `bad', *)
(* and the limit of either x is judged on whichever comes first in c.      *)
(***************************************************************************)
EXTENDS Collections

CONSTANTS OuterItem, first, InnerItem, MaxOuter, MaxInner, good, bad, odd, Thrown

Top == <<"c">>
Ss  == {<<"c", first, "s">>}
Xs  == {<<"c", i, "x">> : i \in OuterItem}
Ys  == {<<"c", first, "s", j, "y">> : j \in InnerItem}

MCKey        == {"c", "x", "s", "y"}
MCItem       == OuterItem \cup InnerItem
MCCollection == {Top} \cup Ss
MCField      == Xs \cup Ys
MCItemsOf    == [c \in MCCollection |-> IF c = Top THEN OuterItem ELSE InnerItem]
MCMaxItems   == [c \in MCCollection |-> IF c = Top THEN MaxOuter ELSE MaxInner]
MCMaxSize    == [c \in MCCollection |-> IF c = Top THEN 1 ELSE MaxInner]
MCLimited    == {Top} \cup Xs
MCValue      == [p \in MCField |-> IF p \notin Xs THEN {good}
                                ELSE IF p[2] = first THEN {good, odd} ELSE {bad}]
MCAllowed    == [p \in MCField |-> MCValue[p] \cap {good}]
MCThrowing   == [p \in MCField |-> MCValue[p] \cap Thrown]
=============================================================================

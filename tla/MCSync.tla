------------------------------- MODULE MCSync -------------------------------
(***************************************************************************)
(* Three releases of a dictionary with an address u and a collection c     *)
(* whose items have a fact x.  The second release changes the type of x,   *)
(* has m2 and writes short type names; the third has a text at u, another  *)
(* at c, and no x.  The pattern of m2 tells a bad street, not a bad city.  *)
(***************************************************************************)
EXTENDS Sync

MCPlain        == {"u", "c"}
MCMember       == {"x1", "x2"}
MCCollectionOf == [p \in MCMember |-> "c"]
MCItemOf       == [p \in MCMember |-> IF p = "x1" THEN "i1" ELSE "i2"]

MCValue == {"7", "yes", "valid address", "bad street", "bad city", "no items", "i1", "i1 and i2"}
MCKind  ==
    [v \in MCValue |-> CASE v = "7" -> "int"
                         [] v = "yes" -> "text"
                         [] v \in {"no items", "i1", "i1 and i2"} -> "collection"
                         [] OTHER -> "address"]
MCItems ==
    [v \in MCValue |-> CASE v = "i1" -> {"i1"}
                         [] v = "i1 and i2" -> {"i1", "i2"}
                         [] OTHER -> {}]

MCTotal    == <<1, 2, 2>>
MCFull     == <<TRUE, FALSE, FALSE>>
MCShown    == {"u", "x1"}
MCDeclared ==
    <<[u |-> "address", c |-> "collection", x1 |-> "int", x2 |-> "int"],
      [u |-> "address", c |-> "collection", x1 |-> "text", x2 |-> "text"],
      [u |-> "text",    c |-> "text",       x1 |-> "none", x2 |-> "none"]>>
=============================================================================

------------------------------- MODULE MCServer -------------------------------
(***************************************************************************)
(* Two dictionaries.  d1 defines a fact that both items of a collection    *)
(* have, jobs of the first and kids of the other; it is a collection       *)
(* itself, of one item or two.  Its limit is judged on jobs: `two' is      *)
(* refused while kids is unset, and what it reads of all items throws if   *)
(* there is one in each.  d2 defines only a path with a wildcard that      *)
(* resolves to nothing.  One saved graph, and one graph of each dictionary *)
(* is made.  In ServerRaces.cfg only jobs has a limit, which never throws. *)
(***************************************************************************)
EXTENDS Server, TLC

CONSTANTS d1, d2, jobs, kids, one, two

MCTyped ==
    [d \in Dictionary |-> [f \in Fact |->
        IF d = d2 THEN {} ELSE IF f = jobs THEN {one, two} ELSE {one}]]
MCAllowed ==
    [d \in Dictionary |-> [f \in Fact |-> {m \in Facts : m[jobs] = two => m[kids] # Unset}]]
MCThrowing ==
    [d \in Dictionary |-> [f \in Fact |-> {m \in Facts : m[jobs] = one /\ m[kids] = one}]]
MCTargets  == [d \in Dictionary |-> IF d = d1 THEN {{}, {jobs}, {jobs, kids}} ELSE {{}}]
MCEdits    == [f \in Fact |-> {<<Unset, one>>, <<one, one>>, <<one, two>>, <<two, one>>}]
MCRefused  == [f \in Fact |-> {<<two, one>>}]
MCMaxGraphs == [d \in Dictionary \cup {None} |-> 1]
MCFiles    == {[f \in Fact |-> IF f = jobs THEN two ELSE Unset]}

JobsAlone  == [d \in Dictionary |-> [f \in Fact |-> {m \in Facts : f = jobs => m[jobs] # two}]]
Nothing    == [d \in Dictionary |-> [f \in Fact |-> {}]]
Plain      == [d \in Dictionary |-> {{f} : f \in Fact}]

Workers == Permutations(Worker)
=============================================================================

--------------------------- MODULE CommittedGraph ---------------------------
(***************************************************************************)
(* What a fact graph promises its client: edits are staged, a save()       *)
(* publishes all of them or none, it publishes none of them while an edit  *)
(* made since the last save() breaks a limit of its own fact, and a read   *)
(* always gives the meaning of a fact over the published facts.  There is  *)
(* no cache, no snapshot and no mode: this is the specification FactGraph  *)
(* implements, for dictionaries whose expressions never throw.             *)
(***************************************************************************)

CONSTANTS Writable, Derived, Value, Unset, LimitReads, Verdict(_, _), Eval(_, _)

VARIABLES
    committed,  \* the published value of each writable fact
    staged,     \* its edited value
    unchecked,  \* the facts given a value since the last save()
    answer      \* the last read and its result

vars == <<committed, staged, unchecked, answer>>

(* A map of writable facts with no derived fact overridden.                *)
Persisted(st) ==
    [p \in Writable \cup Derived |-> IF p \in Writable THEN st[p] ELSE Unset]

LevelIn(w, st) == Verdict(w, [q \in LimitReads[w] |-> Eval(q, Persisted(st))])

Init ==
    /\ committed \in [Writable -> Value \cup {Unset}]
    /\ staged = committed
    /\ unchecked = {}
    /\ answer = [path |-> Unset, result |-> Unset]

Edit(w, v) ==
    /\ staged' = [staged EXCEPT ![w] = v]
    /\ unchecked' = unchecked \cup {w}
    /\ UNCHANGED <<committed, answer>>

Withdraw(w) ==
    /\ staged' = [staged EXCEPT ![w] = Unset]
    /\ unchecked' = unchecked \ {w}
    /\ UNCHANGED <<committed, answer>>

Commit ==
    /\ \A w \in unchecked : LevelIn(w, staged) \in {"ok", "warn"}
    /\ committed' = staged
    /\ unchecked' = {}
    /\ UNCHANGED <<staged, answer>>

Refuse ==
    /\ \E w \in unchecked : LevelIn(w, staged) = "error"
    /\ unchecked' = {}
    /\ UNCHANGED <<committed, staged, answer>>

Read(p) ==
    /\ answer' = [path |-> p, result |-> Eval(p, Persisted(committed))]
    /\ UNCHANGED <<committed, staged, unchecked>>

Next ==
    \/ \E w \in Writable, v \in Value : Edit(w, v)
    \/ \E w \in Writable : Withdraw(w)
    \/ Commit
    \/ Refuse
    \/ \E p \in Writable \cup Derived : Read(p)

Spec == Init /\ [][Next]_vars
=============================================================================

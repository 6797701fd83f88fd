-------------------------------- MODULE Demo --------------------------------
(***************************************************************************)
(* The demonstration page (demo/loader.js): a form that sets a fact, one   *)
(* that reads a fact, an error line and a view of the graph, over one      *)
(* graph (FactGraph) that starts empty.  The page's handlers run to        *)
(* completion, so while one runs the only steps are its own and those of   *)
(* the save() it waits for.                                                *)
(***************************************************************************)
EXTENDS FactGraph

VARIABLES
    handler,  \* what setFact waits for: its call of set, or of save
    error,    \* whether the page shows an error
    shown     \* the graph it shows

page     == <<handler, error, shown>>
demoVars == <<vars, page>>

(* setGraph makes the graph; a dictionary is loaded once.                  *)
DemoInit ==
    /\ Init
    /\ store = [w \in Writable |-> Unset]
    /\ handler = "none"
    /\ error = FALSE
    /\ shown = store

GetFact(p) ==
    /\ handler = "none"
    /\ GetKnown(p) \/ GetFresh(p)
    /\ UNCHANGED page

(* A value of the type of a fact that may be set reaches Graph.set, which  *)
(* saves.                                                                  *)
Submit(p, v) ==
    /\ handler = "none"
    /\ GraphSet(p, v)
    /\ handler' = "set"
    /\ UNCHANGED <<error, shown>>

(* Text that is no value of the fact's type is reported in what set()      *)
(* returns, which the page does not look at.                               *)
SubmitUnreadable ==
    /\ handler = "none"
    /\ GraphSave
    /\ handler' = "save"
    /\ UNCHANGED <<error, shown>>

(* A derived fact outside a test dictionary, or a path of no fact: set()   *)
(* throws.                                                                 *)
SubmitUnwritable ==
    /\ handler = "none"
    /\ error' = TRUE
    /\ UNCHANGED <<vars, handler, shown>>

Run ==
    /\ Save
    /\ UNCHANGED page

(* A save() that threw has left the persister validating; only an error    *)
(* thrown by set() is shown.                                               *)
Throw ==
    /\ handler # "none"
    /\ ~saving
    /\ validating
    /\ handler' = "none"
    /\ error' = (error \/ handler = "set")
    /\ UNCHANGED <<vars, shown>>

(* The violations that set() returns are dropped, and the page saves.      *)
SaveAfterSet ==
    /\ handler = "set"
    /\ ~saving
    /\ ~validating
    /\ GraphSave
    /\ handler' = "save"
    /\ UNCHANGED <<error, shown>>

DisplayGraph ==
    /\ handler = "save"
    /\ ~saving
    /\ ~validating
    /\ handler' = "none"
    /\ error' = FALSE
    /\ shown' = store
    /\ UNCHANGED vars

DemoNext ==
    \/ \E p \in Fact : GetFact(p)
    \/ \E p \in Fact, v \in Value : Submit(p, v)
    \/ SubmitUnreadable
    \/ SubmitUnwritable
    \/ Run
    \/ Throw
    \/ SaveAfterSet
    \/ DisplayGraph

DemoSpec == DemoInit /\ [][DemoNext]_demoVars

-----------------------------------------------------------------------------
(* The persistence guide's "Enforce limits on save"                        *)
(* (docs/persistence-guide.md:39), as the page's user sees it: a graph     *)
(* that is shown without an error holds no value that breaks a limit of    *)
(* its own fact.                                                           *)
ShownWithinLimits == ~error => WithinLimits(shown)

(* When a form has been dealt with and no error is displayed, the page     *)
(* shows every value that was entered, and these are what the graph reads  *)
(* (loader.js:38-59).  The page clears the error whenever its own save()   *)
(* returns, whatever became of values whose set() threw before: but their  *)
(* limits throw again in every save() until another set() goes through.    *)
PageIsCurrent == handler = "none" /\ ~error => shown = live /\ store = live
=============================================================================

------------------------------ MODULE FactGraph ------------------------------
(***************************************************************************)
(* The core of the fact graph: a Graph (Graph.scala), its Facts            *)
(* (Fact.scala) and its InMemoryPersister (InMemoryPersister.scala).       *)
(*                                                                         *)
(* Writable facts are edited in the persister's map `live' and queued in   *)
(* `toValidate'; save() validates the queued facts' limits over a snapshot *)
(* of `live' and, if no limit of level Error is violated, publishes it as  *)
(* `store', the map every read is served from.  Derived facts are computed *)
(* on demand and memoised in `resultCache'.                                *)
(*                                                                         *)
(* One step is one completed call of Fact.get, Fact.set or Fact.delete, or *)
(* one phase of save().  A graph has one caller at a time: while save() is *)
(* on the stack (`saving') the only steps are its own.  A nested           *)
(* evaluation is the sequence of its Fact.get calls, innermost first.      *)
(* checkPersister, and the caches it leaves behind, are in Sync.           *)
(***************************************************************************)

CONSTANTS
    Writable,       \* paths of the dictionary's writable facts
    Derived,        \* paths of its derived facts
    Value,          \* the values a fact may be set to
    Result,         \* what reading a fact may give
    Incomplete,     \* Result.Incomplete
    Unset,          \* the absence of a key in one of the Maps
    Raises,         \* the outcome of an evaluation that throws
    Reads,          \* Reads[d]: the facts the expression of d depends on
    Compute(_, _),  \* Compute(d, in): the value of d's expression on its reads
    LimitReads,     \* LimitReads[w]: the facts the limits of w depend on
    Verdict(_, _),  \* Verdict(w, in): the worst level of the limits w violates
    Eval(_, _),     \* Eval(p, env): the meaning of p when env is persisted
    TestDictionary  \* whether derived facts may be overridden

Fact == Writable \cup Derived

Level == {"ok", "warn", "error", "raises"}

ASSUME DictionaryAssumption ==
    /\ Writable \cap Derived = {}
    /\ Value \subseteq Result
    /\ Incomplete \in Result
    /\ Unset \notin Result
    /\ Raises \notin Result \cup {Unset}
    /\ Reads \in [Derived -> SUBSET Fact]
    /\ LimitReads \in [Writable -> SUBSET Fact]
    /\ TestDictionary \in BOOLEAN

ASSUME ExpressionAssumption ==
    /\ \A d \in Derived : \A in \in [Reads[d] -> Result] :
            Compute(d, in) \in Result \cup {Raises}
    /\ \A w \in Writable : \A in \in [LimitReads[w] -> Result] :
            Verdict(w, in) \in Level

(* A persisted value for each writable fact and an overriding one for      *)
(* derived facts: all that the meaning of a fact depends on.               *)
Env == [Fact -> Value \cup {Unset}]

(* Eval gives every fact the meaning the dictionary defines for it.        *)
ASSUME EvalAssumption ==
    \A env \in Env : \A p \in Fact :
        Eval(p, env) =
            IF env[p] # Unset THEN env[p]
            ELSE IF p \in Writable THEN Incomplete
            ELSE IF \E q \in Reads[p] : Eval(q, env) = Raises THEN Raises
            ELSE Compute(p, [q \in Reads[p] |-> Eval(q, env)])

VARIABLES
    live,             \* the persister's edited map
    store,            \* its committed map
    validationStore,  \* the snapshot limits are evaluated over
    validating,       \* whether reads are served from that snapshot
    toValidate,       \* the facts set since the last completed validation
    resultCache,      \* the graph's memoised results
    overriddenFacts,  \* the derived facts a test dictionary overrides
    saving,           \* whether a call of save() is on the stack
    remaining,        \* the queued facts this save() has yet to validate
    issues,           \* the levels of the violations it has met
    outcome,          \* how the last completed save() ended
    answer            \* the last read a client made and its result

persister == <<live, store, validationStore, validating, toValidate>>
call      == <<saving, remaining, issues, outcome>>
vars      == <<persister, call, resultCache, overriddenFacts, answer>>

NoFacts == [p \in Fact |-> Unset]
NoOverrides == [d \in Derived |-> Unset]
NoAnswer == [path |-> Unset, result |-> Unset]

(* A persister starts with any map: its seeds or a JSON file, neither of   *)
(* which is validated.                                                     *)
Init ==
    /\ store \in [Writable -> Value \cup {Unset}]
    /\ live = store
    /\ validationStore = store
    /\ validating = FALSE
    /\ toValidate = {}
    /\ resultCache = NoFacts
    /\ overriddenFacts = NoOverrides
    /\ saving = FALSE
    /\ remaining = {}
    /\ issues = {}
    /\ outcome = "none"
    /\ answer = NoAnswer

-----------------------------------------------------------------------------
(* Reads.                                                                  *)

(* Mutant: reads see the edits.                                            *)
ServedEdits == IF validating THEN validationStore ELSE live

(* InMemoryPersister.getSavedResult reads this map.                        *)
Served == IF validating THEN validationStore ELSE store

(* Mutant: Fact.get does not look for an override.                         *)
NeverOverridden(p) == FALSE

Overridden(p) == p \in Derived /\ overriddenFacts[p] # Unset
Cached(p)     == resultCache[p] # Unset
Known(p)      == Overridden(p) \/ Cached(p)

(* What Fact.get returns for a fact it need not evaluate.                  *)
Recall(p) == IF Overridden(p) THEN overriddenFacts[p] ELSE resultCache[p]

(* What evaluating p gives once the facts it reads are known.              *)
Fresh(p) ==
    IF p \in Writable
    THEN IF Served[p] = Unset THEN Incomplete ELSE Served[p]
    ELSE Compute(p, [q \in Reads[p] |-> Recall(q)])

Ready(p) ==
    /\ ~Known(p)
    /\ p \in Derived => \A q \in Reads[p] : Known(q)

(* Fact.get missing the cache: resultCache.getOrElseUpdate.  An evaluation *)
(* that throws stores nothing.                                             *)
Memoise(p) ==
    /\ Ready(p)
    /\ Fresh(p) # Raises
    /\ resultCache' = [resultCache EXCEPT ![p] = Fresh(p)]

(* A client's Graph.get of a fact that is overridden or cached.            *)
GetKnown(p) ==
    /\ ~saving
    /\ Known(p)
    /\ answer' = [path |-> p, result |-> Recall(p)]
    /\ UNCHANGED <<persister, call, resultCache, overriddenFacts>>

(* A client's Graph.get of a fact that must be evaluated.                  *)
GetFresh(p) ==
    /\ ~saving
    /\ Memoise(p)
    /\ answer' = [path |-> p, result |-> Fresh(p)]
    /\ UNCHANGED <<persister, call, overriddenFacts>>

-----------------------------------------------------------------------------
(* Edits.                                                                  *)

(* Mutant: a fact that has a committed value is not queued again.          *)
StageNewOnly(w, v) ==
    /\ live' = [live EXCEPT ![w] = v]
    /\ toValidate' = IF store[w] = Unset THEN toValidate \cup {w} ELSE toValidate

(* InMemoryPersister.setFact.                                              *)
Stage(w, v) ==
    /\ live' = [live EXCEPT ![w] = v]
    /\ toValidate' = toValidate \cup {w}

(* Mutant: Incomplete is stored instead of the key being removed.          *)
UnstageToIncomplete(w) ==
    /\ live' = [live EXCEPT ![w] = Incomplete]
    /\ toValidate' = toValidate \ {w}

(* InMemoryPersister.deleteFact of a fact that is no collection item.      *)
Unstage(w) ==
    /\ live' = [live EXCEPT ![w] = Unset]
    /\ toValidate' = toValidate \ {w}

(* Fact.set: a writable fact is staged; a derived one is refused unless    *)
(* the dictionary is a test dictionary, which overrides it.                *)
SetFact(p, v) ==
    \/ /\ p \in Writable
       /\ Stage(p, v)
       /\ UNCHANGED overriddenFacts
    \/ /\ p \in Derived
       /\ TestDictionary
       /\ overriddenFacts' = [overriddenFacts EXCEPT ![p] = v]
       /\ UNCHANGED <<live, toValidate>>

(* Fact.delete: drops an override, unstages a writable fact and does       *)
(* nothing to another derived fact.                                        *)
DeleteFact(p) ==
    \/ /\ p \in Writable
       /\ Unstage(p)
       /\ UNCHANGED overriddenFacts
    \/ /\ p \in Derived
       /\ overriddenFacts' = [overriddenFacts EXCEPT ![p] = Unset]
       /\ UNCHANGED <<live, toValidate>>

(* Mutants: the cache is not cleared before the validation; the fact just  *)
(* set is not among those validated.                                       *)
BeginSaveWarm ==
    /\ validationStore' = live'
    /\ validating' = TRUE
    /\ saving' = TRUE
    /\ remaining' = toValidate'
    /\ issues' = {}
    /\ UNCHANGED <<store, resultCache, outcome, answer>>

BeginSaveOldQueue ==
    /\ resultCache' = NoFacts
    /\ validationStore' = live'
    /\ validating' = TRUE
    /\ saving' = TRUE
    /\ remaining' = toValidate
    /\ issues' = {}
    /\ UNCHANGED <<store, outcome, answer>>

(* The first half of Graph.save: both caches are cleared, then the         *)
(* persister takes its snapshot and serves reads from it.                  *)
BeginSave ==
    /\ resultCache' = NoFacts
    /\ validationStore' = live'
    /\ validating' = TRUE
    /\ saving' = TRUE
    /\ remaining' = toValidate'
    /\ issues' = {}
    /\ UNCHANGED <<store, outcome, answer>>

(* Fact.set and Fact.delete called on the fact itself, without a save().   *)
FactSet(p, v) ==
    /\ ~saving
    /\ SetFact(p, v)
    /\ UNCHANGED <<store, validationStore, validating, call, resultCache, answer>>

FactDelete(p) ==
    /\ ~saving
    /\ DeleteFact(p)
    /\ UNCHANGED <<store, validationStore, validating, call, resultCache, answer>>

(* Graph.set, Graph.delete and Graph.save up to the validation.  Setting a *)
(* path that resolves to no fact is a bare save().                         *)
GraphSet(p, v) ==
    /\ ~saving
    /\ SetFact(p, v)
    /\ BeginSave

GraphDelete(p) ==
    /\ ~saving
    /\ DeleteFact(p)
    /\ BeginSave

GraphSave ==
    /\ ~saving
    /\ UNCHANGED <<live, toValidate, overriddenFacts>>
    /\ BeginSave

-----------------------------------------------------------------------------
(* The rest of save(): InMemoryPersister.save between taking the snapshot  *)
(* and returning, and what Graph.save does with the result.                *)

(* The facts evaluated on the way to the limits of w: the least set with   *)
(* the facts these limits read and, with a derived fact that is not        *)
(* overridden, what it reads.                                              *)
Demanded(w) ==
    {q \in Fact : \A S \in SUBSET Fact :
        (/\ LimitReads[w] \subseteq S
         /\ \A d \in S \cap Derived : Overridden(d) \/ Reads[d] \subseteq S) => q \in S}

(* The limits' evaluation memoises a fact they need.                       *)
EvaluateForLimit(p) ==
    /\ saving
    /\ \E w \in remaining : p \in Demanded(w)
    /\ Memoise(p)
    /\ UNCHANGED <<persister, call, overriddenFacts, answer>>

LimitInputs(w) == [q \in LimitReads[w] |-> Recall(q)]

LimitsReady(w) == \A q \in LimitReads[w] : Known(q)

(* Fact.validate of one queued fact.                                       *)
ValidateFact(w) ==
    /\ saving
    /\ w \in remaining
    /\ LimitsReady(w)
    /\ Verdict(w, LimitInputs(w)) # "raises"
    /\ issues' = issues \cup {Verdict(w, LimitInputs(w))}
    /\ remaining' = remaining \ {w}
    /\ UNCHANGED <<persister, saving, outcome, resultCache, overriddenFacts, answer>>

(* Mutant: a save() that throws empties the queue.                         *)
SaveRaisesDropsQueue ==
    /\ saving
    /\ \E w \in remaining :
        \/ LimitsReady(w) /\ Verdict(w, LimitInputs(w)) = "raises"
        \/ \E p \in Demanded(w) : Ready(p) /\ Fresh(p) = Raises
    /\ saving' = FALSE
    /\ toValidate' = {}
    /\ remaining' = {}
    /\ issues' = {}
    /\ UNCHANGED <<live, store, validationStore, validating, outcome,
                   resultCache, overriddenFacts, answer>>

(* Mutant: the exception is caught and the validation starts again.        *)
SaveRaisesRetries ==
    /\ saving
    /\ \E w \in remaining :
        \/ LimitsReady(w) /\ Verdict(w, LimitInputs(w)) = "raises"
        \/ \E p \in Demanded(w) : Ready(p) /\ Fresh(p) = Raises
    /\ remaining' = toValidate
    /\ issues' = {}
    /\ resultCache' = NoFacts
    /\ UNCHANGED <<persister, saving, outcome, overriddenFacts, answer>>

(* A limit, or a fact it needs, throws: the exception leaves save() with   *)
(* `validating' still set and the queue untouched.                         *)
SaveRaises ==
    /\ saving
    /\ \E w \in remaining :
        \/ LimitsReady(w) /\ Verdict(w, LimitInputs(w)) = "raises"
        \/ \E p \in Demanded(w) : Ready(p) /\ Fresh(p) = Raises
    /\ saving' = FALSE
    /\ remaining' = {}
    /\ issues' = {}
    /\ UNCHANGED <<persister, outcome, resultCache, overriddenFacts, answer>>

Validated ==
    /\ saving
    /\ remaining = {}

EndSave ==
    /\ toValidate' = {}
    /\ validating' = FALSE
    /\ saving' = FALSE
    /\ issues' = {}
    /\ UNCHANGED <<live, validationStore, remaining, overriddenFacts, answer>>

(* Mutant: only a save() whose every issue is an error is refused.         *)
SaveCommitsPartly ==
    /\ Validated
    /\ issues # {"error"}
    /\ store' = live
    /\ outcome' = "saved"
    /\ EndSave
    /\ UNCHANGED resultCache

(* No violation, or warnings only.                                         *)
SaveCommits ==
    /\ Validated
    /\ "error" \notin issues
    /\ store' = live
    /\ outcome' = "saved"
    /\ EndSave
    /\ UNCHANGED resultCache

(* Mutant: the results computed from the refused snapshot are kept.        *)
SaveRejectsWarm ==
    /\ Validated
    /\ "error" \in issues
    /\ outcome' = "rejected"
    /\ EndSave
    /\ UNCHANGED <<store, resultCache>>

(* The results computed from the refused snapshot are dropped; `live'      *)
(* keeps the refused values.                                               *)
SaveRejects ==
    /\ Validated
    /\ "error" \in issues
    /\ resultCache' = NoFacts
    /\ outcome' = "rejected"
    /\ EndSave
    /\ UNCHANGED store

Client ==
    \/ \E p \in Fact : GetKnown(p) \/ GetFresh(p) \/ FactDelete(p) \/ GraphDelete(p)
    \/ \E p \in Fact, v \in Value : FactSet(p, v) \/ GraphSet(p, v)
    \/ GraphSave

Save ==
    \/ \E p \in Fact : EvaluateForLimit(p)
    \/ \E w \in Writable : ValidateFact(w)
    \/ SaveRaises
    \/ SaveCommits
    \/ SaveRejects

Next == Client \/ Save

Spec == Init /\ [][Next]_vars

(* save() runs on its caller's thread: once begun it keeps taking steps.   *)
FairSpec == Spec /\ WF_vars(Save)

-----------------------------------------------------------------------------
(* Properties.                                                             *)

TypeOK ==
    /\ live \in [Writable -> Value \cup {Unset}]
    /\ store \in [Writable -> Value \cup {Unset}]
    /\ validationStore \in [Writable -> Value \cup {Unset}]
    /\ validating \in BOOLEAN
    /\ toValidate \subseteq Writable
    /\ resultCache \in [Fact -> Result \cup {Unset}]
    /\ overriddenFacts \in [Derived -> Value \cup {Unset}]
    /\ saving \in BOOLEAN
    /\ remaining \subseteq Writable
    /\ issues \subseteq Level
    /\ outcome \in {"none", "saved", "rejected"}
    /\ answer \in [path : Fact \cup {Unset}, result : Result \cup {Unset}]

(* The environment in which st is persisted, with the current overrides.   *)
EnvOf(st) == [p \in Fact |-> IF p \in Writable THEN st[p] ELSE overriddenFacts[p]]

(* No memoised result is stale: each is what its definition gives over the *)
(* map reads are served from, in the middle of save(), after a refused one *)
(* and after one that threw (Graph.scala:142-151, Fact.scala:28-38).       *)
CacheMatchesServed ==
    \A p \in Fact : Cached(p) => resultCache[p] = Eval(p, EnvOf(Served))

(* Outside save() every memoised result comes from committed facts: no     *)
(* client computes with a value that was never saved.                      *)
CacheMatchesStore ==
    ~saving => \A p \in Fact : Cached(p) => resultCache[p] = Eval(p, EnvOf(store))

(* Unless the last completed save() was refused, every value that the next *)
(* one would publish is queued for validation (InMemoryPersister.scala:33-60):       *)
(* nothing slips past its limits by being set, deleted or set again, or by *)
(* a save() that threw.                                                    *)
UnsavedIsQueued ==
    outcome # "rejected" =>
        \A w \in Writable : live[w] \notin {store[w], Unset} => w \in toValidate

MeaningIn(w, env) == [q \in LimitReads[w] |-> Eval(q, env)]
LevelIn(w, env)   == Verdict(w, MeaningIn(w, env))

(* A commit is of the very map that was validated, and every queued fact's *)
(* limits hold in it with the meaning the dictionary gives the facts they  *)
(* read (InMemoryPersister.scala:176-187).                                 *)
CommitIsValidated ==
    [][store' # store =>
        /\ store' = validationStore
        /\ \A w \in toValidate : LevelIn(w, EnvOf(store')) \in {"ok", "warn"}]_vars

(* Every call of save() returns or throws: whatever throws, is overridden  *)
(* or is refused on the way, no queued fact keeps the validation waiting   *)
(* for a result nothing computes (InMemoryPersister.scala:176-187).        *)
SaveEnds == saving ~> ~saving

(* The invariant the proofs rest on, in any dictionary: the cache is       *)
(* coherent, except for overrides that were not saved; a running save()    *)
(* validates the map it will publish; `issues' is the tally of the facts   *)
(* it has validated, over that map; unvalidated values are queued.         *)
Coherent == ~TestDictionary \/ saving => CacheMatchesServed

SnapshotIsLive ==
    IF saving
    THEN validating /\ validationStore = live /\ remaining \subseteq toValidate
    ELSE remaining = {} /\ issues = {}

Tally ==
    /\ "raises" \notin issues
    /\ saving => issues = {LevelIn(w, EnvOf(live)) : w \in toValidate \ remaining}

OverridesOnlyInTests == TestDictionary \/ overriddenFacts = NoOverrides

SaveInvariant ==
    /\ TypeOK
    /\ Coherent
    /\ SnapshotIsLive
    /\ Tally
    /\ OverridesOnlyInTests
    /\ UnsavedIsQueued

(* No value in st breaks a limit of its own fact.                          *)
WithinLimits(st) ==
    \A w \in Writable :
        st[w] # Unset => LevelIn(w, EnvOf(st)) # "error"

(* A dictionary in which no expression and no limit throws.                *)
NeverRaises ==
    /\ \A d \in Derived : \A in \in [Reads[d] -> Result] : Compute(d, in) # Raises
    /\ \A w \in Writable : \A in \in [LimitReads[w] -> Result] :
            Verdict(w, in) # "raises"

(* The graph keeps the promises of CommittedGraph: what is read, staged,   *)
(* published and refused is what a graph without caches, snapshot and      *)
(* validating mode would do (Graph.scala:91-151).                          *)
Committed ==
    INSTANCE CommittedGraph
    WITH committed <- store, staged <- live, unchecked <- toValidate

ImplementsCommittedGraph == Committed!Spec
=============================================================================

--------------------------- MODULE FactGraphProofs ---------------------------
(***************************************************************************)
(* Theorems about FactGraph, for every dictionary: any set of facts, any   *)
(* expressions and any limits that satisfy FactGraph's assumptions.        *)
(***************************************************************************)
EXTENDS Demo, TLAPS

-----------------------------------------------------------------------------
(* Types.                                                                  *)

LEMMA FreshType ==
    ASSUME TypeOK, NEW p \in Fact, Ready(p)
    PROVE  Fresh(p) \in Result \cup {Raises}
<1>1. CASE p \in Writable
  BY <1>1, DictionaryAssumption DEF Fresh, Served, TypeOK
<1>2. CASE p \in Derived /\ p \notin Writable
  <2>1. \A q \in Reads[p] : Recall(q) \in Result
    BY <1>2, DictionaryAssumption DEF Ready, Known, Overridden, Cached, Recall, TypeOK, Fact
  <2>2. [q \in Reads[p] |-> Recall(q)] \in [Reads[p] -> Result]
    BY <2>1
  <2> QED
    BY <1>2, <2>2, ExpressionAssumption DEF Fresh
<1> QED
  BY <1>1, <1>2 DEF Fact

LEMMA LimitInputsType ==
    ASSUME TypeOK, NEW w \in Writable, LimitsReady(w)
    PROVE  /\ LimitInputs(w) \in [LimitReads[w] -> Result]
           /\ Verdict(w, LimitInputs(w)) \in Level
<1>1. \A q \in LimitReads[w] : Recall(q) \in Result
  BY DictionaryAssumption DEF LimitsReady, Known, Overridden, Cached, Recall, TypeOK, Fact
<1>2. LimitInputs(w) \in [LimitReads[w] -> Result]
  BY <1>1 DEF LimitInputs
<1> QED
  BY <1>2, ExpressionAssumption

LEMMA MemoiseType ==
    ASSUME TypeOK, NEW p \in Fact, Memoise(p)
    PROVE  /\ Fresh(p) \in Result
           /\ resultCache' \in [Fact -> Result \cup {Unset}]
BY FreshType DEF Memoise, TypeOK

LEMMA InitTypeOK == Init => TypeOK
<1> SUFFICES ASSUME Init PROVE TypeOK
  OBVIOUS
<1>1. NoFacts \in [Fact -> Result \cup {Unset}]
  BY DEF NoFacts
<1>2. NoOverrides \in [Derived -> Value \cup {Unset}]
  BY DEF NoOverrides
<1>3. NoAnswer \in [path : Fact \cup {Unset}, result : Result \cup {Unset}]
  BY DEF NoAnswer
<1> QED
  BY <1>1, <1>2, <1>3 DEF Init, TypeOK

LEMMA StepTypeOK == TypeOK /\ [Next]_vars => TypeOK'
<1> SUFFICES ASSUME TypeOK, [Next]_vars PROVE TypeOK'
  OBVIOUS
<1> USE DEF persister, call
<1>1. ASSUME NEW p \in Fact, GetKnown(p) PROVE TypeOK'
  BY <1>1, DictionaryAssumption DEF GetKnown, Known, Overridden, Cached, Recall, TypeOK
<1>2. ASSUME NEW p \in Fact, GetFresh(p) PROVE TypeOK'
  BY <1>2, MemoiseType DEF GetFresh, TypeOK
<1>3. ASSUME NEW p \in Fact, NEW v \in Value, SetFact(p, v)
      PROVE  /\ live' \in [Writable -> Value \cup {Unset}]
             /\ toValidate' \subseteq Writable
             /\ overriddenFacts' \in [Derived -> Value \cup {Unset}]
  BY <1>3 DEF SetFact, Stage, TypeOK
<1>4. ASSUME NEW p \in Fact, DeleteFact(p)
      PROVE  /\ live' \in [Writable -> Value \cup {Unset}]
             /\ toValidate' \subseteq Writable
             /\ overriddenFacts' \in [Derived -> Value \cup {Unset}]
  BY <1>4 DEF DeleteFact, Unstage, TypeOK
<1>5. ASSUME NEW p \in Fact, NEW v \in Value, FactSet(p, v) PROVE TypeOK'
  BY <1>3, <1>5 DEF FactSet, TypeOK
<1>6. ASSUME NEW p \in Fact, FactDelete(p) PROVE TypeOK'
  BY <1>4, <1>6 DEF FactDelete, TypeOK
<1>7. ASSUME BeginSave,
             live' \in [Writable -> Value \cup {Unset}],
             toValidate' \subseteq Writable,
             overriddenFacts' \in [Derived -> Value \cup {Unset}]
      PROVE  TypeOK'
  BY <1>7 DEF BeginSave, NoFacts, TypeOK
<1>8. ASSUME NEW p \in Fact, NEW v \in Value, GraphSet(p, v) PROVE TypeOK'
  BY <1>3, <1>7, <1>8 DEF GraphSet
<1>9. ASSUME NEW p \in Fact, GraphDelete(p) PROVE TypeOK'
  BY <1>4, <1>7, <1>9 DEF GraphDelete
<1>10. ASSUME GraphSave PROVE TypeOK'
  BY <1>7, <1>10 DEF GraphSave, TypeOK
<1>11. ASSUME NEW p \in Fact, EvaluateForLimit(p) PROVE TypeOK'
  BY <1>11, MemoiseType DEF EvaluateForLimit, TypeOK
<1>12. ASSUME NEW w \in Writable, ValidateFact(w) PROVE TypeOK'
  BY <1>12, LimitInputsType DEF ValidateFact, TypeOK
<1>13. ASSUME SaveRaises PROVE TypeOK'
  BY <1>13 DEF SaveRaises, TypeOK
<1>14. ASSUME SaveCommits PROVE TypeOK'
  BY <1>14 DEF SaveCommits, Validated, EndSave, TypeOK
<1>15. ASSUME SaveRejects PROVE TypeOK'
  BY <1>15 DEF SaveRejects, Validated, EndSave, NoFacts, TypeOK
<1>16. ASSUME UNCHANGED vars PROVE TypeOK'
  BY <1>16 DEF vars, TypeOK
<1> QED
  BY <1>1, <1>2, <1>5, <1>6, <1>8, <1>9, <1>10, <1>11, <1>12, <1>13, <1>14,
     <1>15, <1>16 DEF Next, Client, Save

(* Every variable keeps its type: in particular no exception is ever       *)
(* memoised (Fact.scala:36-38).                                            *)
THEOREM TypeCorrect == Spec => []TypeOK
BY InitTypeOK, StepTypeOK, PTL DEF Spec

-----------------------------------------------------------------------------
(* The meaning of what is in the cache.                                    *)

LEMMA ServedEnv == TypeOK => EnvOf(Served) \in Env /\ EnvOf(live) \in Env
BY DictionaryAssumption DEF EnvOf, Env, Served, TypeOK, Fact

(* Recalling a known fact gives its meaning.                               *)
LEMMA RecallIsMeaning ==
    ASSUME TypeOK, CacheMatchesServed, NEW p \in Fact, Known(p)
    PROVE  /\ Recall(p) = Eval(p, EnvOf(Served))
           /\ Recall(p) \in Result
<1>1. CASE Overridden(p)
  <2>1. EnvOf(Served)[p] = overriddenFacts[p]
    BY <1>1, DictionaryAssumption DEF EnvOf, Overridden, Fact
  <2> QED
    BY <1>1, <2>1, ServedEnv, EvalAssumption, DictionaryAssumption
    DEF Recall, Overridden, TypeOK
<1>2. CASE ~Overridden(p)
  BY <1>2 DEF CacheMatchesServed, Known, Cached, Recall, TypeOK
<1> QED
  BY <1>1, <1>2

(* Evaluating a fact from the known facts it reads gives its meaning.      *)
LEMMA FreshIsMeaning ==
    ASSUME TypeOK, CacheMatchesServed, NEW p \in Fact, Ready(p)
    PROVE  Fresh(p) = Eval(p, EnvOf(Served))
<1> DEFINE env == EnvOf(Served)
<1>1. env \in Env
  BY ServedEnv
<1>2. CASE p \in Writable
  <2>1. env[p] = Served[p]
    BY <1>2 DEF EnvOf, Fact
  <2> QED
    BY <1>1, <1>2, <2>1, EvalAssumption DEF Fresh
<1>3. CASE p \in Derived /\ p \notin Writable
  <2>1. env[p] = Unset
    BY <1>3 DEF EnvOf, Ready, Known, Overridden
  <2>2. \A q \in Reads[p] : Recall(q) = Eval(q, env) /\ Recall(q) # Raises
    BY <1>3, RecallIsMeaning, DictionaryAssumption DEF Ready, Fact
  <2>3. [q \in Reads[p] |-> Recall(q)] = [q \in Reads[p] |-> Eval(q, env)]
    BY <2>2
  <2>4. ~\E q \in Reads[p] : Eval(q, env) = Raises
    BY <2>2
  <2>5. Eval(p, env) = Compute(p, [q \in Reads[p] |-> Eval(q, env)])
    BY <1>1, <1>3, <2>1, <2>4, EvalAssumption
  <2> QED
    BY <1>3, <2>3, <2>5 DEF Fresh
<1> QED
  BY <1>2, <1>3 DEF Fact

LEMMA LimitInputsMeaning ==
    ASSUME TypeOK, CacheMatchesServed, NEW w \in Writable, LimitsReady(w)
    PROVE  LimitInputs(w) = MeaningIn(w, EnvOf(Served))
<1>1. \A q \in LimitReads[w] : Recall(q) = Eval(q, EnvOf(Served))
  BY RecallIsMeaning, DictionaryAssumption DEF LimitsReady
<1> QED
  BY <1>1 DEF LimitInputs, MeaningIn

(* A step that keeps the served map and the overrides, and adds at most    *)
(* one evaluated fact to the cache, keeps the cache coherent.              *)
LEMMA CoherenceKept ==
    ASSUME TypeOK, CacheMatchesServed, Served' = Served, UNCHANGED overriddenFacts,
           \/ UNCHANGED resultCache
           \/ \E p \in Fact : Memoise(p)
           \/ resultCache' = NoFacts
    PROVE  CacheMatchesServed'
<1>1. EnvOf(Served)' = EnvOf(Served)
  BY DEF EnvOf
<1>2. CASE UNCHANGED resultCache
  BY <1>1, <1>2 DEF CacheMatchesServed, Cached
<1>3. ASSUME NEW p \in Fact, Memoise(p) PROVE CacheMatchesServed'
  BY <1>1, <1>3, FreshIsMeaning DEF Memoise, CacheMatchesServed, Cached, TypeOK
<1>4. CASE resultCache' = NoFacts
  BY <1>4 DEF NoFacts, CacheMatchesServed, Cached
<1> QED
  BY <1>2, <1>3, <1>4

-----------------------------------------------------------------------------
(* The save invariant.                                                     *)

LEMMA InitSaveInvariant == Init => SaveInvariant
<1> SUFFICES ASSUME Init PROVE SaveInvariant
  OBVIOUS
<1>1. TypeOK
  BY InitTypeOK
<1>2. Coherent
  BY DEF Init, Coherent, CacheMatchesServed, Cached, NoFacts
<1>3. SnapshotIsLive /\ Tally /\ OverridesOnlyInTests
  BY DEF Init, SnapshotIsLive, Tally, OverridesOnlyInTests
<1>4. UnsavedIsQueued
  BY DEF Init, UnsavedIsQueued
<1> QED
  BY <1>1, <1>2, <1>3, <1>4 DEF SaveInvariant

(* An edit outside save() leaves what is served alone and keeps every      *)
(* unsaved value queued.                                                   *)
LEMMA EditKeepsQueued ==
    ASSUME SaveInvariant, ~saving,
           (\E p \in Fact, v \in Value : SetFact(p, v))
             \/ (\E p \in Fact : DeleteFact(p))
             \/ UNCHANGED <<live, toValidate, overriddenFacts>>,
           UNCHANGED <<store, outcome>>
    PROVE  UnsavedIsQueued' /\ OverridesOnlyInTests'
<1>1. ASSUME NEW p \in Fact, NEW v \in Value, SetFact(p, v)
      PROVE  UnsavedIsQueued' /\ OverridesOnlyInTests'
  BY <1>1 DEF SaveInvariant, TypeOK, SetFact, Stage, UnsavedIsQueued, OverridesOnlyInTests
<1>2. ASSUME NEW p \in Fact, DeleteFact(p)
      PROVE  UnsavedIsQueued' /\ OverridesOnlyInTests'
  <2>1. UnsavedIsQueued'
    BY <1>2 DEF SaveInvariant, TypeOK, DeleteFact, Unstage, UnsavedIsQueued
  <2>2. OverridesOnlyInTests'
    BY <1>2 DEF SaveInvariant, TypeOK, DeleteFact, OverridesOnlyInTests, NoOverrides
  <2> QED
    BY <2>1, <2>2
<1>3. CASE UNCHANGED <<live, toValidate, overriddenFacts>>
  BY <1>3 DEF SaveInvariant, UnsavedIsQueued, OverridesOnlyInTests
<1> QED
  BY <1>1, <1>2, <1>3

(* Fact.set and Fact.delete touch neither the cache nor the served map.    *)
LEMMA UnsavedEdit ==
    ASSUME SaveInvariant, TypeOK',
           \/ \E p \in Fact, v \in Value : FactSet(p, v)
           \/ \E p \in Fact : FactDelete(p)
    PROVE  SaveInvariant'
<1> USE DEF call
<1>1. /\ ~saving /\ UNCHANGED <<store, outcome>>
      /\ (\E p \in Fact, v \in Value : SetFact(p, v)) \/ (\E p \in Fact : DeleteFact(p))
      /\ UNCHANGED <<validationStore, validating, saving, remaining, issues, resultCache>>
  BY DEF FactSet, FactDelete
<1>2. UnsavedIsQueued' /\ OverridesOnlyInTests'
  BY <1>1, EditKeepsQueued
<1>3. Coherent'
  <2>1. SUFFICES ASSUME ~TestDictionary PROVE CacheMatchesServed'
    BY <1>1 DEF Coherent
  <2>2. UNCHANGED overriddenFacts
    BY <1>2, <2>1 DEF SaveInvariant, OverridesOnlyInTests, NoOverrides
  <2>3. Served' = Served
    BY <1>1 DEF Served
  <2> QED
    BY <1>1, <2>1, <2>2, <2>3, CoherenceKept DEF SaveInvariant, Coherent
<1>4. SnapshotIsLive' /\ Tally'
  BY <1>1 DEF SaveInvariant, SnapshotIsLive, Tally
<1> QED
  BY <1>2, <1>3, <1>4 DEF SaveInvariant

LEMMA SaveBegins ==
    ASSUME SaveInvariant, TypeOK',
           \/ \E p \in Fact, v \in Value : GraphSet(p, v)
           \/ \E p \in Fact : GraphDelete(p)
           \/ GraphSave
    PROVE  SaveInvariant'
<1>1. /\ ~saving /\ BeginSave
      /\ \/ \E p \in Fact, v \in Value : SetFact(p, v)
         \/ \E p \in Fact : DeleteFact(p)
         \/ UNCHANGED <<live, toValidate, overriddenFacts>>
  BY DEF GraphSet, GraphDelete, GraphSave
<1>2. UnsavedIsQueued' /\ OverridesOnlyInTests'
  BY <1>1, EditKeepsQueued DEF BeginSave
<1>3. Coherent'
  BY <1>1 DEF BeginSave, NoFacts, Coherent, CacheMatchesServed, Cached
<1>4. SnapshotIsLive'
  BY <1>1 DEF BeginSave, SnapshotIsLive
<1>5. Tally'
  BY <1>1 DEF BeginSave, Tally
<1> QED
  BY <1>2, <1>3, <1>4, <1>5 DEF SaveInvariant

(* Reads, and the evaluation of a fact for a limit.                        *)
LEMMA ReadKeepsInvariant ==
    ASSUME SaveInvariant, TypeOK', UNCHANGED <<persister, call, overriddenFacts>>,
           UNCHANGED resultCache \/ \E p \in Fact : Memoise(p)
    PROVE  SaveInvariant'
<1> USE DEF persister, call
<1>1. Coherent'
  BY CoherenceKept DEF SaveInvariant, Coherent, Served
<1>2. SnapshotIsLive' /\ OverridesOnlyInTests' /\ UnsavedIsQueued'
  BY DEF SaveInvariant, SnapshotIsLive, OverridesOnlyInTests, UnsavedIsQueued
<1>3. \A w : LevelIn(w, EnvOf(live))' = LevelIn(w, EnvOf(live))
  BY DEF LevelIn, MeaningIn, EnvOf
<1>4. Tally'
  BY <1>3 DEF SaveInvariant, Tally
<1> QED
  BY <1>1, <1>2, <1>4 DEF SaveInvariant

LEMMA ValidationTallies ==
    ASSUME SaveInvariant, TypeOK', NEW w \in Writable, ValidateFact(w)
    PROVE  SaveInvariant'
<1> USE DEF persister
<1>1. Served = live /\ CacheMatchesServed /\ TypeOK
  BY DEF ValidateFact, SaveInvariant, SnapshotIsLive, Coherent, Served
<1>2. Verdict(w, LimitInputs(w)) = LevelIn(w, EnvOf(live))
  BY <1>1, LimitInputsMeaning DEF ValidateFact, LevelIn
<1>3. \A u : LevelIn(u, EnvOf(live))' = LevelIn(u, EnvOf(live))
  BY DEF ValidateFact, LevelIn, MeaningIn, EnvOf
<1>4. w \in toValidate /\ w \in remaining
  BY DEF ValidateFact, SaveInvariant, SnapshotIsLive
<1>5. toValidate' \ remaining' = (toValidate \ remaining) \cup {w}
  BY <1>4 DEF ValidateFact
<1>6. Tally'
  <2>1. issues' = issues \cup {LevelIn(w, EnvOf(live))}
    BY <1>2 DEF ValidateFact
  <2>2. issues = {LevelIn(u, EnvOf(live)) : u \in toValidate \ remaining}
    BY DEF SaveInvariant, Tally, ValidateFact
  <2>3. issues' = {LevelIn(u, EnvOf(live))' : u \in toValidate' \ remaining'}
    BY <1>3, <1>5, <2>1, <2>2
  <2>4. "raises" \notin issues'
    BY DEF SaveInvariant, Tally, ValidateFact
  <2> QED
    BY <2>3, <2>4 DEF Tally
<1>7. Coherent'
  BY <1>1, CoherenceKept DEF ValidateFact, Coherent, Served
<1>8. SnapshotIsLive' /\ OverridesOnlyInTests' /\ UnsavedIsQueued'
  BY DEF ValidateFact, SaveInvariant, SnapshotIsLive, OverridesOnlyInTests, UnsavedIsQueued
<1> QED
  BY <1>6, <1>7, <1>8 DEF SaveInvariant

LEMMA SaveConcludes ==
    ASSUME SaveInvariant, TypeOK', SaveRaises \/ SaveCommits \/ SaveRejects
    PROVE  SaveInvariant'
<1> USE DEF persister
<1>1. /\ saving /\ ~saving' /\ remaining' = {} /\ issues' = {}
      /\ UNCHANGED <<live, validationStore, overriddenFacts>>
  BY DEF SaveRaises, SaveCommits, SaveRejects, Validated, EndSave
<1>2. validating /\ validationStore = live /\ CacheMatchesServed /\ TypeOK
  BY <1>1 DEF SaveInvariant, SnapshotIsLive, Coherent
<1>3. Coherent'
  <2>1. CASE SaveRaises
    BY <1>1, <1>2, <2>1, CoherenceKept DEF SaveRaises, Coherent, Served
  <2>2. CASE SaveCommits
    BY <1>1, <1>2, <2>2, CoherenceKept DEF SaveCommits, EndSave, Coherent, Served
  <2>3. CASE SaveRejects
    BY <2>3 DEF SaveRejects, Coherent, CacheMatchesServed, Cached, NoFacts
  <2> QED
    BY <2>1, <2>2, <2>3
<1>4. UnsavedIsQueued'
  BY <1>1 DEF SaveInvariant, UnsavedIsQueued, SaveRaises, SaveCommits, SaveRejects, EndSave
<1>5. SnapshotIsLive' /\ Tally' /\ OverridesOnlyInTests'
  BY <1>1 DEF SaveInvariant, SnapshotIsLive, Tally, OverridesOnlyInTests
<1> QED
  BY <1>3, <1>4, <1>5 DEF SaveInvariant

LEMMA StepSaveInvariant == SaveInvariant /\ [Next]_vars => SaveInvariant'
<1> SUFFICES ASSUME SaveInvariant, [Next]_vars PROVE SaveInvariant'
  OBVIOUS
<1>0. TypeOK'
  BY StepTypeOK DEF SaveInvariant
<1>1. ASSUME NEW p \in Fact, GetKnown(p) \/ GetFresh(p) \/ EvaluateForLimit(p)
      PROVE  SaveInvariant'
  BY <1>0, <1>1, ReadKeepsInvariant DEF GetKnown, GetFresh, EvaluateForLimit
<1>2. ASSUME UNCHANGED vars PROVE SaveInvariant'
  BY <1>0, <1>2, ReadKeepsInvariant DEF vars
<1> QED
  BY <1>0, <1>1, <1>2, UnsavedEdit, SaveBegins, ValidationTallies, SaveConcludes
  DEF Next, Client, Save

(* In every dictionary, test dictionaries included, save() validates what  *)
(* it publishes and tallies the violations of exactly the queued facts.    *)
THEOREM SaveInvariantHolds == Spec => []SaveInvariant
BY InitSaveInvariant, StepSaveInvariant, PTL DEF Spec

(* No value reaches the store unqueued unless a save() was refused.        *)
THEOREM UnsavedValuesAreQueued == Spec => []UnsavedIsQueued
<1>1. SaveInvariant => UnsavedIsQueued
  BY DEF SaveInvariant
<1> QED
  BY <1>1, SaveInvariantHolds, PTL

(* Without overrides no memoised result is ever stale.                     *)
THEOREM CacheIsCoherent ==
    ASSUME ~TestDictionary
    PROVE  Spec => []CacheMatchesServed
<1>1. SaveInvariant => CacheMatchesServed
  BY DEF SaveInvariant, Coherent
<1> QED
  BY <1>1, SaveInvariantHolds, PTL

LEMMA CommitStep ==
    ASSUME SaveInvariant, Next, store' # store
    PROVE  /\ store' = validationStore /\ store' = live
           /\ \A w \in toValidate : LevelIn(w, EnvOf(store')) \in {"ok", "warn"}
<1>1. SaveCommits
  BY DEF Next, Client, Save, GetKnown, GetFresh, FactSet, FactDelete, GraphSet,
         GraphDelete, GraphSave, BeginSave, EvaluateForLimit, ValidateFact,
         SaveRaises, SaveRejects, persister
<1>2. saving /\ remaining = {} /\ store' = live /\ validationStore = live
  BY <1>1 DEF SaveCommits, Validated, SaveInvariant, SnapshotIsLive
<1>3. issues = {LevelIn(w, EnvOf(live)) : w \in toValidate}
  BY <1>2 DEF SaveInvariant, Tally
<1>4. issues \subseteq {"ok", "warn"}
  BY <1>1 DEF SaveCommits, SaveInvariant, TypeOK, Tally, Level
<1> QED
  BY <1>2, <1>3, <1>4

(* Every commit publishes the validated map, in which no queued fact       *)
(* breaks a limit of level Error.                                          *)
THEOREM CommitsAreValidated == Spec => CommitIsValidated
<1>1. SaveInvariant /\ [Next]_vars
      => [store' # store =>
            /\ store' = validationStore
            /\ \A w \in toValidate : LevelIn(w, EnvOf(store')) \in {"ok", "warn"}]_vars
  BY CommitStep
<1> QED
  BY <1>1, SaveInvariantHolds, PTL DEF Spec, CommitIsValidated

(* What save() publishes is within limits if what was published before is, *)
(* unless the last completed save() was refused.                           *)
LimitsBreakByRefusal ==
    [][outcome # "rejected" /\ WithinLimits(store) => WithinLimits(store)']_vars

(* A limit that reads nothing but its own fact depends on its value only.  *)
LEMMA OwnLevel ==
    ASSUME NEW w \in Writable, LimitReads[w] \subseteq {w},
           NEW e \in Env, NEW f \in Env, e[w] = f[w]
    PROVE  LevelIn(w, e) = LevelIn(w, f)
<1>1. \A q \in LimitReads[w] : Eval(q, e) = Eval(q, f)
  BY EvalAssumption DEF Fact
<1>2. MeaningIn(w, e) = MeaningIn(w, f)
  BY <1>1 DEF MeaningIn
<1> QED
  BY <1>2 DEF LevelIn

(* Only a refused save() lets a value break the limit of its own fact      *)
(* later on (InMemoryPersister.scala:176-187): if limits read nothing but  *)
(* their facts nothing else does, whatever is set, deleted or overridden   *)
(* and whatever throws on the way.                                         *)
THEOREM OnlyRefusalBreaksLimits ==
    ASSUME \A w \in Writable : LimitReads[w] \subseteq {w}
    PROVE  Spec => LimitsBreakByRefusal
<1>1. ASSUME SaveInvariant, TypeOK', [Next]_vars, outcome # "rejected", WithinLimits(store),
             NEW w \in Writable, store'[w] # Unset
      PROVE  LevelIn(w, EnvOf(store))' # "error"
  <2> DEFINE before == EnvOf(store)
             after == EnvOf(store)'
             published == EnvOf(store')
  <2>1. before \in Env /\ after \in Env /\ published \in Env
    BY <1>1, DictionaryAssumption DEF EnvOf, Env, SaveInvariant, TypeOK, Fact
  <2>2. before[w] = store[w] /\ after[w] = store'[w] /\ published[w] = store'[w]
    BY <1>1 DEF EnvOf, Fact
  <2>3. LevelIn(w, EnvOf(store))' = LevelIn(w, after)
    BY DEF LevelIn, MeaningIn
  <2> HIDE DEF before, after, published
  <2>4. CASE store'[w] = store[w]
    <3>1. LevelIn(w, before) # "error"
      BY <1>1, <2>4 DEF before, WithinLimits
    <3> QED
      BY <1>1, <2>1, <2>2, <2>3, <2>4, <3>1, OwnLevel
  <2>5. CASE store'[w] # store[w]
    <3>1. Next /\ store' # store
      BY <1>1, <2>5 DEF vars, persister
    <3>2. store' = live /\ LevelIn(w, published) \in {"ok", "warn"}
      BY <1>1, <2>5, <3>1, CommitStep DEF published, SaveInvariant, UnsavedIsQueued
    <3> QED
      BY <1>1, <2>1, <2>2, <2>3, <3>2, OwnLevel
  <2> QED
    BY <2>4, <2>5
<1>2. SaveInvariant /\ TypeOK' /\ [Next]_vars
      => [outcome # "rejected" /\ WithinLimits(store) => WithinLimits(store)']_vars
  BY <1>1 DEF WithinLimits
<1> QED
  BY <1>2, SaveInvariantHolds, TypeCorrect, PTL DEF Spec, LimitsBreakByRefusal

-----------------------------------------------------------------------------
(* Dictionaries that never throw.                                          *)

LEMMA SaveNeverRaises ==
    ASSUME NeverRaises, TypeOK
    PROVE  ~SaveRaises
<1> SUFFICES ASSUME NEW w \in remaining,
                    \/ LimitsReady(w) /\ Verdict(w, LimitInputs(w)) = "raises"
                    \/ \E p \in Demanded(w) : Ready(p) /\ Fresh(p) = Raises
             PROVE  FALSE
  BY DEF SaveRaises
<1>1. w \in Writable
  BY DEF TypeOK
<1>2. ~(LimitsReady(w) /\ Verdict(w, LimitInputs(w)) = "raises")
  BY <1>1, LimitInputsType DEF NeverRaises
<1>3. ASSUME NEW p \in Demanded(w), Ready(p), Fresh(p) = Raises PROVE FALSE
  <2>1. p \in Fact
    BY DEF Demanded
  <2>2. CASE p \in Writable
    BY <1>3, <2>2, DictionaryAssumption DEF Fresh, Served, TypeOK
  <2>3. CASE p \in Derived /\ p \notin Writable
    <3>1. \A q \in Reads[p] : Recall(q) \in Result
      BY <1>3, <2>3, DictionaryAssumption
      DEF Ready, Known, Overridden, Cached, Recall, TypeOK, Fact
    <3>2. [q \in Reads[p] |-> Recall(q)] \in [Reads[p] -> Result]
      BY <3>1
    <3> QED
      BY <1>3, <2>3, <3>2 DEF Fresh, NeverRaises
  <2> QED
    BY <2>1, <2>2, <2>3 DEF Fact
<1> QED
  BY <1>2, <1>3

(* Then the persister is never left validating by a save() that threw.     *)
OnlySavesValidate == validating => saving

LEMMA ValidatingStops ==
    ASSUME NeverRaises
    PROVE  Spec => []OnlySavesValidate
<1>1. Init => OnlySavesValidate
  BY DEF Init, OnlySavesValidate
<1>2. TypeOK /\ OnlySavesValidate /\ [Next]_vars => OnlySavesValidate'
  <2> SUFFICES ASSUME TypeOK, OnlySavesValidate, [Next]_vars PROVE OnlySavesValidate'
    OBVIOUS
  <2>1. ~SaveRaises
    BY SaveNeverRaises
  <2> QED
    BY <2>1 DEF OnlySavesValidate, Next, Client, Save, vars, GetKnown, GetFresh,
           FactSet, FactDelete, GraphSet, GraphDelete, GraphSave, BeginSave,
           EvaluateForLimit, ValidateFact, SaveCommits, SaveRejects, EndSave,
           Validated, persister, call
<1> QED
  BY <1>1, <1>2, TypeCorrect, PTL DEF Spec

(* Outside save() every memoised result comes from committed facts.        *)
THEOREM OnlyCommittedFactsAreRead ==
    ASSUME NeverRaises, ~TestDictionary
    PROVE  Spec => []CacheMatchesStore
<1>1. CacheMatchesServed /\ OnlySavesValidate => CacheMatchesStore
  BY DEF CacheMatchesServed, CacheMatchesStore, OnlySavesValidate, Served
<1> QED
  BY <1>1, CacheIsCoherent, ValidatingStops, PTL

-----------------------------------------------------------------------------
(* Refinement.                                                             *)

LEMMA PersistedIsEnv ==
    ASSUME overriddenFacts = NoOverrides, NEW st
    PROVE  EnvOf(st) = Committed!Persisted(st)
BY DEF EnvOf, Committed!Persisted, NoOverrides, Fact

LEMMA SameLevel ==
    ASSUME overriddenFacts = NoOverrides, NEW st, NEW w
    PROVE  LevelIn(w, EnvOf(st)) = Committed!LevelIn(w, st)
BY PersistedIsEnv DEF LevelIn, MeaningIn, Committed!LevelIn

LEMMA ReadRefines ==
    ASSUME SaveInvariant, OnlySavesValidate, ~TestDictionary,
           NEW p \in Fact, GetKnown(p) \/ GetFresh(p)
    PROVE  Committed!Read(p)
<1> USE DEF persister
<1>1. /\ CacheMatchesServed /\ TypeOK /\ overriddenFacts = NoOverrides
      /\ Served = store
  BY DEF SaveInvariant, Coherent, OverridesOnlyInTests, OnlySavesValidate, Served,
         GetKnown, GetFresh
<1>2. answer' = [path |-> p, result |-> Eval(p, EnvOf(store))]
  <2>1. CASE GetKnown(p)
    BY <1>1, <2>1, RecallIsMeaning DEF GetKnown
  <2>2. CASE GetFresh(p)
    BY <1>1, <2>2, FreshIsMeaning DEF GetFresh, Memoise
  <2> QED
    BY <2>1, <2>2
<1>3. answer' = [path |-> p, result |-> Eval(p, Committed!Persisted(store))]
  BY <1>1, <1>2, PersistedIsEnv
<1> QED
  BY <1>3 DEF Committed!Read, GetKnown, GetFresh

LEMMA EditRefines ==
    ASSUME SaveInvariant, OverridesOnlyInTests', ~TestDictionary,
           UNCHANGED <<store, answer>>,
           (\E p \in Fact, v \in Value : SetFact(p, v)) \/ (\E p \in Fact : DeleteFact(p))
    PROVE  [Committed!Next]_Committed!vars
<1>1. ASSUME NEW p \in Fact, NEW v \in Value, SetFact(p, v)
      PROVE  \E w \in Writable : Committed!Edit(w, v)
  BY <1>1 DEF SetFact, Stage, Committed!Edit
<1>2. ASSUME NEW p \in Fact, DeleteFact(p)
      PROVE  \/ \E w \in Writable : Committed!Withdraw(w)
             \/ UNCHANGED Committed!vars
  BY <1>2 DEF DeleteFact, Unstage, Committed!Withdraw, Committed!vars
<1> QED
  BY <1>1, <1>2 DEF Committed!Next

LEMMA SaveRefines ==
    ASSUME SaveInvariant, ~TestDictionary, SaveCommits \/ SaveRejects
    PROVE  Committed!Commit \/ Committed!Refuse
<1>1. overriddenFacts = NoOverrides
  BY DEF SaveInvariant, OverridesOnlyInTests
<1>2. issues = {Committed!LevelIn(w, live) : w \in toValidate}
  BY <1>1, SameLevel DEF SaveInvariant, Tally, SaveCommits, SaveRejects, Validated
<1>3. CASE SaveCommits
  <2>1. issues \subseteq {"ok", "warn"}
    BY <1>3 DEF SaveCommits, SaveInvariant, TypeOK, Tally, Level
  <2> QED
    BY <1>2, <1>3, <2>1 DEF SaveCommits, EndSave, Committed!Commit
<1>4. CASE SaveRejects
  BY <1>2, <1>4 DEF SaveRejects, EndSave, Committed!Refuse
<1> QED
  BY <1>3, <1>4

LEMMA StepRefines ==
    ASSUME NeverRaises, ~TestDictionary
    PROVE  /\ SaveInvariant /\ SaveInvariant' /\ OnlySavesValidate
           /\ [Next]_vars
           => [Committed!Next]_Committed!vars
<1> SUFFICES ASSUME SaveInvariant, SaveInvariant', OnlySavesValidate, [Next]_vars
             PROVE  [Committed!Next]_Committed!vars
  OBVIOUS
<1> USE DEF persister, call
<1>1. ASSUME NEW p \in Fact, GetKnown(p) \/ GetFresh(p)
      PROVE  Committed!Next
  BY <1>1, ReadRefines DEF Committed!Next, Fact
<1>2. ASSUME \/ \E p \in Fact : FactDelete(p) \/ GraphDelete(p)
             \/ \E p \in Fact, v \in Value : FactSet(p, v) \/ GraphSet(p, v)
      PROVE  [Committed!Next]_Committed!vars
  <2>1. UNCHANGED <<store, answer>>
    BY <1>2 DEF FactSet, FactDelete, GraphSet, GraphDelete, BeginSave
  <2>2. (\E p \in Fact, v \in Value : SetFact(p, v)) \/ (\E p \in Fact : DeleteFact(p))
    BY <1>2 DEF FactSet, FactDelete, GraphSet, GraphDelete
  <2> QED
    BY <2>1, <2>2, EditRefines DEF SaveInvariant
<1>3. ASSUME \/ GraphSave \/ UNCHANGED vars
             \/ \E p \in Fact : EvaluateForLimit(p)
             \/ \E w \in Writable : ValidateFact(w)
      PROVE  UNCHANGED Committed!vars
  BY <1>3 DEF GraphSave, BeginSave, vars, EvaluateForLimit, ValidateFact, Committed!vars
<1>4. ~SaveRaises
  BY SaveNeverRaises DEF SaveInvariant
<1>5. ASSUME SaveCommits \/ SaveRejects PROVE Committed!Next
  BY <1>5, SaveRefines DEF Committed!Next
<1> QED
  BY <1>1, <1>2, <1>3, <1>4, <1>5 DEF Next, Client, Save

(* The cached, snapshotting graph does what CommittedGraph promises.       *)
THEOREM GraphImplementsCommittedGraph ==
    ASSUME NeverRaises, ~TestDictionary
    PROVE  Spec => ImplementsCommittedGraph
<1>1. Init => Committed!Init
  BY DEF Init, NoAnswer, Committed!Init
<1>2. Spec => Committed!Spec
  BY <1>1, StepRefines, SaveInvariantHolds, ValidatingStops, PTL DEF Spec, Committed!Spec
<1> QED
  BY <1>2 DEF ImplementsCommittedGraph

-----------------------------------------------------------------------------
(* The demonstration page.                                                 *)

(* The page does nothing to the graph that a client of it could not do.    *)
LEMMA PageIsAClient == DemoSpec => Spec
<1>1. DemoInit => Init
  BY DEF DemoInit
<1>2. [DemoNext]_demoVars => [Next]_vars
  BY DEF DemoNext, demoVars, GetFact, Submit, SubmitUnreadable, SubmitUnwritable, Run,
         Throw, SaveAfterSet, DisplayGraph, Next, Client
<1> QED
  BY <1>1, <1>2, PTL DEF DemoSpec, Spec

(* The invariant the proof rests on: save() throws about w, whenever it    *)
(* gets to it.                                                             *)
Fails(w) ==
    \/ LevelIn(w, EnvOf(live)) = "raises"
    \/ \E p \in Demanded(w) : Eval(p, EnvOf(live)) = Raises

(* Only a save() that threw leaves facts in the queue, one that throws     *)
(* again among them; the page's own save() is then under an error, and     *)
(* throws; else the queue is empty, and it publishes all that was edited.  *)
PageInvariant ==
    /\ handler \in {"none", "set", "save"}
    /\ saving => handler # "none"
    /\ ~saving =>
           IF validating THEN \E w \in toValidate : Fails(w) ELSE toValidate = {}
    /\ handler = "none" /\ ~error => shown = live /\ store = live /\ toValidate = {}
    /\ handler = "save" =>
           /\ ~error => toValidate = {}
           /\ IF saving
              THEN toValidate = {} \/ \E w \in remaining : Fails(w)
              ELSE validating \/ store = live

(* What is evaluated for limits that are decided throws nothing: the facts *)
(* they read are known, and a known fact was evaluated from facts that did *)
(* not throw, all the way down.                                            *)
LEMMA DecidedThrowsNothing ==
    ASSUME SaveInvariant, saving, NEW w \in Writable, LimitsReady(w),
           Verdict(w, LimitInputs(w)) # "raises"
    PROVE  ~Fails(w)
<1> DEFINE env == EnvOf(live)
           S == {q \in Fact : Eval(q, env) # Raises}
<1>1. Served = live /\ CacheMatchesServed /\ TypeOK /\ env \in Env
  BY ServedEnv DEF SaveInvariant, SnapshotIsLive, Coherent, Served
<1>2. LevelIn(w, env) # "raises"
  BY <1>1, LimitInputsMeaning DEF LevelIn
<1>3. LimitReads[w] \subseteq S
  BY <1>1, RecallIsMeaning, DictionaryAssumption DEF LimitsReady
<1>4. ASSUME NEW d \in S \cap Derived, ~Overridden(d) PROVE Reads[d] \subseteq S
  <2>1. env[d] = Unset /\ d \notin Writable /\ d \in Fact
    BY <1>4, DictionaryAssumption DEF EnvOf, Overridden, Fact
  <2>2. ~\E q \in Reads[d] : Eval(q, env) = Raises
    <3> HIDE DEF env
    <3> QED
      BY <1>1, <2>1, EvalAssumption
  <2> QED
    BY <2>2, DictionaryAssumption
<1>5. Demanded(w) \subseteq S
  <2> HIDE DEF S
  <2>1. S \subseteq Fact
    BY DEF S
  <2> QED
    BY <1>3, <1>4, <2>1 DEF Demanded
<1> QED
  BY <1>2, <1>5 DEF Fails

(* A save() that throws throws about a queued fact whose limits have no    *)
(* verdict, or need a fact that has no value, in what is persisted.        *)
LEMMA ThrowsAboutAQueuedFact ==
    ASSUME SaveInvariant, SaveRaises
    PROVE  \E w \in toValidate : Fails(w)
<1>1. Served = live /\ CacheMatchesServed /\ TypeOK /\ remaining \subseteq toValidate
  BY DEF SaveRaises, SaveInvariant, SnapshotIsLive, Coherent, Served
<1>2. PICK w \in remaining :
          \/ LimitsReady(w) /\ Verdict(w, LimitInputs(w)) = "raises"
          \/ \E p \in Demanded(w) : Ready(p) /\ Fresh(p) = Raises
  BY DEF SaveRaises
<1>3. w \in Writable /\ Demanded(w) \subseteq Fact
  BY <1>1 DEF TypeOK, Demanded
<1>4. Fails(w)
  <2>1. CASE LimitsReady(w) /\ Verdict(w, LimitInputs(w)) = "raises"
    BY <1>1, <1>3, <2>1, LimitInputsMeaning DEF Fails, LevelIn
  <2>2. CASE \E p \in Demanded(w) : Ready(p) /\ Fresh(p) = Raises
    BY <1>1, <1>3, <2>2, FreshIsMeaning DEF Fails
  <2> QED
    BY <1>2, <2>1, <2>2
<1> QED
  BY <1>1, <1>4

(* Whether the limits of a fact throw depends on what is persisted only.   *)
LEMMA FailureStays ==
    ASSUME UNCHANGED <<live, overriddenFacts>>, NEW w
    PROVE  Fails(w)' = Fails(w)
<1>1. Demanded(w)' = Demanded(w)
  BY DEF Demanded, Overridden
<1>2. EnvOf(live)' = EnvOf(live)
  BY DEF EnvOf
<1>3. LevelIn(w, EnvOf(live))' = LevelIn(w, EnvOf(live))
  BY <1>2 DEF LevelIn, MeaningIn
<1> QED
  BY <1>1, <1>2, <1>3 DEF Fails

(* A step of save(): what it leaves of the queue, and what it publishes.   *)
LEMMA RunKeepsPage ==
    ASSUME SaveInvariant, PageInvariant, Run
    PROVE  PageInvariant'
<1>0. /\ saving /\ handler # "none" /\ TypeOK /\ remaining \subseteq toValidate
      /\ UNCHANGED <<handler, error, shown, live, overriddenFacts>>
  BY DEF Run, Save, EvaluateForLimit, ValidateFact, SaveRaises, SaveCommits, SaveRejects,
         Validated, EndSave, persister, page, PageInvariant, SaveInvariant, SnapshotIsLive
<1>1. \A w : Fails(w)' = Fails(w)
  BY <1>0, FailureStays
<1>2. CASE \E p \in Fact : EvaluateForLimit(p)
  BY <1>0, <1>1, <1>2 DEF EvaluateForLimit, persister, call, PageInvariant
<1>3. ASSUME NEW w \in Writable, ValidateFact(w) PROVE PageInvariant'
  <2>1. ~Fails(w)
    BY <1>3, DecidedThrowsNothing DEF ValidateFact
  <2> QED
    BY <1>0, <1>1, <1>3, <2>1 DEF ValidateFact, persister, PageInvariant
<1>4. CASE SaveRaises
  <2>1. \E w \in toValidate : Fails(w)
    BY <1>4, ThrowsAboutAQueuedFact
  <2>2. validating
    BY <1>0 DEF SaveInvariant, SnapshotIsLive
  <2> QED
    BY <1>0, <1>1, <1>4, <2>1, <2>2 DEF SaveRaises, persister, PageInvariant
<1>5. CASE SaveCommits
  BY <1>0, <1>5 DEF SaveCommits, EndSave, PageInvariant
<1>6. CASE SaveRejects
  <2>1. \E w \in toValidate : TRUE
    BY <1>0, <1>6 DEF SaveRejects, Validated, SaveInvariant, Tally
  <2>2. handler # "save"
    BY <1>0, <1>6, <2>1 DEF SaveRejects, Validated, PageInvariant
  <2> QED
    BY <1>0, <1>6, <2>2 DEF SaveRejects, EndSave, PageInvariant
<1> QED
  BY <1>2, <1>3, <1>4, <1>5, <1>6 DEF Run, Save

LEMMA StepPageInvariant ==
    SaveInvariant /\ PageInvariant /\ [DemoNext]_demoVars => PageInvariant'
<1> SUFFICES ASSUME SaveInvariant, PageInvariant, [DemoNext]_demoVars
             PROVE  PageInvariant'
  OBVIOUS
<1> USE DEF persister, call, page
<1>0. ASSUME UNCHANGED <<live, overriddenFacts>> PROVE \A w : Fails(w)' = Fails(w)
  BY <1>0, FailureStays
<1>1. ASSUME NEW p \in Fact, GetFact(p) PROVE PageInvariant'
  BY <1>0, <1>1 DEF GetFact, GetKnown, GetFresh, PageInvariant
<1>2. ASSUME NEW p \in Fact, NEW v \in Value, Submit(p, v) PROVE PageInvariant'
  BY <1>2 DEF Submit, GraphSet, BeginSave, PageInvariant
<1>3. CASE SubmitUnreadable
  BY <1>0, <1>3 DEF SubmitUnreadable, GraphSave, BeginSave, PageInvariant
<1>4. CASE SubmitUnwritable \/ UNCHANGED demoVars
  BY <1>0, <1>4 DEF SubmitUnwritable, demoVars, vars, PageInvariant
<1>5. CASE Throw
  BY <1>0, <1>5 DEF Throw, vars, PageInvariant
<1>6. CASE SaveAfterSet
  BY <1>0, <1>6 DEF SaveAfterSet, GraphSave, BeginSave, PageInvariant
<1>7. CASE DisplayGraph
  BY <1>0, <1>7 DEF DisplayGraph, vars, PageInvariant
<1> QED
  BY <1>1, <1>2, <1>3, <1>4, <1>5, <1>6, <1>7, RunKeepsPage DEF DemoNext

(* In every dictionary, one whose limits throw included: an exception of   *)
(* set() leaves behind a queued fact whose limits throw in every save()    *)
(* until another set() goes through, so the page's own save(), which       *)
(* clears the error, only ever returns when there is nothing in the queue  *)
(* (loader.js:38-59, InMemoryPersister.scala:176-187).                     *)
THEOREM PageInvariantHolds == DemoSpec => []PageInvariant
<1>1. DemoInit => PageInvariant
  BY DEF DemoInit, Init, PageInvariant
<1> QED
  BY <1>1, StepPageInvariant, PageIsAClient, SaveInvariantHolds, PTL DEF DemoSpec

(* A page that shows no error shows every value that was entered, and the  *)
(* graph reads them.                                                       *)
THEOREM PageStaysCurrent == DemoSpec => []PageIsCurrent
<1>1. PageInvariant => PageIsCurrent
  BY DEF PageInvariant, PageIsCurrent
<1> QED
  BY <1>1, PageInvariantHolds, PTL
=============================================================================

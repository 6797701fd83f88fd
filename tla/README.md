# Formal specification of the fact graph

A fact graph (`shared/`, Scala compiled for the JVM and for JavaScript) evaluates a
*dictionary* of facts. Writable facts are persisted; derived facts are expressions over
other facts, computed on demand and cached; limits constrain the values a writable fact may
be saved with. This directory holds TLA+ modules of its stateful core, the TLC
configurations that check them on small dictionaries, and proofs that TLAPS checks for every
dictionary. Paths below are relative to `shared/src/main/scala/gov/irs/factgraph/` unless they
start with another directory.

## The system

| Component | State | Operations | Hard part | Correct when | Here |
|---|---|---|---|---|---|
| Graph (`Graph.scala`) | `factCache`, `resultCache`, `overriddenFacts` | get, getVect, set, delete, save, addToCollection, removeFromCollection, checkPersister, explain | two caches filled while a save() validates a different map than the one reads are normally served from | no read gives what was not committed; a cached result is never stale | `FactGraph`, `Collections`, `Evaluation`, `Sync` |
| Fact (`Fact.scala`) | none of its own | get, set, validate, delete, path resolution | reads through the cache; a deletion calls the graph again for every path below an item | items leave a collection only by deletion and take their facts along | `FactGraph`, `Collections`, `Evaluation` |
| InMemoryPersister (`persisters/`) | `live`, `store`, `toValidate`, `validating`, `validationStore` | setFact, deleteFact, getSavedResult, save, syncWithDictionary, toJson | what an operation that was refused, or threw, leaves behind for the next one | only validated maps are committed; no value escapes the queue | `FactGraph`, `Collections`, `Server`, `Sync` |
| Limits (`limits/`) | none | run | read other facts, of the snapshot; may throw in the middle of save() | the value that is set is the one that is checked | `FactGraph` (when, and what they read), `Collections` (of which item), `Server` |
| Expressions and operators (`Expression.scala`, `operators/`, `compnodes/`) | none | get, getThunk, explain | laziness, incompleteness, vectors | a complete result does not change when a missing fact is set | `Results`, `Evaluation`; constants of `FactGraph` |
| Monads (`monads/`) | none | map, flatMap, vectorize | three result states times two vector shapes | the first result that matters decides; lengths agree | `Results`, without vectors |
| Explanation (`Explanation.scala`) | none | solves, incompleteDependencies | cross products of alternatives | nothing outside an explanation can complete or change the fact | `Evaluation` |
| Paths (`Path.scala`) | none | parsing, wildcards, populateWildcards | abstract and concrete paths | populated paths are those of existing items | not modelled |
| Dictionary (`FactDictionary.scala`, `FactDefinition.scala`) | `definitions`, `meta`, `frozen` | addDefinition, addMeta, freeze | lazily evaluated definitions that refer to each other | a frozen dictionary never changes | not modelled |
| Sync, migrations (`InMemoryPersister.scala`, `Migrations.scala`) | the persisted JSON | apply, toJson, syncWithDictionary, run | half-done changes, repeated migrations | each migration runs once; kept facts exist in the dictionary, of the right type | `Sync` |
| Numeric types (`types/`) | none | arithmetic | 32-bit overflow, rounding | arithmetic agrees with the rationals within the bounds | `Rational` |
| HTTP server (`api/FactGraphServer.scala`) | current dictionary, graph, indexes | one handler per route | concurrent handlers over one unsynchronised graph; exceptions that handlers catch | a set publishes and answers as its validation went; the graph is of the current dictionary | `Server` |
| Demonstration page (`demo/loader.js`) | the graph, an error line, what it displays | loadDictionary, getFact, setFact | it saves again after every set, and ignores what set() and save() return | what is shown without an error is all that was entered, and within limits (which the code breaks) | `Demo` |
| JavaScript interface (`js/`) | none | conversions | unreadable text is returned as a violation, not thrown | the caller learns of it | `Demo` (set) |
| XML and digest parsing, data, tooling | none | conversions | - | - | not modelled |

**How they interact.** Everything is a synchronous call on one thread, except in the HTTP
server. `Graph.set` resolves the path through the facts, calls `Fact.set`, which stages the
value in the persister, then `Graph.save`. That clears both caches and calls
`InMemoryPersister.save`, which snapshots the staged map, switches reads to the snapshot,
validates every queued fact (a call back into the facts, the expressions and so the graph's
cache and the persister), and then publishes the staged map or not. `Graph.delete` of a
collection item calls itself for every persisted path below the item.

## The modules

| Module | Models |
|---|---|
| `FactGraph` | Graph, Fact and InMemoryPersister over plain facts, save() in small steps; not checkPersister, which is in `Sync` |
| `CommittedGraph` | the abstract specification: what `FactGraph` promises its client |
| `MCFactGraph` | small dictionaries for TLC |
| `Collections` | collections and the facts of their items, one step per API call |
| `MCCollections` | a dictionary with a collection nested in a collection |
| `Server` | the HTTP server's handlers, statement by statement, on several threads |
| `MCServer` | two dictionaries and a saved graph |
| `Sync`, `MCSync` | files, migrations and checkPersister over several releases; three releases |
| `FactGraphProofs`, `CollectionsProofs`, `ServerProofs`, `SyncProofs`, `EvaluationProofs`, `RationalProofs` | the theorems about each; those of `Demo` are in `FactGraphProofs` |
| `Results` | results and what the operators make of them: pure operators |
| `ResultsProofs` | the theorems about them |
| `Induction` | induction over the natural numbers, for the proofs |
| `Evaluation`, `MCEvaluation` | expressions, explanations and solves over persisted facts; a dictionary with a fact for every operator |
| `Rational`, `MCRational` | rational arithmetic in wrapping words; literals |
| `Demo`, `MCDemo` | the demonstration page, composed with `FactGraph` |

### FactGraph

The constants are a dictionary: writable and derived facts, what each expression reads
(`Reads`) and computes (`Compute`), what each fact's limits read (`LimitReads`) and the worst
level they report (`Verdict`). An expression or a limit may throw (`Raises`, `"raises"`).
`Eval` is the meaning of a fact in an environment of persisted values; it is a constant with
the assumption that it satisfies the equations of the dictionary, so that the proofs need no
recursion and the dictionary need not be finite. TLC evaluates the assumption.

The variables are the persister's fields, the graph's cache and overrides, and the local
variables of the call of save() in progress (`saving`, `remaining`, `issues`). A step is one
completed `Fact.get`, `Fact.set` or `Fact.delete`, or one phase of save(). In particular
`EvaluateForLimit` is an evaluation that the validation of a queued fact asks for: it
fills the cache while `validating` holds. `SaveRaises` is an exception that leaves save(): the
code has no `finally`, so `validating` and the queue stay.

Definitions follow the code by name: `Served` is `getSavedResult`, `Stage` and `Unstage` are
`setFact` and `deleteFact`, `GraphSet`, `GraphDelete` and `GraphSave` are the first half of
the calls of Graph, `SaveCommits` and `SaveRejects` their end.

Abstractions: `toValidate` is a set, because the order of validation has no effect and
validating a fact twice gives the same verdict twice. An evaluation needs all the facts its
expression reads, so an expression that short-circuits past a fact that throws is modelled as
throwing. A set or delete of a path that resolves to no fact is `GraphSave`. Facts with a
Placeholder or Override expression, whose own value differs from the persisted one, are not
among the writable facts of the model. A fact is one result: vectors are in `Collections`.

### CommittedGraph

A graph without a cache, a snapshot or a mode: edits are staged, a commit publishes all of
them if the limits of every fact edited since the last save() hold in them, a refusal leaves
them staged, a read gives the meaning of a fact over the published values. `FactGraph`
implements it with `committed <- store`, `staged <- live`, `unchecked <- toValidate` when no
expression throws and nothing is overridden; both conditions are needed, and
`raising_save_exposes` shows what happens without the first.

### Collections

A path is a sequence of keys and item ids. It resolves if each id on it is in the collection
that precedes it, in the map reads are served from (`Served`), and a call on a path that does
not resolve is a bare save(). A step is a whole API call, except that the deletion of an item
takes one step per call of `Graph.delete` it makes: `BeginDelete` reads the collection and
finds the paths below the item, `DeleteBelow` deletes one of them, in any order, and saves,
`EndDelete` sets the collection to what was read at the start without the item, or throws.

save() is one step here (`Save`), which validates the queue and then commits, refuses or
throws; that one step is right is what `FactGraph` establishes. The queue is empty between
calls, unless a limit threw (`Throws`): then the fact stays queued, and reads stay switched to
the snapshot, until some later save() gets past its validation. So a call may be refused, or
throw, for a fact an earlier one set, and a deletion may end half-way. `threw` is a history
variable: whether a limit has thrown since all was last committed. A limit has level Error and
judges the element `Judged(p)`, the first one there is in the collections on its path, as
`Limit.run` does, and throws when there is none. Collections with an alias, and the overrides
of a test dictionary, are left out.

### Server

Each worker thread runs a request to its end, one step per statement that reads or writes
something shared: the server's variables `currentDictionary`, `currentGraph` and the two
dependency indexes (`indexed`, the dictionary both are built from), and the `live`, `store`, `validationStore`,
`validating` and `toValidate` of the graph it works on, which it reads once and keeps, also
when another request replaces it (`graphs` holds all that were ever made).

A set is `BeginSet`, then for each fact the path resolves to `Stage` and `Enqueue`, or `Refuse`
when Fact.set throws, then `Snapshot`, `Switch`, `Validate`, `Clear`, `SwitchBack`, `Publish`.
The path may resolve to one fact, to those of all items, or to none (`Targets`); of none there
is a save() only, which is answered by success. `ValidateThrows` is an exception in a limit:
the handler catches it and answers by failure, and the queue and the switch to the snapshot
stay as they are. After either, `NextOfBatch` goes on with the next fact of `/facts/set` on the
same graph, or `EndSet` answers. `/collection/add` and `/collection/remove` are `BeginEdit` and
`ReadCollection`, then a set; they answer by success whatever the violations (`strict` is
FALSE). An unknown path, and a value that cannot be coerced to the fact's type (`Typed`), end a
request before it changes anything; such requests do nothing here. Limits have level Error and
may read any fact: those of a fact hold over the maps of `Allowed`, and throw over those of
`Throwing`. The items of a collection, on which `Targets` depends, are taken as given.

The abstraction is on the optimistic side: statements are atomic and take effect in one
order for all threads, the validation of the queue is one step, and the result cache, which
overlapping requests also share, is left out. So what goes wrong here goes wrong in the
server, and `UndisturbedSetIsRight` and `UndisturbedSwapAgrees` claim nothing of requests that
overlap. Three history variables are there to state properties: `disturbed`, whether any other
request was under way since this one began; `found`, what the request found in the queue; and
`stuck`, what an exception has left in the persister and no save() has reset. A request that
only reads has no step. A dictionary's two indexes are assigned in one step.

### Sync

What outlives a dictionary: the JSON file. `Deploy` puts another release of the program in
place, or the same one again, which is also what closing the page or a crash comes to: only
`file` remains. `Load` runs the migrations the file misses and reads every fact, which throws
for a value the release's types refuse, and then there is no graph; `SaveFile` is `toJson`, with
the release's own number of migrations. `checkPersister` is `BeginCheck`, one `Check` per
persisted path, in any order because the map is a hash map, and `EndCheck`; or `CheckThrows`:
a fact of another type than declared passes `checkTypeMapping` unless it is of a primitive
type, and then `Graph.set` throws, with the facts removed so far gone and no report of them.
A step keeps a fact by setting and so saving it, which publishes the removals before it: `store`
follows `live` at each `Keep`, and whether an item's fact is kept depends on the collection
as it is read at that moment.

`cached` is the graph's `resultCache`. Graph.save clears it, with every set, delete and kept
fact; the persister's save(), which ends a check, does not, and neither does an exception. A
page reads facts (`Get`, of the paths in `Shown`) and a check reads collections (`Looked`), and
both go on to see what is cached (`Seen`). So a page that had read a fact which the check then
took away may still see it afterwards. `ReadsAreCommitted` says that this is all that can be
stale, and that no check judges members by it.

m2 recognises (`Recognised`) an address by the full name of its wrapper's type, and an invalid one by its
street. toJson writes names as the release's serialisation does (`Full`), short ones at this commit
(MigrationsSpec.scala:20-23), and the type Address refuses more than streets (`Invalid`). So there are files
that the releases after m2 cannot load: those with an invalid address that m2 does not
recognise. `EveryFileLoads` is about all others.

Abstractions: no fact has a limit, so every save() publishes. Values are the eight of `MCSync`,
told apart by their type, their items, whether a later release rejects them and whether m2
does. One level of collections. The migrations are the code's two, the first of which does
nothing. `migrations` is a history variable: the migrations that ran on the facts of the open graph, which `file.ran` carries
along. Taking a release back lowers the number in the next file, and migrations then run
again by design, so `EachMigrationOnce` speaks of histories without that (`rolledBack`), and
`EveryFileLoads` of all of them.

### Results and Evaluation

`Results` has one operator for each way the code combines results: `Strictly` for unary,
binary and reducing operators, sums and counts; `AnyOf`, `AllOf`, `Switch`, `Override`,
`OrDefault`, `ConditionSet` (the options of an enum), `MaximumOf`, `FilterIn`, `FindIn`,
`IndexIn`, `NameOf` (TruncateNameForMeF), `TodayAt` and `IsComplete` for those with rules of
their own. A result is complete, a placeholder or incomplete; `Raised` is an evaluation that
throws, and thunks show in the order in which an operator looks at its arguments.
What a strict operator computes is the constant `Operation`.

`Evaluation` has expressions as records, `Get` for `Expression.get` and `Explain` for
`Expression.explain`. Both are recursive functions over *sites*, an expression and the item it
is evaluated for, or none: `Asked` are the sites below one, `Apply` makes a result from theirs,
`Account` an explanation. An explanation is known by the facts at its leaves (`facts`), by what
`Explanation.solves` gives for it (`solves`, from `Combined`), and by whether solves throws
(`throws`); `Unexplained` is an evaluation that throws while explaining. The state is the
persisted facts, and the steps are the calls of a client that sets, changes and deletes answers, adds,
reorders and deletes items, in a dictionary without limits and with every fact saved at once.
Where the code evaluates on vectors, an expression is evaluated for each item; there is one
collection, so that vectors have one length. Today is a function of its offset: no property
compares results across midnight.

The constants are a dictionary: its facts, the expressions evaluated outside the collection
(`Outer`) and for each item (`Inner`), how deep each is nested (`Depth`), and the values it may
have (`Type`). They satisfy what the parser and the compiler of expressions see to: `Scoping`
(members are read below an operator on the collection only), `Nesting` (no fact depends on
itself), `Typing` (every operator has as many arguments as it takes, of types it is written
for: `WellTyped`), and `UnsetIsNoValue`. TLC evaluates them in the runs of `MCEvaluation`.

### Rational

A step is one operation on an accumulator and a literal, as an expression evaluates a chain of
them. Words wrap around at `Bound`, 32 in the run for 2^31 in the code: `Wrapped` is what is
passed to `Rational(n, d)`, which refuses a denominator of zero before and after `Simplify`.
`Quot` and `Rem` truncate, as the machine's do; `gcd` is the code's recursion. In
Scala.js an overflow wraps as on the JVM.

### Demo

The page's three forms over one `FactGraph` that starts empty. A handler runs to completion:
`Submit` begins the save() inside set(), `SaveAfterSet` the page's own, `DisplayGraph` shows the
committed facts and clears the error. `Throw` is an exception of a limit in either. `MCDemo`
reuses the dictionaries of `MCFactGraph`. The error line is cleared whenever the page's own
save() returns, also when a value whose set() threw earlier is still queued; that it nevertheless
never hides such a value is `PageIsCurrent`, which is proved (see below) and has no run.

## Fairness and deadlock

Fairness is assumed in one run. `FairSpec` of `FactGraph` is weakly fair in `Save`, the steps of a
save() in progress: save() is a loop on its caller's thread, which nothing else can suspend,
and its expressions end because the dictionary is acyclic. Under it, `SaveEnds` says that
every save() ends, whatever is evaluated for the limits and whatever throws. No fairness is
assumed of clients, who need not call again, of the server's handlers, which take no
locks and never wait for each other, or of users of a file. TLC checks
that no reachable state of any run is a deadlock.

## What the runs check

| Run | Module, configuration | Shows |
|---|---|---|
| `core` | `MCFactGraph`, `FactGraph.cfg` | cache coherence, validated commits, queueing and the refinement, in a dictionary that does not throw |
| `core_hard` | `FactGraphHard.cfg` | the inductive invariant of the proofs, validated commits and the end of every save(), with overridden derived facts and expressions that throw, also in the middle of save() |
| `collections` | `MCCollections`, `Collections.cfg` | items leave only by deletion, deletions take the item's own facts, with limits that refuse and a limit that throws; the invariant of the proofs |
| `server` | `MCServer`, `Server.cfg` | overlapping requests leave nothing behind in the persister, only exceptions do, and a request nobody overlaps is right all the same; the invariant of the proofs |
| `sync` | `MCSync`, `Sync.cfg` | what a check leaves fits the dictionary; it reports what it takes and takes misfits only; what is read is committed, or was taken away; every file whose invalid addresses m2 recognises loads in every release; migrations run once; the invariant of the proofs |
| `evaluation` | `MCEvaluation`, `Evaluation.cfg` | complete results are definitive; nothing outside an explanation matters; solves does not throw for want of questions |
| `rational` | `MCRational`, `Rational.cfg` | in range, arithmetic is exact and the order right; a zero denominator comes of overflow only; the sign of denominators |

Properties worth naming: `CacheMatchesServed` and `CacheMatchesStore` (no memoised result is
stale), `UnsavedIsQueued` (a value that would be published is queued, unless it was refused),
`CommitIsValidated` (the published map is the validated one), `ImplementsCommittedGraph`,
`SaveEnds`, `ItemsLeaveByDelete`, `OwnFactsGo` (unless a limit threw), `PersisterRests` (the snapshot is
served, and a fact queued, only while a request is at work on it, or after an exception that no
save() has made good), `UndisturbedSetIsRight` (a request publishes, and answers, as the facts it
validates deserve: its own, and those an exception had left queued), `UndisturbedSwapAgrees`,
`CheckedFits`, `OnlyMisfitsGo`, `ReadsAreCommitted`, `EveryFileLoads`, `EachMigrationOnce`,
`CompleteIsFinal`, `ExplainedOnly`. The last two leave out the facts that rest on Find, IndexOf,
IsComplete, Today or TruncateNameForMeF, which are complete over arguments that are not;
over all the others they hold, though a Maximum may throw. Every property of a run that
passes has a mutant: a
definition next to the one it would replace, changed as a plausible bug would change it,
under which TLC finds the property violated.

**Bounds.** Two writable and two derived facts with integer values 0 to 2: enough for a
derived fact that reads a derived fact, a limit that reads another fact through one, a
warning beside an error, a division by zero, and a queue with two members in every order of
validation. The state space is finite without further bounds. `core_hard` has values 0 and 2
only, because overrides multiply the states: with 0 an expression divides by zero, with 2 both limits are broken. In `Collections`: two outer items and one inner
one, collections of up to three ids outside (duplicates included, the code allows them)
and one inside, a MaxCollectionSize of one. Three ids are needed for a deletion that is itself refused
because what remains is still too long, the case that makes a cascade stop half-way. The fact x
of the first item may be good or make its limit throw, that of the second is bad, so that a
limit is met that refuses, one that throws, and both for the value of another item than was set.
In `Server`: two threads, which is what a race needs; a fact of two items, which a wildcard
sets together, with a limit that refuses, throws and, after it threw, may be satisfied again by
another request; and one graph of each of two dictionaries (`MaxGraphs`). A request that would make another does not begin, or is left where it is, so
replacements that overlap and one that puts them right again are not all in one behaviour of
the run; the theorems have no such bound. In `Sync`: three releases, the second with a
migration, short type names and a changed type, the third with another type for every path: a check then meets
facts that are unknown, mistyped in both the ways the code tells apart, and of items that are gone,
and the collection itself is one of the misfits. Two items, because the order between an
item's fact and its collection matters. Two invalid addresses, of which m2 deletes one. The page
reads one plain fact and one member. In `Evaluation`: one boolean and one number outside,
two items with a number and a boolean, and eighteen derived facts over three levels: two items are
what Maximum, Find and the order of a collection need. In `Rational`: words of 64 values, with
literals that overflow after two operations.

### Where the code and its documentation disagree

| Run | Property violated | What happens |
|---|---|---|
| `rejected_value_leaks` | `ShownWithinLimits` | a value refused by set() stays in `live`, no longer queued; the page saves again, which publishes it, and shows it without an error |
| `raising_save_exposes` | `CacheMatchesStore` | after an exception in a limit, reads are served from the unsaved snapshot |
| `orphaned_members` | `DeleteCascades` | the members of a nested collection survive the deletion of its item if the collection is deleted first |
| `maximum_raises` | `MaximumIsIncomplete` | Maximum throws when the first item has no value and the second has one; Minimum is the same code |
| `server_races` | `NoBadValueSucceeds` | a bad value that is queued while another request is between its validation and `toValidate.clear()` is dropped from the queue, published and answered by success |

`raising_save_exposes` starts from an empty persister (`SpecFromEmpty`), so that the value it
exposes is one that a client set.

Some more disagreements are in the models without a run of their own. A save() validates what
was set since the last one, where docs/validation-system.md:192 has it validate all writable
facts: a limit that reads another fact breaks when that fact changes (`SaveCommits`).
removeFromCollection throws whenever it has something to remove, where docs/core-concepts.md:87
presents it as an operation (`RemoveFromCollection`). Of m2, docs/migrations.md:279 says
"Users' invalid addresses removed": it leaves those whose type is named in
short, as toJson names it, and those that are invalid in another field than the street, and
their files do not load (`Recognised`, `Accepts`). checkPersister leaves the graph's caches as they are, where
docs/expression-evaluation.md:209 has the cache cleared on every save (`EndCheck`). A limit on a fact of items is checked for
the first item only (`Judged`). An incomplete
name is an empty or partial placeholder, and a complete one may change when its optional
parts are answered (`NameOf`).

## What is proved

`FactGraphProofs` proves, for every dictionary that satisfies `DictionaryAssumption`,
`ExpressionAssumption` and `EvalAssumption`:

- `TypeCorrect`: Spec => []TypeOK.
- `SaveInvariantHolds`: the inductive invariant. The safety properties are not inductive:
  `CommitIsValidated` needs that `issues` holds the level of exactly the queued facts that are
  no longer `remaining` (`Tally`), with the meaning `Eval` gives them; that needs the cache to
  be coherent with the snapshot while save() runs (`Coherent`), and the snapshot to be the map
  that will be published (`SnapshotIsLive`). `UnsavedIsQueued` is inductive given these.
- `UnsavedValuesAreQueued`, `CacheIsCoherent`, `CommitsAreValidated`: consequences of it.
- `OnlyRefusalBreaksLimits`: where limits read only their own fact, a commit of a value that
  breaks one, over a map within limits, follows a refused save(). It is the converse of
  `rejected_value_leaks`: refusal is the only way there.
- `OnlyCommittedFactsAreRead`: with `NeverRaises`, the cache is coherent with the committed
  map outside save(), through the further invariant that only a save() in progress validates.
- `GraphImplementsCommittedGraph`: the refinement, step by step.

- `PageInvariantHolds` and `PageStaysCurrent`, about `DemoSpec`: each step of the page is a step
  of `FactGraph` or none (`PageIsAClient`), so `SaveInvariant` holds behind it. The page's
  invariant needs that an exception recurs: if a queued fact's limits threw (`Fails`) they throw
  again in the next save(), as long as nothing else is set. `Fails` says so about what is
  persisted, not about the cache: the limits of a fact have no verdict, or a fact that is demanded for
  them has no meaning. `ThrowsAboutAQueuedFact` finds such a fact behind every exception;
  `DecidedThrowsNothing` shows that a fact whose limits were decided is not one, by the
  set of facts that have a meaning, which is closed under what `Demanded` closes.

The key lemmas are `RecallIsMeaning` and `FreshIsMeaning` (what the cache holds, and what an
evaluation on top of it gives, is the meaning of the fact) and `CoherenceKept` (which changes
of cache and map keep that so). Coherence is claimed without overrides only: a test dictionary's
override that is not followed by a save() leaves what was computed from the fact in the
cache. During save() it holds with them too, which is what commits need.

`CollectionsProofs` proves, from `CollectionsAssumption`, that is for any nesting of
collections, any limits and any number of items:

- `TypeCorrect`, which is inductive;
- `ItemsLeaveByDeletion`: the steps are sorted into six kinds (`CallsAre`), and only the last
  step of a deletion takes items away without unsetting the collection;
- `ItemsTakeTheirFacts` (OwnFactsGo), from `CollectionsInvariantHolds`. A deletion starts by
  listing the facts below the item in the edited map; that each own fact has gone or is still
  on the list does not suffice, because a fact whose path no longer resolves is skipped. The
  invariant adds that the committed map has the item whenever the edited one has
  (`OwnFactsHaveATurn`): then the skipping cannot happen, `DeleteBelowTakesATurn`. That the
  committed map holds nothing the edited one lacks (`CommittedIsEdited`) gives the rest. After a
  limit that threw both may fail, since the edited map then is ahead of the committed one: they hold again
  once a save() commits everything outside a deletion, which is what `threw` tells, and the
  theorem speaks of deletions that meet no such exception. `ItemsLeaveByDeletion` needs no
  such condition.

The assumption says of paths that they are not empty, end in a key, and have an id only
behind the path of a collection, which is how the dictionary makes them. `WithoutIs` is what
filtering a sequence gives; it goes by induction on its length.

`ServerProofs` proves every property of the run `server`, for any number of threads,
dictionaries and graphs: `TypeCorrect`, `PersistersComeToRest`, `UndisturbedSetsAreRight` and
`UndisturbedSwapsAgree`. `PersisterRests` is inductive: an exception is the only way to leave
a queue or the snapshot behind, and `stuck` accounts for it. The other two are about a request
that nothing overlaps, and say nothing of the middle of it: `ServerInvariant` does. It says that
two requests under way are both disturbed (`Alone`), and of one that is not, for each of its
statements, what the graph it works on holds (`SetsItsValue`) and that what it installs belongs
to the current dictionary (`ReplacesTheCurrent`). A request may begin on any graph that overlapping
ones or an exception left behind: the invariant says of the queue that it is what was found there and
what the request has added, and the snapshot is taken afresh, so that the state it starts from
does not matter beyond the facts it has to validate along with its own.

`SyncProofs` proves every property of the run `sync` from `ReleasesAssumption`, for any number
of releases and migrations. `MigrationsRunOnce`: its invariant adds that the file's number is
the number of migrations that ran on its facts and that no release that follows has fewer
(`FileIsCounted`); the step that matters is `Load`, by `MissingCompletes`: the migrations a
file had, followed by those it misses, are all of them, in order. `WhatIsCheckedFits`,
`CheckTakesMisfitsOnly`, `ReadsStayCommitted` and `FilesLoadInEveryRelease` rest on `SyncInvariantHolds`. Members are
judged by the items read at that moment, in whatever order the map is gone through and
whatever is cached: the
invariant says that the items of every collection are what they were at the beginning (`ItemsStay`), so that a removed fact did not fit then either, and what was kept
still fits at the end (`IssuesAreRemoved`, `KeptFits`); that a cached result differs from what is
committed only for a fact a check has taken away, which is never a collection that members
are judged by (`ReadsAreCommitted`); and that no open graph, and no file written after the second
migration, holds a value that the later releases refuse.

`RationalProofs` proves every property of the run `rational` for words of any width and any
literals, where the run has 64 words and seven literals; the code has 2^32 words.
`GcdIsGreatestDivisor` is about the recursion of Math.gcd: it ends (`GcdExists`, by
induction on the first argument, which every call makes smaller), and what it gives divides
both arguments and is divided by every common divisor; it is positive, except that for the
least word it may be the least word, since that has no absolute value. So the divisor of
simplify has the sign of the denominator in every case (`DivisorIs`), simplify never divides by zero, and in range it gives lowest terms
over a positive denominator (`SimplifyIsInLowestTerms`). `RegularIsOrdinary`, that a regular
computation keeps positive denominators, is the invariant from which the order is right
(`RegularValuesAreOrdered`); it is also the place where an overflow, or a literal such as 1/-2,
breaks it. `OperationsInRangeAreExact` needs types only.

`ResultsProofs` proves what `CompleteIsFinal` checks, of one operator at a time and for any
number of arguments of any type: if every argument that was complete is the same or throws
(`Settles`), the result is so too. It has a theorem for each operator that keeps this:
`StrictlySettles`, `AnyOfSettles`, `AllOfSettles`, `SwitchSettles`, `OverrideSettles`,
`OrDefaultSettles`, `FilterSettles`, `MaximumSettles` and `ConditionSetSettles`. Find, IndexOf, IsComplete, Today and
names do not keep it. Two lemmas more for each operator, `...Typed` and `...Alike`, say
what type its result has, and that arguments that agree wherever either is complete give
results that do, unless something throws. For the operators that look at their arguments in turn, agreement is asked only
of those their explanation names.

`EvaluationProofs` proves every property of the run `evaluation`, for every dictionary that
satisfies the four assumptions:

- `TypeCorrect`: what is persisted stays of its type, and a result that has a value has one of
  its expression's type. The invariant is `Persisted`; the rest is true of every map that
  satisfies it.
- `CompleteFactsAreFinal`: CompleteIsFinal, of whole dictionaries. `ResultsSettle` lifts the
  theorems of `ResultsProofs` to expressions over expressions, fact after fact, among them those that
  work on a collection nobody has set yet.
- `ExplanationsNameAll`: ExplainedOnly. `UnnamedChangesNothing` is about two maps with the same
  items: what no leaf of an explanation names may change, and the result stays, or was
  incomplete and still is, or throws. For Any, All, Switch and Override it needs
  that the explanation of what was not looked at may be left out, and only that.
- `SolvesOnlyRaisesOnNoItems`: every list of alternatives in an explanation has a child,
  except that an operator on a collection without items has none (`ExplanationsAreCalm`).

That `Get` and `Explain` satisfy their own equations has to be proved first, as the function
that TLA+ chooses might not exist: `GetExists` and `ExplainExists`, by induction on the depth
of an expression, which every argument makes smaller. The theorems about results go by the same
induction, over the set of depths for which they hold.

`Induction` has what the proofs by induction rest on: a non-empty set of numbers has a least
member, from the well-foundedness of strict inclusion on finite sets, and so a set that holds
every number whose predecessors it holds is all of them. Induction is over sets rather than predicates,
which the provers cannot instantiate.

**Only model-checked:** `SaveEnds`, because liveness under fairness is beyond the prover; and
the findings, of course, which are single behaviours. Every other property of a run that passes
is what a theorem above says, for every value of the constants.

## Not modelled

- `demo/fg.js` is the Scala.js compiler's output for `shared/` and `js/` with the Scala library
  linked in. What it runs is modelled from the Scala source it is made of, and the map of the
  definitions points there. Of the JavaScript that is written by hand, `demo/loader.js`, `Demo`
  has all handlers but the reading of the dictionary's file.
- Paths (`Path.scala`, `PathItem.scala`): pure functions on lists of path items, tested as such.
  What their use in resolution comes to is in `Collections`, `Evaluation` and `Sync`.
- The dictionary (`FactDictionary.scala`, `FactDefinition.scala`): built once, by one thread,
  before a graph is made. The modules take it as constants.
- Of expressions: the aliases of collections, extracts, and vectors that come from different
  collections. Of explanations: the paths of dependencies, and
  `incompleteDependencies`, which lists them.
- The types other than Rational: Dollar and Days wrap library types, the others are
  validated strings.
- XML and digest parsing, the HTTP handlers that only read, the coercion of JSON, data and scripts.

## What could follow

The hazards of PROJECT.json without a property name what is left, but for that of the page,
which is proved, and for those where nothing in the repository says what should happen. Vectors of two collections need a
second collection in `Evaluation`, and their lengths in the types of `Results`. That the facts of
a deleted collection's items stay, and come back with an item's id, is in `Collections`, but
nothing in the repository says whether they should, so no property does. A
refused or throwing limit that checkPersister meets when it sets a fact it keeps would
need limits in `Sync`.

-------------------------------- MODULE Server --------------------------------
(***************************************************************************)
(* The HTTP server (api/FactGraphServer.scala): request handlers that run  *)
(* on several threads over plain variables, the current dictionary, the    *)
(* current graph and the dependency indexes, and over the one persister of *)
(* each graph.  Nothing locks anything.                                    *)
(*                                                                         *)
(* A step is one statement of a handler, or of the Graph.set it calls,     *)
(* that reads or writes something shared.  Statements are atomic and seen  *)
(* by all threads at once: what the model allows the server may do, but a  *)
(* torn copy of a map is left out.  So are finer interleavings: Fact.set   *)
(* compares and writes in one step, and save() goes through the queue in   *)
(* one.  A limit may read any fact of the map that is served.  Requests    *)
(* that only read, and those refused before they change anything, are left *)
(* out, and so are a graph's caches and the overrides of a test            *)
(* dictionary: FactGraph has them.                                         *)
(***************************************************************************)
EXTENDS Naturals, Sequences, FiniteSets

CONSTANTS
    Worker,      \* the threads that run handlers
    Dictionary,
    Fact,        \* paths of the writable facts of any dictionary
    Value,
    Unset,       \* no value
    None,        \* no dictionary
    Typed,       \* Typed[d][p]: what can be coerced to p's type in d, {} if
                 \* d does not define p
    Allowed,     \* Allowed[d][p]: the maps of facts over which the limits
                 \* of p hold in d
    Throwing,    \* Throwing[d][p]: those over which one of them throws
    Targets,     \* Targets[d]: the facts a path that d defines may resolve to:
                 \* one, or a wildcard's, of all items there are, if any
    Edits,       \* Edits[p]: <<old, new>> for what /collection/add and remove
                 \* make of collection p
    Refused,     \* Refused[p]: <<old, new>> if new misses an item of old
    Files,       \* the graphs clients have saved and may load
    MaxGraphs    \* bound of the model: MaxGraphs[d] graphs of dictionary d
                 \* are ever made

Facts == [Fact -> Value \cup {Unset}]

ASSUME ServerAssumption ==
    /\ Unset \notin Value
    /\ None \notin Dictionary
    /\ Typed \in [Dictionary -> [Fact -> SUBSET Value]]
    /\ Allowed \in [Dictionary -> [Fact -> SUBSET Facts]]
    /\ Throwing \in [Dictionary -> [Fact -> SUBSET Facts]]
    /\ Targets \in [Dictionary -> SUBSET SUBSET Fact]
    /\ Edits \in [Fact -> SUBSET ((Value \cup {Unset}) \X Value)]
    /\ Files \subseteq Facts
    /\ \A d \in Dictionary : MaxGraphs[d] \in Nat

VARIABLES
    currentDictionary,
    currentGraph,  \* an index into `graphs', or 0
    indexed,       \* the dictionary that forwardDeps and reverseDeps are of
    graphs,        \* every graph made so far, with its persister; `stuck' is
                   \* history: what no save() has reset since an exception
    request,       \* request[w]: what worker w is doing
    disturbed      \* disturbed[w]: whether another request was under way at
                   \* any time since that of w began (not part of the server)

served == <<currentDictionary, currentGraph, indexed>>
vars   == <<served, graphs, request, disturbed>>

NoFacts == [p \in Fact |-> Unset]

NewGraph(d, facts) ==
    [dictionary |-> d, live |-> facts, store |-> facts, validationStore |-> facts,
     validating |-> FALSE, toValidate |-> {}, stuck |-> {}]

Idle == [at |-> "idle"]

(* loadDefaultDictionary, before the server starts: with a dictionary, or  *)
(* with none when there is no file.                                        *)
Init ==
    /\ \/ /\ currentDictionary = None
          /\ currentGraph = 0
          /\ graphs = <<>>
       \/ /\ currentDictionary \in Dictionary
          /\ currentGraph = 1
          /\ graphs = <<NewGraph(currentDictionary, NoFacts)>>
    /\ indexed = currentDictionary
    /\ request = [w \in Worker |-> Idle]
    /\ disturbed = [w \in Worker |-> FALSE]

-----------------------------------------------------------------------------
At(w, where) == request[w].at = where

Busy == {w \in Worker : ~At(w, "idle")}

Begin(w, r) ==
    /\ At(w, "idle")
    /\ request' = [request EXCEPT ![w] = r]
    /\ disturbed' = [u \in Worker |->
            IF u = w THEN Busy # {} ELSE disturbed[u] \/ u \in Busy]

Goto(w, where) ==
    /\ request' = [request EXCEPT ![w].at = where]
    /\ UNCHANGED disturbed

Answer(w) ==
    /\ request' = [request EXCEPT ![w] = Idle]
    /\ disturbed' = [disturbed EXCEPT ![w] = FALSE]

-----------------------------------------------------------------------------
(* Graph.set of the facts T to v is about to begin on graph g.  An answer  *)
(* is `strict' if it looks at the violations.  `found' is history: the     *)
(* queue at the beginning.                                                 *)
SetRequest(g, T, v, strict) ==
    [at |-> "stage", graph |-> g, facts |-> T, value |-> v, strict |-> strict,
     todo |-> T, unqueued |-> {}, found |-> graphs[g].toValidate, issues |-> {}]

(* The path resolves to T, and v is of its type.  To set nothing is to     *)
(* save.                                                                   *)
MaySet(g, T, v) ==
    /\ T \in Targets[graphs[g].dictionary]
    /\ \A p \in T : v \in Typed[graphs[g].dictionary][p]
    /\ T = {} <=> v = Unset

(* POST /fact/set and /facts/set: the graph is read once; each path its    *)
(* dictionary defines goes through Graph.set.                              *)
BeginSet(w, T, v) ==
    /\ currentGraph # 0
    /\ MaySet(currentGraph, T, v)
    /\ Begin(w, SetRequest(currentGraph, T, v, TRUE))
    /\ UNCHANGED <<served, graphs>>

(* The graph request w works on.                                           *)
Mine(w) == graphs[request[w].graph]

(* Mutant: the snapshot is never read.                                     *)
ServedStore(g) == g.store

(* What getSavedResult reads.                                              *)
Served(g) == IF g.validating THEN g.validationStore ELSE g.store

(* POST /collection/add and remove read the collection, then set it; they  *)
(* do not look at the violations.                                          *)
BeginEdit(w, p) ==
    /\ currentGraph # 0
    /\ {p} \in Targets[graphs[currentGraph].dictionary]
    /\ Begin(w, [at |-> "read", graph |-> currentGraph, fact |-> p])
    /\ UNCHANGED <<served, graphs>>

ReadCollection(w, v) ==
    /\ At(w, "read")
    /\ LET p == request[w].fact IN
        /\ <<Served(Mine(w))[p], v>> \in Edits[p]
        /\ v \in Typed[Mine(w).dictionary][p]
        /\ request' = [request EXCEPT ![w] = SetRequest(request[w].graph, {p}, v, FALSE)]
    /\ UNCHANGED <<served, graphs, disturbed>>

-----------------------------------------------------------------------------
(* The next statement of w, which makes its request r, and its graph g.    *)
Step(w, r, g) ==
    /\ graphs' = [graphs EXCEPT ![request[w].graph] = g]
    /\ request' = [request EXCEPT ![w] = r]
    /\ UNCHANGED <<served, disturbed>>

Change(w, from, to, g) == At(w, from) /\ Step(w, [request[w] EXCEPT !.at = to], g)

(* The set, and with it the item of a batch, is over.                      *)
Over(w, success) ==
    [at |-> "next", graph |-> request[w].graph, strict |-> request[w].strict,
     success |-> success]

Loses(w, p) == <<Served(Mine(w))[p], request[w].value>> \in Refused[p]

(* Fact.set of the next fact: persister.setFact stages it, and queues it.  *)
Stage(w, p) ==
    /\ At(w, "stage")
    /\ p \in request[w].todo /\ ~Loses(w, p)
    /\ Step(w, [request[w] EXCEPT !.at = "enqueue", !.todo = @ \ {p}, !.unqueued = {p}],
               [Mine(w) EXCEPT !.live[p] = request[w].value])

Enqueue(w) ==
    /\ At(w, "enqueue")
    /\ Step(w, [request[w] EXCEPT !.at = "stage", !.unqueued = {}],
               [Mine(w) EXCEPT !.toValidate = @ \cup request[w].unqueued])

(* It throws instead: what was queued before it stays queued.              *)
Refuse(w, p) ==
    /\ At(w, "stage")
    /\ p \in request[w].todo /\ Loses(w, p)
    /\ Step(w, Over(w, FALSE),
               [Mine(w) EXCEPT !.stuck = @ \cup {"queue"}])

-----------------------------------------------------------------------------
(* save().                                                                 *)
Snapshot(w) ==
    /\ At(w, "stage")
    /\ request[w].todo = {}
    /\ Step(w, [request[w] EXCEPT !.at = "switch"],
               [Mine(w) EXCEPT !.validationStore = Mine(w).live])

Switch(w) ==
    Change(w, "switch", "validate", [Mine(w) EXCEPT !.validating = TRUE])

Throws(g) == \E p \in g.toValidate : Served(g) \in Throwing[g.dictionary][p]

Issues(g) == {p \in g.toValidate : Served(g) \notin Allowed[g.dictionary][p]}

Validate(w) ==
    /\ At(w, "validate")
    /\ ~Throws(Mine(w))
    /\ Step(w, [request[w] EXCEPT !.at = "clear", !.issues = Issues(Mine(w))], Mine(w))

(* The handler catches it; the mode and the queue stay as they are.        *)
ValidateThrows(w) ==
    /\ At(w, "validate")
    /\ Throws(Mine(w))
    /\ Step(w, Over(w, FALSE), [Mine(w) EXCEPT !.stuck = {"queue", "mode"}])

(* Mutant: the queue is cleared of the request's own facts only.           *)
ClearOwn(w) ==
    Change(w, "clear", "switch back",
           [Mine(w) EXCEPT !.toValidate = @ \ request[w].facts, !.stuck = @ \ {"queue"}])

Clear(w) ==
    Change(w, "clear", "switch back",
           [Mine(w) EXCEPT !.toValidate = {}, !.stuck = @ \ {"queue"}])

(* Mutant: an early return when there are issues forgets the mode.         *)
SwitchBackOnSuccess(w) ==
    Change(w, "switch back", "publish",
           [Mine(w) EXCEPT !.validating = request[w].issues # {}, !.stuck = @ \ {"mode"}])

SwitchBack(w) ==
    Change(w, "switch back", "publish",
           [Mine(w) EXCEPT !.validating = FALSE, !.stuck = @ \ {"mode"}])

(* The map is published unless w met an issue; the answer is a success     *)
(* then too, if it does not look.                                          *)
Publish(w) ==
    /\ At(w, "publish")
    /\ Step(w, Over(w, request[w].issues = {} \/ ~request[w].strict),
               IF request[w].issues = {} THEN [Mine(w) EXCEPT !.store = Mine(w).live]
               ELSE Mine(w))

(* The next fact of a batch, on the same graph, whatever became of the     *)
(* last, or the end of the request.                                        *)
NextOfBatch(w, T, v) ==
    /\ At(w, "next") /\ request[w].strict
    /\ MaySet(request[w].graph, T, v)
    /\ request' = [request EXCEPT ![w] = SetRequest(request[w].graph, T, v, TRUE)]
    /\ UNCHANGED <<served, graphs, disturbed>>

EndSet(w) ==
    /\ At(w, "next")
    /\ Answer(w)
    /\ UNCHANGED <<served, graphs>>

-----------------------------------------------------------------------------
CanMake(d) == Cardinality({g \in 1 .. Len(graphs) : graphs[g].dictionary = d}) < MaxGraphs[d]

(* currentGraph = Some(Graph(...)).                                        *)
InstallGraph(d, facts) ==
    /\ CanMake(d)
    /\ graphs' = Append(graphs, NewGraph(d, facts))
    /\ currentGraph' = Len(graphs')

(* POST /dictionary/load, once its XML has been read.                      *)
LoadDictionary(w, d) ==
    /\ CanMake(d)
    /\ Begin(w, [at |-> "replace graph", dictionary |-> d])
    /\ currentDictionary' = d
    /\ UNCHANGED <<currentGraph, indexed, graphs>>

ReplaceGraph(w) ==
    /\ At(w, "replace graph")
    /\ InstallGraph(request[w].dictionary, NoFacts)
    /\ Goto(w, "index")
    /\ UNCHANGED <<currentDictionary, indexed>>

(* Mutant: the indexes are "built at startup" only.                        *)
BuildDependencyIndexesOnce(w) ==
    /\ At(w, "index")
    /\ indexed' = IF indexed = None THEN request[w].dictionary ELSE indexed
    /\ Answer(w)
    /\ UNCHANGED <<currentDictionary, currentGraph, graphs>>

BuildDependencyIndexes(w) ==
    /\ At(w, "index")
    /\ indexed' = request[w].dictionary
    /\ Answer(w)
    /\ UNCHANGED <<currentDictionary, currentGraph, graphs>>

(* Mutant: it is not checked that there is a dictionary.                   *)
BeginInstallUnloaded(w, facts) ==
    /\ CanMake(currentDictionary)
    /\ Begin(w, [at |-> "install", dictionary |-> currentDictionary, facts |-> facts])
    /\ UNCHANGED <<served, graphs>>

(* POST /graph/reset and /graph/load: the dictionary is read, then a graph *)
(* of it is made, without facts or with those of a file.                   *)
BeginInstall(w, facts) ==
    /\ currentDictionary # None
    /\ CanMake(currentDictionary)
    /\ Begin(w, [at |-> "install", dictionary |-> currentDictionary, facts |-> facts])
    /\ UNCHANGED <<served, graphs>>

Install(w) ==
    /\ At(w, "install")
    /\ InstallGraph(request[w].dictionary, request[w].facts)
    /\ Answer(w)
    /\ UNCHANGED <<currentDictionary, indexed>>

Set(w) ==
    \/ \E T \in SUBSET Fact, v \in Value \cup {Unset} : BeginSet(w, T, v) \/ NextOfBatch(w, T, v)
    \/ \E p \in Fact : BeginEdit(w, p) \/ Stage(w, p) \/ Refuse(w, p)
    \/ \E v \in Value : ReadCollection(w, v)
    \/ Enqueue(w) \/ Snapshot(w) \/ Switch(w) \/ Validate(w) \/ ValidateThrows(w)
    \/ Clear(w) \/ SwitchBack(w) \/ Publish(w) \/ EndSet(w)

Replace(w) ==
    \/ \E d \in Dictionary : LoadDictionary(w, d)
    \/ \E facts \in Files \cup {NoFacts} : BeginInstall(w, facts)
    \/ ReplaceGraph(w) \/ BuildDependencyIndexes(w) \/ Install(w)

Next == \E w \in Worker : Set(w) \/ Replace(w)

Spec == Init /\ [][Next]_vars

-----------------------------------------------------------------------------
(* Properties.                                                             *)

Graph ==
    [dictionary : Dictionary, live : Facts, store : Facts, validationStore : Facts,
     validating : BOOLEAN, toValidate : SUBSET Fact, stuck : SUBSET {"queue", "mode"}]

TypeOK ==
    /\ currentDictionary \in Dictionary \cup {None}
    /\ indexed \in Dictionary \cup {None}
    /\ currentGraph \in 0 .. Len(graphs)
    /\ graphs \in Seq(Graph)
    /\ disturbed \in [Worker -> BOOLEAN]

(* However requests overlapped and whatever threw, reads are switched to a *)
(* snapshot only while some request is validating, and a fact is queued    *)
(* only while some request has yet to clear the queue, or after an         *)
(* exception, until a save() gets past its validation again                *)
(* (InMemoryPersister.scala:176-181).                                      *)
On(w, g) == ~At(w, "idle") /\ "graph" \in DOMAIN request[w] /\ request[w].graph = g

Validating == {"validate", "clear", "switch back"}
Queueing   == {"stage", "enqueue", "switch", "validate", "clear"}

RestsAt(g) ==
    /\ graphs[g].validating =>
          \/ "mode" \in graphs[g].stuck
          \/ \E w \in Worker : On(w, g) /\ request[w].at \in Validating
    /\ graphs[g].toValidate # {} =>
          \/ "queue" \in graphs[g].stuck
          \/ \E w \in Worker : On(w, g) /\ request[w].at \in Queueing

PersisterRests == \A g \in 1 .. Len(graphs) : RestsAt(g)

(* What an undisturbed set validates: its own facts, and those that an     *)
(* exception had left in the queue.                                        *)
Validated(r) == r.found \cup r.facts

InLimits(r, g) == \A p \in Validated(r) : g.live \in Allowed[g.dictionary][p]

(* A set that no other request overlapped, in whatever state those before  *)
(* it left the graph, answers what it did.  If the limits of every fact it *)
(* validates hold, the edited map is published, with the value in every *)
(* fact the path resolved to; otherwise nothing is, and only an answer     *)
(* that does not look is a success.  An exception in a limit is a failure, *)
(* publishes nothing and is the fault of a validated fact.  Unless it      *)
(* threw, the graph is at rest again (FactGraphServer.scala:459-475,       *)
(* 645-660, 784-803).                                                      *)
SetIsRight(w) ==
    LET r == request[w]
        g == Mine(w)
        after == graphs'[r.graph]
    IN
    /\ At(w, "publish") /\ request'[w].at = "next" =>
        /\ after.store = IF InLimits(r, g) THEN g.live ELSE g.store
        /\ \A p \in r.facts : g.live[p] = r.value
        /\ request'[w].success <=> InLimits(r, g) \/ ~r.strict
        /\ after.toValidate = {} /\ ~after.validating
    /\ At(w, "validate") /\ request'[w].at = "next" =>
        /\ after.store = g.store /\ ~request'[w].success
        /\ \E p \in Validated(r) : g.live \in Throwing[g.dictionary][p]

UndisturbedSetIsRight == [][\A w \in Worker : ~disturbed[w] => SetIsRight(w)]_vars

(* After loading a dictionary, resetting or loading the graph, undisturbed *)
(* by another request, the current graph is of the current dictionary, and *)
(* after the first the indexes are too (FactGraphServer.scala:155-169,     *)
(* 695-717).                                                               *)
UndisturbedSwapAgrees ==
    [][\A w \in Worker : ~disturbed[w] /\ request'[w] = Idle =>
        /\ request[w].at \in {"index", "install"} =>
              graphs'[currentGraph'].dictionary = currentDictionary'
        /\ At(w, "index") => indexed' = currentDictionary']_vars

(* The invariant the proofs rest on.  What a request holds: a graph that   *)
(* exists, or a dictionary; a worker that nothing disturbed is alone, and  *)
(* finds in the persister what it has put there itself.                    *)
SettingAt == {"stage", "enqueue", "switch", "validate", "clear", "switch back", "publish"}

Setting ==
    [at : SettingAt, graph : 1 .. Len(graphs), facts : SUBSET Fact,
     value : Value \cup {Unset}, strict : BOOLEAN, todo : SUBSET Fact,
     unqueued : SUBSET Fact, found : SUBSET Fact, issues : SUBSET Fact]
Reading == [at : {"read"}, graph : 1 .. Len(graphs), fact : Fact]
Between == [at : {"next"}, graph : 1 .. Len(graphs), strict : BOOLEAN, success : BOOLEAN]
Loading == [at : {"replace graph", "index"}, dictionary : Dictionary]
Placing == [at : {"install"}, dictionary : Dictionary, facts : Facts]
Request == {Idle} \cup Setting \cup Reading \cup Between \cup Loading \cup Placing

Alone == \A w \in Worker : ~At(w, "idle") /\ ~disturbed[w] => Busy = {w}

SetsItsValue(r, g) ==
    /\ r.at \notin {"stage", "enqueue"} => r.todo = {} /\ r.unqueued = {}
    /\ r.at = "stage" => r.unqueued = {}
    /\ r.todo \cup r.unqueued \subseteq r.facts /\ r.todo \cap r.unqueued = {}
    /\ \A p \in r.facts \ r.todo : g.live[p] = r.value
    /\ r.at \in {"stage", "enqueue", "switch", "validate", "clear"} =>
          g.toValidate = Validated(r) \ ((r.todo \cup r.unqueued) \ r.found)
    /\ r.at \in {"switch", "validate"} => g.validationStore = g.live
    /\ r.at = "validate" => g.validating
    /\ r.at \in {"clear", "switch back", "publish"} => (r.issues = {} <=> InLimits(r, g))
    /\ r.at \in {"switch back", "publish"} => g.toValidate = {}
    /\ r.at = "publish" => ~g.validating

ReplacesTheCurrent(r) ==
    /\ r.at \in {"replace graph", "index", "install"} => r.dictionary = currentDictionary
    /\ r.at = "index" => /\ currentGraph # 0
                         /\ graphs[currentGraph].dictionary = currentDictionary

ServerInvariant ==
    /\ TypeOK
    /\ request \in [Worker -> Request]
    /\ PersisterRests
    /\ Alone
    /\ \A w \in Worker : ~disturbed[w] =>
          /\ request[w] \in Setting => SetsItsValue(request[w], Mine(w))
          /\ ReplacesTheCurrent(request[w])

(* "Thread-safe state management" (FactGraphServer.scala:52): however      *)
(* requests overlap, none publishes its value in a map over which the      *)
(* limits of its fact do not hold, and answers that this succeeded.        *)
NoBadValueSucceeds ==
    [][\A w \in Worker :
        LET r == request[w] IN
        At(w, "publish") /\ request'[w].at = "next" /\ r.strict /\ request'[w].success =>
            \A p \in r.facts :
                LET st == graphs'[r.graph].store IN
                st[p] = r.value => st \in Allowed[Mine(w).dictionary][p]]_vars
=============================================================================

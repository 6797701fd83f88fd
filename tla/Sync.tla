-------------------------------- MODULE Sync --------------------------------
(***************************************************************************)
(* A graph that outlives the dictionary it was filled under.  The client   *)
(* saves it to a file (InMemoryPersister.toJson), a release of the program *)
(* brings another dictionary and more migrations, or takes them back, and  *)
(* the file is loaded again: the migrations it misses are run              *)
(* (Migrations.run), and checkPersister removes what the new dictionary    *)
(* has no place for, fact by fact, saving after each.  It ends in the      *)
(* persister's save(), which unlike the graph's leaves the results that    *)
(* the graph has cached.                                                   *)
(*                                                                         *)
(* A path is a plain fact's, a collection's or the fact of an item of one. *)
(* No fact has a limit, so that every save() publishes: what save() does   *)
(* is modelled in FactGraph, and deleting items in Collections.            *)
(***************************************************************************)
EXTENDS Naturals, Sequences

CONSTANTS
    Plain,         \* paths of facts that belong to no collection
    Member,        \* paths of the facts of collection items
    CollectionOf,  \* CollectionOf[p]: the collection, a plain path, of member p
    ItemOf,        \* ItemOf[p]: the item member p belongs to
    Value,         \* what may be persisted
    Kind,          \* Kind[v]: the type of value v
    Items,         \* Items[v]: the items of v, none unless v is a collection
    Invalid,       \* the addresses that later releases reject
    BadStreet,     \* those of them that the pattern of m2 rejects
    Full,          \* Full[r]: release r writes the names of types in full
    Unset,         \* the absence of a key
    NotRead,       \* the absence of a cached result
    Shown,         \* the paths that the page reads
    Releases,      \* how many releases there are
    Total,         \* Total[r]: TotalMigrations of release r
    Declared       \* Declared[r][p]: the type of writable fact p in release r

Path    == Plain \cup Member
Release == 1 .. Releases

(* "none": release r has no such fact, or it is derived.  The members of a *)
(* path that is no collection cannot be declared.                          *)
ASSUME ReleasesAssumption ==
    /\ Releases \in Nat \ {0}
    /\ Plain \cap Member = {}
    /\ CollectionOf \in [Member -> Plain]
    /\ Unset \notin Value /\ NotRead \notin Value \cup {Unset}
    /\ \A v \in Value : Kind[v] # "none" /\ (Kind[v] # "collection" => Items[v] = {})
    /\ Total \in [Release -> Nat]
    /\ Full \in [Release -> BOOLEAN]
    /\ Shown \subseteq Path
    /\ \A r \in Release, p \in Member :
        Declared[r][p] # "none" => Declared[r][CollectionOf[p]] = "collection"

VARIABLES
    release,     \* the release that is deployed
    file,        \* the file, if there is one: its facts, the number in it, whether
                 \* types are named in full; and history: its migrations
    phase,       \* "closed", or what checkPersister is doing to the open graph
    live,        \* the persister's edited map
    store,       \* its committed map
    cached,      \* the graph's resultCache
    migrations,  \* history: those that ran on these facts, if none was taken back
    pending,     \* the paths checkPersister has yet to look at
    issues,      \* the paths it has removed
    before,      \* history: `live' when it began
    rolledBack   \* history: whether a release ever had fewer migrations

graph == <<phase, live, store, cached, migrations, pending, issues, before>>
vars  == <<graph, release, file, rolledBack>>

NoFacts == [p \in Path |-> Unset]
NoFile  == [facts |-> NoFacts, count |-> 0, full |-> FALSE, ran |-> <<>>, exists |-> FALSE]

NothingRead == [p \in Path |-> NotRead]

(* The graph st, on which the migrations ran were run, with nothing done.  *)
Opened(st, ran) ==
    /\ phase' = "open"
    /\ live' = st
    /\ store' = st
    /\ migrations' = ran
    /\ pending' = {}
    /\ issues' = {}
    /\ before' = NoFacts

Init ==
    /\ release = 1
    /\ file = NoFile
    /\ phase = "closed"
    /\ live = NoFacts
    /\ store = NoFacts
    /\ cached = NothingRead
    /\ migrations = <<>>
    /\ pending = {}
    /\ issues = {}
    /\ before = NoFacts
    /\ rolledBack = FALSE

-----------------------------------------------------------------------------
(* Files and migrations.                                                   *)

Upto(n) == [i \in 1 .. n |-> i]

(* m2 knows an address by the full name of its type, and an invalid one by *)
(* its street.                                                             *)
Recognised(v, full) == full /\ v \in BadStreet

(* AllMigrations: m1 does nothing, m2 deletes the invalid addresses it     *)
(* recognises.                                                             *)
Migrated(facts, full, ran) ==
    [p \in Path |-> IF Recognised(facts[p], full) /\ 2 \in {ran[i] : i \in DOMAIN ran}
                    THEN Unset ELSE facts[p]]

(* Mutant: the file's number is not looked at.                             *)
MissingAll(count, r) == Upto(Total[r])

(* Migrations.run drops as many as the file says it had.                   *)
Missing(count, r) == SubSeq(Upto(Total[r]), count + 1, Total[r])

(* The addresses that come after m2 refuse to be read or made.             *)
Accepts(r, v) == v \in Invalid => Total[r] < 2

(* Mutants: the count in the file never goes down; it is one too many.     *)
CountKept(r) == IF file.count > Total[r] THEN file.count ELSE Total[r]

CountNext(r) == Total[r] + 1

(* InMemoryPersister.toJson writes the release's own number, and names     *)
(* types as its serialisation does.                                        *)
Count(r) == Total[r]

SaveFile ==
    /\ phase \notin {"closed", "checking"}
    /\ file' = [facts |-> store, count |-> Count(release), full |-> Full[release],
                ran |-> migrations, exists |-> TRUE]
    /\ UNCHANGED <<graph, release, rolledBack>>

(* Mutant: the results that were read are kept.                            *)
LeaveCaches == UNCHANGED cached

ClearCaches == cached' = NothingRead

NewGraph ==
    /\ phase = "closed"
    /\ Opened(NoFacts, Upto(Total[release]))
    /\ ClearCaches
    /\ UNCHANGED <<release, file, rolledBack>>

(* Every fact must be read back: one that is refused makes it throw.       *)
Loads(facts, r) == \A p \in Path : facts[p] # Unset => Accepts(r, facts[p])

Load ==
    /\ phase = "closed"
    /\ file.exists
    /\ LET missing == Missing(file.count, release)
           facts   == Migrated(file.facts, file.full, missing)
           ran     == IF rolledBack THEN <<>> ELSE file.ran \o missing
       IN  Loads(facts, release) /\ Opened(facts, ran)
    /\ ClearCaches
    /\ UNCHANGED <<release, file, rolledBack>>

(* Another release is deployed, or the page is closed, or crashes: only    *)
(* the file remains.                                                       *)
Deploy(r) ==
    /\ release' = r
    /\ rolledBack' = (rolledBack \/ Total[r] < Total[release])
    /\ phase' = "closed"
    /\ live' = NoFacts
    /\ store' = NoFacts
    /\ ClearCaches
    /\ migrations' = <<>>
    /\ pending' = {}
    /\ issues' = {}
    /\ before' = NoFacts
    /\ UNCHANGED file

-----------------------------------------------------------------------------
(* The client's reads and edits.                                           *)

Type(p) == Declared[release][p]

(* What Fact.get returns: a result is computed once.                       *)
Seen == [p \in Path |-> IF cached[p] = NotRead THEN store[p] ELSE cached[p]]

(* The items of the collection at c, as Graph.getVect gives them.          *)
ItemsAt(st, c) == IF Type(c) = "collection" /\ st[c] # Unset THEN Items[st[c]] ELSE {}

Resolves(p) ==
    /\ Type(p) # "none"
    /\ p \in Member => ItemOf[p] \in ItemsAt(Seen, CollectionOf[p])

(* Graph.get.                                                              *)
Get(p) ==
    /\ phase \notin {"closed", "checking"}
    /\ Resolves(p)
    /\ cached' = [cached EXCEPT ![p] = Seen[p]]
    /\ UNCHANGED <<phase, live, store, migrations, pending, issues, before, release, file, rolledBack>>

(* Graph.set; it refuses to take items out of a collection, and its save() *)
(* clears the caches.                                                      *)
Set(p, v) ==
    /\ phase \notin {"closed", "checking"}
    /\ Resolves(p)
    /\ Kind[v] = Type(p)
    /\ Accepts(release, v)
    /\ p \in Plain => ItemsAt(Seen, p) \subseteq Items[v]
    /\ Opened([live EXCEPT ![p] = v], migrations)
    /\ ClearCaches
    /\ UNCHANGED <<release, file, rolledBack>>

(* Graph.delete: a collection goes without the facts of its items.         *)
Delete(p) ==
    /\ phase \notin {"closed", "checking"}
    /\ Resolves(p)
    /\ Opened([live EXCEPT ![p] = Unset], migrations)
    /\ ClearCaches
    /\ UNCHANGED <<release, file, rolledBack>>

-----------------------------------------------------------------------------
(* checkPersister, which is syncWithDictionary.                            *)

(* Mutant: it goes through the committed map.                              *)
BeginCheckCommitted ==
    /\ phase \notin {"closed", "checking"}
    /\ phase' = "checking"
    /\ pending' = {p \in Path : store[p] # Unset}
    /\ issues' = {}
    /\ before' = live
    /\ UNCHANGED <<live, store, cached, migrations, release, file, rolledBack>>

BeginCheck ==
    /\ phase \notin {"closed", "checking"}
    /\ phase' = "checking"
    /\ pending' = {p \in Path : live[p] # Unset}
    /\ issues' = {}
    /\ before' = live
    /\ UNCHANGED <<live, store, cached, migrations, release, file, rolledBack>>

(* A collection whose value is something else cannot be read.              *)
Unreadable(p) ==
    /\ p \in Member
    /\ Type(CollectionOf[p]) = "collection"
    /\ Seen[CollectionOf[p]] # Unset
    /\ Kind[Seen[CollectionOf[p]]] # "collection"

(* Mutant: the members of a collection with items are all kept.            *)
HasBadItemIdIfNone(p) == p \in Member /\ ItemsAt(Seen, CollectionOf[p]) = {}

HasBadItemId(p) ==
    /\ p \in Member
    /\ ItemOf[p] \notin ItemsAt(Seen, CollectionOf[p])

(* The cache once the items of p's collection have been read.              *)
Looked(p) ==
    IF p \in Member /\ Type(CollectionOf[p]) = "collection"
    THEN [cached EXCEPT ![CollectionOf[p]] = Seen[CollectionOf[p]]]
    ELSE cached

(* checkTypeMapping knows the primitive types only.                        *)
Mistyped(p) == Kind[live[p]] \in {"int", "text"} /\ Kind[live[p]] # Type(p)

Removes(p) == HasBadItemId(p) \/ Type(p) = "none" \/ Mistyped(p)

(* Mutant: what is removed is not reported.                                *)
RemoveSilently(p) ==
    /\ live' = [live EXCEPT ![p] = Unset]
    /\ cached' = Looked(p)
    /\ UNCHANGED <<store, issues>>

Remove(p) ==
    /\ live' = [live EXCEPT ![p] = Unset]
    /\ issues' = issues \cup {p}
    /\ cached' = Looked(p)
    /\ UNCHANGED store

(* What is kept is set to the value it has, and saved by Graph.save.       *)
Keep ==
    /\ store' = live
    /\ ClearCaches
    /\ UNCHANGED <<live, issues>>

(* The path p is looked at, in any order: the map is a hash map.           *)
Check(p) ==
    /\ phase = "checking"
    /\ p \in pending
    /\ ~Unreadable(p)
    /\ \/ Removes(p) /\ Remove(p)
       \/ ~Removes(p) /\ Kind[live[p]] = Type(p) /\ Keep
    /\ pending' = pending \ {p}
    /\ UNCHANGED <<phase, migrations, before, release, file, rolledBack>>

(* Fact.set refuses a kept value of another type, a collection that cannot *)
(* be read throws: the check is left half-way, and its report lost.        *)
CheckThrows(p) ==
    /\ phase = "checking"
    /\ p \in pending
    /\ \/ Unreadable(p)
       \/ ~Removes(p) /\ Kind[live[p]] # Type(p)
    /\ phase' = "threw"
    /\ pending' = {}
    /\ cached' = Looked(p)
    /\ UNCHANGED <<live, store, migrations, issues, before, release, file, rolledBack>>

(* The persister's own save() ends it: the caches stay.                    *)
EndCheck ==
    /\ phase = "checking"
    /\ pending = {}
    /\ store' = live
    /\ phase' = "checked"
    /\ UNCHANGED <<live, cached, migrations, pending, issues, before, release, file, rolledBack>>

Next ==
    \/ \E r \in Release : Deploy(r)
    \/ NewGraph \/ Load \/ SaveFile
    \/ \E p \in Path, v \in Value : Set(p, v)
    \/ \E p \in Path : Delete(p) \/ Check(p) \/ CheckThrows(p)
    \/ \E p \in Shown : Get(p)
    \/ BeginCheck \/ EndCheck

Spec == Init /\ [][Next]_vars

-----------------------------------------------------------------------------
(* Properties.                                                             *)

Facts == [Path -> Value \cup {Unset}]

TypeOK ==
    /\ release \in Release
    /\ file.facts \in Facts /\ file.ran \in Seq(Nat) /\ file.full \in BOOLEAN
    /\ file.count \in {0} \cup {Total[r] : r \in Release}
    /\ phase \in {"closed", "open", "checking", "checked", "threw"}
    /\ live \in Facts /\ store \in Facts /\ before \in Facts
    /\ cached \in [Path -> Value \cup {Unset, NotRead}]
    /\ migrations \in Seq(Nat)
    /\ pending \subseteq Path /\ issues \subseteq Path
    /\ rolledBack \in BOOLEAN

(* The facts of st that the release's dictionary has a place for.          *)
Fits(p, st) ==
    /\ Kind[st[p]] = Type(p)
    /\ p \in Member => ItemOf[p] \in ItemsAt(st, CollectionOf[p])

(* When checkPersister returns, every persisted fact is one the dictionary *)
(* declares, of the type it declares, and belongs to an item that is in    *)
(* its collection, in whatever order the map was gone through              *)
(* (InMemoryPersister.scala:137-174).                                      *)
CheckedFits ==
    phase = "checked" => \A p \in Path : store[p] # Unset => Fits(p, store)

(* What checkPersister reports is what it took away, no more and no less,  *)
(* and of what it took away nothing had a place in the dictionary, also    *)
(* when it throws half-way (InMemoryPersister.scala:162-170).              *)
OnlyMisfitsGo ==
    phase \in {"checking", "checked", "threw"} =>
        \A p \in Path :
            /\ live[p] # before[p] <=> p \in issues
            /\ p \in issues => live[p] = Unset /\ ~Fits(p, before)

(* "in-progress Fact Graphs (which live in the user's browser) can be      *)
(* modified to fit the new requirements, before we attempt to load them    *)
(* in" (Migrations.scala:10-12): the file loads in whichever release comes *)
(* next, also after one was taken back and facts were set under it, unless *)
(* it holds an invalid address that m2 does not recognise                  *)
(* (Migrations.scala:38-42).                                               *)
RecognisedInFile ==
    \A p \in Path : file.facts[p] \in Invalid => Recognised(file.facts[p], file.full)

EveryFileLoads ==
    RecognisedInFile => \A r \in Release :
        Loads(Migrated(file.facts, file.full, Missing(file.count, r)), r)

(* "Skip already-applied migrations" (docs/migrations.md:110-112): unless  *)
(* a release was taken back, each of the release's migrations has run      *)
(* exactly once, in their order, however often the facts were stored.      *)
EachMigrationOnce ==
    ~rolledBack /\ phase # "closed" => migrations = Upto(Total[release])

(* The persister's save() that ends a check does not clear the caches      *)
(* (InMemoryPersister.scala:173, against Graph.scala:142-151).  What a     *)
(* page that has read facts goes on to see is nonetheless what is          *)
(* committed, but for facts that a check took away, and those only until   *)
(* the next set or delete; and no check, this one or the next, judges a    *)
(* member by items of such a fact.                                         *)
ReadsAreCommitted ==
    phase # "closed" =>
        /\ \A p \in Path :
            Seen[p] # store[p] => phase # "open" /\ store[p] = Unset /\ live[p] = Unset
        /\ \A c \in Plain : ItemsAt(Seen, c) = ItemsAt(store, c)

(* The invariant the proofs rest on.  Whatever a check removes, the items  *)
(* it judges members by stay what they were when it began; it has removed  *)
(* misfits only, and what it has looked at and left fits.                  *)
ItemsStay ==
    \A c \in Plain :
        /\ ItemsAt(live, c) = ItemsAt(store, c)
        /\ phase # "open" => ItemsAt(live, c) = ItemsAt(before, c)

IssuesAreRemoved ==
    /\ pending \cap issues = {}
    /\ \A p \in pending \cup issues : before[p] # Unset
    /\ \A p \in Path : live[p] = IF p \in issues THEN Unset ELSE before[p]
    /\ \A p \in issues : ~Fits(p, before)

KeptFits == \A p \in Path : live[p] # Unset => p \in pending \/ Fits(p, live)

(* A check has only taken facts away since the last save().                *)
OnlyTakenAway == \A p \in Path : live[p] \in {store[p], Unset}

(* No open graph, and no file from after m2, holds an invalid address.     *)
Accepted(r, facts) == \A p \in Path : facts[p] # Unset => Accepts(r, facts[p])

SyncInvariant ==
    /\ TypeOK
    /\ phase # "closed" => ItemsStay /\ Accepted(release, live) /\ Accepted(release, store)
    /\ OnlyTakenAway /\ ReadsAreCommitted
    /\ phase \in {"checking", "checked", "threw"} => IssuesAreRemoved
    /\ phase \in {"checking", "checked"} => KeptFits
    /\ phase = "checked" => pending = {} /\ store = live
    /\ \A p \in Path : file.facts[p] \in Invalid => file.count < 2 \/ file.facts[p] = Unset
=============================================================================

----------------------------- MODULE Collections -----------------------------
(***************************************************************************)
(* Collections of a fact graph: a writable fact whose value is a sequence  *)
(* of item ids, and the writable facts of each item, which may themselves  *)
(* be collections.  A path is a sequence of keys and ids, <<"coll", i,     *)
(* "x">> for /coll/#i/x.  A path resolves through the collections that are *)
(* served (Fact.applyMember); an id that is not in its collection resolves *)
(* to nothing, and setting or deleting nothing is a bare save().           *)
(*                                                                         *)
(* One step is one call of the Graph API, save() included, except that a   *)
(* deletion of an item is one step per call of Graph.delete it makes.      *)
(* FactGraph models the steps of save(); here it validates the facts that  *)
(* are queued, that of the call and those which earlier calls left when a  *)
(* limit threw, and commits, refuses or throws.                            *)
(***************************************************************************)
EXTENDS Naturals, Sequences, SequencesExt

CONSTANTS
    Key,         \* names of facts
    Item,        \* ids of collection items
    Collection,  \* paths of the writable collections
    Field,       \* paths of the other writable facts
    ItemsOf,     \* ItemsOf[c]: the ids clients make for the items of c
    Value,       \* Value[p]: what field p may be set to
    Unset,       \* no value
    Limited,     \* the paths of facts with a limit
    MaxSize,     \* MaxSize[c]: the MaxCollectionSize of c
    Allowed,     \* Allowed[p]: the values within the limits of field p
    Throwing,    \* Throwing[p]: those on which a limit of field p throws
    MaxItems     \* bound of the model: MaxItems[c] items in collection c

ASSUME CollectionsAssumption ==
    /\ Collection \cup Field \subseteq Seq(Key \cup Item)
    /\ Collection \cap Field = {}
    /\ ItemsOf \in [Collection -> SUBSET Item]
    /\ MaxSize \in [Collection -> Nat]
    /\ MaxItems \in [Collection -> Nat]
    /\ \A c \in Collection : Unset \notin SeqOf(ItemsOf[c], MaxItems[c])
    /\ \A p \in Collection \cup Field :
        /\ p # <<>> /\ p[Len(p)] \notin Item
        /\ \A k \in 2 .. Len(p) : p[k] \in Item => SubSeq(p, 1, k - 1) \in Collection
    /\ Limited \subseteq Collection \cup Field
    /\ \A p \in Field : Unset \notin Value[p] /\ Allowed[p] \cup Throwing[p] \subseteq Value[p]

VARIABLES
    live,    \* the persister's edited map
    store,   \* its committed map
    queue,   \* the facts it has yet to validate
    call,    \* the deletion of an item that is running, if any
    threw    \* history: whether a limit threw since all was last committed

vars == <<live, store, queue, call, threw>>

Path   == Collection \cup Field
Ids(c) == SeqOf(ItemsOf[c], MaxItems[c])
Idle   == [item |-> Unset]

Init ==
    /\ live = [p \in Path |-> Unset]
    /\ store = live
    /\ queue = {}
    /\ call = Idle
    /\ threw = FALSE

-----------------------------------------------------------------------------
(* Graph.addToCollection and removeFromCollection read an unset collection *)
(* as an empty one.                                                        *)
Items(st, c) == IF st[c] = Unset THEN <<>> ELSE st[c]

(* Fact.applyMember on every id of the path, over the map st.              *)
ResolvesIn(p, st) ==
    \A k \in 2 .. Len(p) :
        p[k] \in Item => p[k] \in ToSet(Items(st, SubSeq(p, 1, k - 1)))

(* The map that reads are served from.  The queue is left only by a save() *)
(* that a limit made throw, which leaves the snapshot of the edited map as *)
(* well; and as every edit is followed by a save(), it is the edited map.  *)
Served == IF queue = {} THEN store ELSE live

Resolves(p) == ResolvesIn(p, Served)

(* A limit's Dependency has the abstract path of its fact, /coll/*/x, and  *)
(* Limit.run looks at the first element of the vector that gives: whatever *)
(* item was set, the limit is checked on the first item there is.          *)
Alike(p, q) ==
    /\ Len(p) = Len(q)
    /\ \A k \in 1 .. Len(p) : p[k] = q[k] \/ {p[k], q[k]} \subseteq Item

Precedes(p, q, st) ==
    \E k \in 2 .. Len(p) :
        LET items == Items(st, SubSeq(p, 1, k - 1))
        IN  /\ SubSeq(p, 1, k - 1) = SubSeq(q, 1, k - 1) /\ p[k] # q[k]
            /\ \E n \in DOMAIN items : items[n] = p[k] /\ \A m \in 1 .. n : items[m] # q[k]

Elements(p, st) == {q \in Path : Alike(p, q) /\ ResolvesIn(q, st)}

Judged(p, st) ==
    CHOOSE q \in Elements(p, st) : \A r \in Elements(p, st) \ {q} : Precedes(q, r, st)

(* There may be no first element.                                          *)
Throws(p, st) ==
    /\ p \in Limited
    /\ \/ Elements(p, st) = {}
       \/ p \in Field /\ st[Judged(p, st)] \in Throwing[p]

Breaks(p, st) ==
    /\ p \in Limited
    /\ \/ p \in Collection /\ Len(Items(st, Judged(p, st))) > MaxSize[p]
       \/ p \in Field /\ st[Judged(p, st)] \notin Allowed[p] \cup {Unset}

(* Some of the facts of a deletion have yet to be deleted.                 *)
Deleting == call # Idle /\ call.todo # {}

(* InMemoryPersister.save() when q is queued: when a limit throws, neither *)
(* is the queue cleared.                                                   *)
Save(q) ==
    /\ IF \E p \in q : Throws(p, live') THEN queue' = q /\ UNCHANGED store
       ELSE /\ queue' = {}
            /\ store' = IF \E p \in q : Breaks(p, live') THEN store ELSE live'
    /\ threw' = (queue' # {} \/ (threw /\ (Deleting \/ store' # live')))

SetPath(p, v) ==
    /\ live' = [live EXCEPT ![p] = v]
    /\ Save(queue \cup {p})

(* deleteFact takes the fact out of the queue.                             *)
DeletePath(p) ==
    /\ live' = [live EXCEPT ![p] = Unset]
    /\ Save(queue \ {p})

-----------------------------------------------------------------------------
(* Mutant: the sizes are compared, not the items.                          *)
ShrinksInSize(c, items) == Len(items) < Len(Items(Served, c))

(* Fact.set refuses a collection that misses an item of the one served.    *)
Shrinks(c, items) == ~(ToSet(Items(Served, c)) \subseteq ToSet(items))

(* Graph.set of a collection: nothing changes when Fact.set throws.        *)
SetItems(c, items) ==
    \/ Shrinks(c, items) /\ UNCHANGED <<live, store, queue, threw>>
    \/ ~Shrinks(c, items) /\ SetPath(c, items)

SetCollection(c, items) ==
    /\ call = Idle
    /\ UNCHANGED call
    /\ Resolves(c)
    /\ SetItems(c, items)

AddToCollection(c, i) ==
    /\ call = Idle
    /\ UNCHANGED call
    /\ Resolves(c)
    /\ Len(Items(Served, c)) < MaxItems[c]
    /\ SetItems(c, Append(Items(Served, c), i))

(* The items that are not i, in their order.                               *)
Without(items, i) ==
    LET kept[k \in 0 .. Len(items)] ==
            IF k = 0 THEN <<>>
            ELSE IF items[k] = i THEN kept[k - 1]
            ELSE Append(kept[k - 1], items[k])
    IN  kept[Len(items)]

(* It goes through Graph.set, so it throws when the item is there.         *)
RemoveFromCollection(c, i) ==
    /\ call = Idle
    /\ UNCHANGED call
    /\ Resolves(c)
    /\ SetItems(c, Without(Items(Served, c), i))

(* Graph.set of another fact.                                              *)
SetField(p, v) ==
    /\ call = Idle
    /\ UNCHANGED call
    /\ Resolves(p)
    /\ SetPath(p, v)

(* Mutant: an empty value is stored instead of the key being removed.      *)
DeleteFactEmptied(p) ==
    /\ call = Idle
    /\ UNCHANGED call
    /\ Resolves(p)
    /\ live' = [live EXCEPT ![p] = <<>>]
    /\ Save(queue \ {p})

(* Graph.delete of a fact that is no item: a collection goes without the   *)
(* facts of its items.                                                     *)
DeleteFact(p) ==
    /\ call = Idle
    /\ UNCHANGED call
    /\ Resolves(p)
    /\ DeletePath(p)

(* Graph.save, and Graph.set or delete of a path that does not resolve.    *)
SaveOnly ==
    /\ call = Idle
    /\ UNCHANGED <<live, call>>
    /\ Save(queue)

-----------------------------------------------------------------------------
(* Graph.delete of item i of collection c.                                 *)

Below(p, c, i) == IsStrictPrefix(Append(c, i), p)

(* Mutant: the paths below the item are looked up in the committed map.    *)
BeginDeleteCommitted(c, i) ==
    /\ call = Idle
    /\ Resolves(Append(c, i))
    /\ call' = [item |-> i, collection |-> c, items |-> Items(Served, c),
                todo |-> {p \in Path : store[p] # Unset /\ Below(p, c, i)}]
    /\ UNCHANGED <<live, store, queue, threw>>

(* Fact.delete reads the collection; deleteFact goes through the paths     *)
(* below the item that have a value.                                       *)
BeginDelete(c, i) ==
    /\ call = Idle
    /\ Resolves(Append(c, i))
    /\ call' = [item |-> i, collection |-> c, items |-> Items(Served, c),
                todo |-> {p \in Path : live[p] # Unset /\ Below(p, c, i)}]
    /\ UNCHANGED <<live, store, queue, threw>>

(* Mutant: the deletion of such a path is not saved on its own.            *)
DeleteBelowUnsaved(p) ==
    /\ call # Idle
    /\ p \in call.todo
    /\ live' = IF Resolves(p) THEN [live EXCEPT ![p] = Unset] ELSE live
    /\ call' = [call EXCEPT !.todo = @ \ {p}]
    /\ UNCHANGED <<store, queue, threw>>

(* One Graph.delete of such a path, in the map's order, with its save():   *)
(* when that throws the deletion ends.                                     *)
DeleteBelow(p) ==
    /\ call # Idle
    /\ p \in call.todo
    /\ IF Resolves(p) THEN DeletePath(p) ELSE UNCHANGED live /\ Save(queue)
    /\ call' = IF queue' = {} THEN [call EXCEPT !.todo = @ \ {p}] ELSE Idle

(* The item is taken out of the collection as it was read at the start,    *)
(* unless the collection no longer resolves, which throws.                 *)
EndDelete ==
    /\ call # Idle
    /\ call.todo = {}
    /\ call' = Idle
    /\ \/ /\ Resolves(call.collection)
          /\ SetPath(call.collection, Without(call.items, call.item))
       \/ ~Resolves(call.collection) /\ UNCHANGED <<live, store, queue, threw>>

Next ==
    \/ \E c \in Collection :
        \/ \E items \in Ids(c) : SetCollection(c, items)
        \/ \E i \in ItemsOf[c] : AddToCollection(c, i) \/ RemoveFromCollection(c, i) \/ BeginDelete(c, i)
    \/ \E p \in Field : \E v \in Value[p] : SetField(p, v)
    \/ \E p \in Path : DeleteFact(p) \/ DeleteBelow(p)
    \/ SaveOnly
    \/ EndDelete

Spec == Init /\ [][Next]_vars

-----------------------------------------------------------------------------
(* Properties.                                                             *)

TypeOK ==
    /\ \A st \in {live, store} :
        /\ DOMAIN st = Path
        /\ \A c \in Collection : st[c] \in Ids(c) \cup {Unset}
        /\ \A p \in Field : st[p] \in Value[p] \cup {Unset}
    /\ queue \subseteq Path
    /\ threw \in BOOLEAN
    /\ call # Idle => /\ DOMAIN call = {"item", "collection", "items", "todo"}
                      /\ call.collection \in Collection
                      /\ call.item \in ItemsOf[call.collection]
                      /\ call.items \in Ids(call.collection)
                      /\ call.todo \subseteq Path

(* Without deleting the item, or its whole collection, no sequence of      *)
(* calls takes a committed item out of the edited collection: not set(),   *)
(* not removeFromCollection, not the deletion of another item, unless that *)
(* one committed the item half-way (Fact.scala:58-68, 90-96).              *)
ItemsLeaveByDelete ==
    [][\A c \in Collection :
        LET gone == (ToSet(Items(store, c)) \cap ToSet(Items(live, c)))
                        \ ToSet(Items(live', c))
        IN  \/ gone = {}
            \/ live'[c] = Unset
            \/ /\ call # Idle
               /\ c = call.collection
               /\ gone \cap ToSet(call.items) \subseteq {call.item}]_vars

(* The facts of the item itself, not those of the items of its items.     *)
OwnFact(p, c, i) == Below(p, c, i) /\ Len(p) = Len(c) + 2

(* When an item has been deleted none of its own facts has a value, not    *)
(* even one that a refused save() had left behind, provided the item was   *)
(* not already gone from the edited map, and that no limit had thrown: the *)
(* item may be in the edited map alone then                                *)
(* (InMemoryPersister.scala:46-60, 176-187).                               *)
OwnFactsGo ==
    [][call # Idle /\ call' = Idle /\ ~threw
            /\ ResolvesIn(Append(call.collection, call.item), live) =>
        \A p \in Path : OwnFact(p, call.collection, call.item) =>
            live'[p] = Unset /\ store'[p] = Unset]_vars

(* No fact is committed that was not set: a deletion commits at once.      *)
CommittedIsEdited == \A p \in Path : live[p] = Unset => store[p] = Unset

(* While item i of c is deleted its own facts have no value or have their  *)
(* turn to come, and the turn will delete them: unless the edited map has  *)
(* lost the item, the one that is served has it.                           *)
OwnFactsHaveATurn ==
    call # Idle /\ ResolvesIn(Append(call.collection, call.item), live) =>
        /\ Resolves(Append(call.collection, call.item))
        /\ \A p \in Path : OwnFact(p, call.collection, call.item) =>
            live[p] = Unset \/ p \in call.todo

OnlyFactsBelowHaveATurn ==
    call # Idle => \A p \in call.todo : Below(p, call.collection, call.item)

(* What every call preserves, whatever limits refuse, and restores once    *)
(* all is committed after one that threw (Fact.scala:75-97,                *)
(* InMemoryPersister.scala:46-60, 176-187).                                *)
CollectionsInvariant ==
    /\ ~threw => queue = {} /\ CommittedIsEdited /\ OwnFactsHaveATurn
    /\ OnlyFactsBelowHaveATurn

(* "Whether to cascade the delete (e.g., `fact.path` is for a collection   *)
(* item)" (InMemoryPersister.scala:44): nothing below a deleted item       *)
(* keeps a value.                                                          *)
DeleteCascades ==
    [][call # Idle /\ call' = Idle =>
        \A p \in Path : Below(p, call.collection, call.item) => live'[p] = Unset]_vars
=============================================================================

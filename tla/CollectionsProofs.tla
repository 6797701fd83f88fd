--------------------------- MODULE CollectionsProofs ---------------------------
(***************************************************************************)
(* Over any nesting of collections and whatever limits refuse: items leave *)
(* a collection only by deletion, also after limits that threw, and take   *)
(* their own facts with them, as long as none did.                         *)
(***************************************************************************)
EXTENDS Collections, Induction, SequenceTheorems

-----------------------------------------------------------------------------
(* Sequences of items.                                                     *)

LEMMA AppendedItems ==
    ASSUME NEW T, NEW s \in Seq(T), NEW e \in T
    PROVE  ToSet(Append(s, e)) = ToSet(s) \cup {e}
<1> DEFINE t == Append(s, e)
<1>1. /\ DOMAIN s = 1 .. Len(s) /\ Len(s) \in Nat
      /\ DOMAIN t = 1 .. Len(s) + 1
      /\ t[Len(s) + 1] = e
      /\ \A k \in 1 .. Len(s) : t[k] = s[k]
  OBVIOUS
<1>2. 1 .. Len(s) + 1 = (1 .. Len(s)) \cup {Len(s) + 1}
  BY <1>1
<1> HIDE DEF t
<1> QED
  BY <1>1, <1>2 DEF ToSet

LEMMA IdsAre ==
    ASSUME NEW T, NEW n \in Nat, NEW s
    PROVE  s \in SeqOf(T, n) <=> s \in Seq(T) /\ Len(s) <= n
<1>1. ASSUME s \in SeqOf(T, n) PROVE s \in Seq(T) /\ Len(s) <= n
  <2>1. PICK m \in 0 .. n : s \in [1 .. m -> T]
    BY <1>1 DEF SeqOf
  <2> QED
    BY <2>1
<1>2. ASSUME s \in Seq(T), Len(s) <= n PROVE s \in SeqOf(T, n)
  <2>1. s \in [1 .. Len(s) -> T] /\ Len(s) \in 0 .. n
    BY <1>2
  <2> QED
    BY <2>1 DEF SeqOf
<1> QED
  BY <1>1, <1>2

-----------------------------------------------------------------------------
(* What Without leaves: f[k] is what it leaves of the first k items.       *)

Filters(items, i, n, f) ==
    f = [k \in 0 .. n |->
            IF k = 0 THEN <<>>
            ELSE IF items[k] = i THEN f[k - 1]
            ELSE Append(f[k - 1], items[k])]

LEMMA FilterExists ==
    ASSUME NEW items, NEW i, NEW n \in Nat
    PROVE  \E f : Filters(items, i, n, f)
<1> DEFINE S == {m \in Nat : \E f : Filters(items, i, m, f)}
<1>1. 0 \in S
  <2>1. Filters(items, i, 0, [k \in 0 .. 0 |-> <<>>])
    BY DEF Filters
  <2> QED
    BY <2>1
<1>2. ASSUME NEW m \in Nat, m \in S PROVE m + 1 \in S
  <2>1. PICK f : Filters(items, i, m, f)
    BY <1>2
  <2> DEFINE last == IF items[m + 1] = i THEN f[m] ELSE Append(f[m], items[m + 1])
             g    == [k \in 0 .. m + 1 |-> IF k = m + 1 THEN last ELSE f[k]]
  <2>2. g[m + 1] = last /\ \A k \in 0 .. m : g[k] = f[k]
    OBVIOUS
  <2>3. \A k \in 0 .. m : f[k] = IF k = 0 THEN <<>>
                                 ELSE IF items[k] = i THEN f[k - 1]
                                 ELSE Append(f[k - 1], items[k])
    BY <2>1 DEF Filters
  <2>4. ASSUME NEW k \in 0 .. m + 1
        PROVE  g[k] = IF k = 0 THEN <<>>
                      ELSE IF items[k] = i THEN g[k - 1]
                      ELSE Append(g[k - 1], items[k])
    <3>1. CASE k = m + 1
      BY <2>2, <3>1
    <3>2. CASE k \in 0 .. m
      <4>1. k # 0 => k - 1 \in 0 .. m
        BY <3>2
      <4> HIDE DEF g
      <4> QED
        BY <2>2, <2>3, <3>2, <4>1
    <3> QED
      BY <3>1, <3>2
  <2>5. Filters(items, i, m + 1, g)
    BY <2>4 DEF Filters
  <2> QED
    BY <2>5
<1> HIDE DEF S
<1>3. Nat \subseteq S
  BY <1>1, <1>2, NumberAfterNumber
<1> QED
  BY <1>3 DEF S

(* Without takes out every i and nothing else.                             *)
LEMMA WithoutIs ==
    ASSUME NEW T, NEW items \in Seq(T), NEW i
    PROVE  /\ Without(items, i) \in Seq(T)
           /\ Len(Without(items, i)) <= Len(items)
           /\ ToSet(Without(items, i)) = ToSet(items) \ {i}
<1> DEFINE n == Len(items)
           f == CHOOSE f : Filters(items, i, n, f)
<1>1. n \in Nat
  OBVIOUS
<1>2. Without(items, i) = f[n]
  BY DEF Without, Filters
<1>3. Filters(items, i, n, f)
  BY <1>1, FilterExists
<1>4. \A k \in 0 .. n : f[k] = IF k = 0 THEN <<>>
                                ELSE IF items[k] = i THEN f[k - 1]
                                ELSE Append(f[k - 1], items[k])
  BY <1>3 DEF Filters
<1> HIDE DEF f
<1> DEFINE Good(k) == /\ f[k] \in Seq(T)
                      /\ Len(f[k]) <= k
                      /\ ToSet(f[k]) = {items[j] : j \in 1 .. k} \ {i}
           S == {k \in Nat : k <= n => Good(k)}
<1>5. 0 \in S
  <2>1. f[0] = <<>>
    BY <1>1, <1>4
  <2>2. ToSet(<<>>) = {}
    BY DEF ToSet
  <2>3. f[0] \in Seq(T) /\ Len(f[0]) <= 0
    BY <2>1
  <2>4. {items[j] : j \in 1 .. 0} = {}
    OBVIOUS
  <2> QED
    BY <2>1, <2>2, <2>3, <2>4
<1>6. ASSUME NEW k \in Nat, k \in S PROVE k + 1 \in S
  <2> SUFFICES ASSUME k + 1 <= n PROVE Good(k + 1)
    OBVIOUS
  <2>1. Good(k)
    BY <1>1, <1>6
  <2>2. f[k + 1] = IF items[k + 1] = i THEN f[k] ELSE Append(f[k], items[k + 1])
    BY <1>1, <1>4
  <2>3. items[k + 1] \in T
    OBVIOUS
  <2>4. {items[j] : j \in 1 .. k + 1} = {items[j] : j \in 1 .. k} \cup {items[k + 1]}
    <3>1. 1 .. k + 1 = (1 .. k) \cup {k + 1}
      OBVIOUS
    <3> QED
      BY <3>1
  <2>5. CASE items[k + 1] = i
    BY <2>1, <2>2, <2>4, <2>5
  <2>6. CASE items[k + 1] # i
    <3> DEFINE e == items[k + 1]
    <3>1. f[k + 1] \in Seq(T) /\ Len(f[k + 1]) <= k + 1
      BY <2>1, <2>2, <2>3, <2>6
    <3>2. ToSet(Append(f[k], e)) = ToSet(f[k]) \cup {e}
      BY <2>1, <2>3, AppendedItems
    <3> QED
      BY <2>1, <2>2, <2>4, <2>6, <3>1, <3>2
  <2> QED
    BY <2>5, <2>6
<1>7. n \in S
  <2> HIDE DEF S
  <2> QED
    BY <1>1, <1>5, <1>6, NumberAfterNumber
<1>8. {items[j] : j \in 1 .. n} = ToSet(items)
  BY DEF ToSet
<1> QED
  BY <1>1, <1>2, <1>7, <1>8

-----------------------------------------------------------------------------
(* Values and maps.                                                        *)

Fits(p, v) == /\ p \in Collection => v \in Ids(p)
              /\ p \in Field => v \in Value[p]

IsMap(st) == /\ DOMAIN st = Path
             /\ \A c \in Collection : st[c] \in Ids(c) \cup {Unset}
             /\ \A p \in Field : st[p] \in Value[p] \cup {Unset}

IsCall(cl) ==
    cl # Idle => /\ DOMAIN cl = {"item", "collection", "items", "todo"}
                 /\ cl.collection \in Collection
                 /\ cl.item \in ItemsOf[cl.collection]
                 /\ cl.items \in Ids(cl.collection)
                 /\ cl.todo \subseteq Path

LEMMA TypeIs ==
    TypeOK <=> /\ IsMap(live) /\ IsMap(store)
               /\ queue \subseteq Path /\ threw \in BOOLEAN /\ IsCall(call)
BY DEF TypeOK, IsMap, IsCall

LEMMA ServedIs == Served \in {store, live} /\ (queue = {} => Served = store)
BY DEF Served

LEMMA FitsIsSet == ASSUME NEW p \in Path, NEW v, Fits(p, v) PROVE v # Unset
BY CollectionsAssumption DEF Fits, Ids, Path

LEMMA IdsOf ==
    ASSUME NEW c \in Collection, NEW s
    PROVE  s \in Ids(c) <=> s \in Seq(ItemsOf[c]) /\ Len(s) <= MaxItems[c]
BY CollectionsAssumption, IdsAre DEF Ids

LEMMA ItemsFit ==
    ASSUME NEW st, IsMap(st), NEW c \in Collection
    PROVE  Items(st, c) \in Ids(c)
<1>1. <<>> \in Ids(c)
  <2>1. MaxItems[c] \in Nat
    BY CollectionsAssumption
  <2>2. <<>> \in Seq(ItemsOf[c]) /\ Len(<<>>) <= MaxItems[c]
    BY <2>1
  <2> QED
    BY <2>2, IdsOf
<1> QED
  BY <1>1 DEF Items, IsMap

LEMMA WithoutFits ==
    ASSUME NEW c \in Collection, NEW s \in Ids(c), NEW i
    PROVE  Without(s, i) \in Ids(c) /\ ToSet(Without(s, i)) = ToSet(s) \ {i}
<1>1. s \in Seq(ItemsOf[c]) /\ Len(s) <= MaxItems[c] /\ MaxItems[c] \in Nat
  BY IdsOf, CollectionsAssumption
<1>2. /\ Without(s, i) \in Seq(ItemsOf[c])
      /\ Len(Without(s, i)) <= Len(s)
      /\ ToSet(Without(s, i)) = ToSet(s) \ {i}
  BY <1>1, WithoutIs
<1>3. Len(s) \in Nat /\ Len(Without(s, i)) \in Nat
  BY <1>1, <1>2
<1>4. Len(Without(s, i)) <= MaxItems[c]
  BY <1>1, <1>2, <1>3
<1> QED
  BY <1>2, <1>4, IdsOf

LEMMA WriteFits ==
    ASSUME NEW st, IsMap(st), NEW p \in Path, NEW v, Fits(p, v) \/ v = Unset
    PROVE  IsMap([st EXCEPT ![p] = v])
BY DEF IsMap, Fits, Path

-----------------------------------------------------------------------------
(* The calls, in six kinds.                                                *)

(* A fact is set: a collection never to fewer items than are served.       *)
Sets(p, v) ==
    /\ call = Idle
    /\ UNCHANGED call
    /\ Fits(p, v)
    /\ SetPath(p, v)
    /\ p \in Collection => ToSet(Items(Served, p)) \subseteq ToSet(v)

(* Nothing is set, and what there is may be saved.                         *)
SetsNothing ==
    /\ call = Idle
    /\ UNCHANGED <<live, call>>
    /\ UNCHANGED <<store, queue, threw>> \/ Save(queue)

LEMMA SetItemsIs ==
    ASSUME NEW c \in Collection, NEW items \in Ids(c), SetItems(c, items), call = Idle, UNCHANGED call
    PROVE  Sets(c, items) \/ SetsNothing
<1>1. c \notin Field
  BY CollectionsAssumption
<1>2. CASE Shrinks(c, items)
  BY <1>2 DEF SetItems, SetsNothing, Shrinks
<1>3. CASE ~Shrinks(c, items)
  BY <1>1, <1>3 DEF SetItems, Sets, Shrinks, Fits
<1> QED
  BY <1>2, <1>3

LEMMA CallsAre ==
    ASSUME TypeOK, Next
    PROVE  \/ \E p \in Path : \E v : Sets(p, v)
           \/ SetsNothing
           \/ \E p \in Path : DeleteFact(p) \/ DeleteBelow(p)
           \/ \E c \in Collection : \E i \in ItemsOf[c] : BeginDelete(c, i)
           \/ EndDelete
<1>1. ASSUME NEW c \in Collection, NEW items \in Ids(c), SetCollection(c, items)
      PROVE  Sets(c, items) \/ SetsNothing
  BY <1>1, SetItemsIs DEF SetCollection
<1>2. ASSUME NEW c \in Collection, NEW i \in ItemsOf[c], AddToCollection(c, i)
      PROVE  Sets(c, Append(Items(Served, c), i)) \/ SetsNothing
  <2>1. Items(Served, c) \in Ids(c)
    BY ItemsFit, TypeIs, ServedIs
  <2> DEFINE s == Items(Served, c)
  <2>2. s \in Seq(ItemsOf[c]) /\ Len(s) < MaxItems[c] /\ MaxItems[c] \in Nat
    BY <1>2, <2>1, IdsOf, CollectionsAssumption DEF AddToCollection
  <2>3. Append(s, i) \in Ids(c)
    <3> HIDE DEF s
    <3>1. Append(s, i) \in Seq(ItemsOf[c]) /\ Len(Append(s, i)) <= MaxItems[c]
      BY <2>2
    <3> QED
      BY <3>1, IdsOf
  <2> QED
    BY <1>2, <2>3, SetItemsIs DEF AddToCollection
<1>3. ASSUME NEW c \in Collection, NEW i \in ItemsOf[c], RemoveFromCollection(c, i)
      PROVE  Sets(c, Without(Items(Served, c), i)) \/ SetsNothing
  <2>1. Without(Items(Served, c), i) \in Ids(c)
    BY ItemsFit, WithoutFits, TypeIs, ServedIs
  <2> QED
    BY <1>3, <2>1, SetItemsIs DEF RemoveFromCollection
<1>4. ASSUME NEW p \in Field, NEW v \in Value[p], SetField(p, v)
      PROVE  Sets(p, v)
  BY <1>4, CollectionsAssumption DEF SetField, Sets, Fits
<1>5. SaveOnly => SetsNothing
  BY DEF SaveOnly, SetsNothing
<1>6. Collection \subseteq Path /\ Field \subseteq Path
  BY DEF Path
<1> QED
  BY <1>1, <1>2, <1>3, <1>4, <1>5, <1>6 DEF Next

-----------------------------------------------------------------------------
(* Types.                                                                  *)

LEMMA InitTypes == Init => TypeOK
BY DEF Init, TypeOK, Path, Idle

(* A save() commits all or nothing.  If there is nothing to validate it    *)
(* commits, and once a limit has thrown only a commit settles things.      *)
LEMMA SaveIs ==
    ASSUME NEW q, Save(q), threw \in BOOLEAN
    PROVE  /\ store' \in {store, live'}
           /\ queue' \in {{}, q} /\ threw' \in BOOLEAN
           /\ ~threw' => queue' = {} /\ (threw => ~Deleting /\ store' = live')
           /\ q = {} => store' = live'
BY DEF Save

Typed == /\ IsMap(live) /\ IsMap(store)
         /\ queue \subseteq Path /\ threw \in BOOLEAN

LEMMA SaveFits ==
    ASSUME Typed, IsMap(live'), NEW q \in SUBSET Path, Save(q)
    PROVE  Typed'
<1>1. /\ store' \in {store, live'}
      /\ queue' \in {{}, q} /\ threw' \in BOOLEAN
  BY SaveIs DEF Typed
<1> QED
  BY <1>1 DEF Typed

LEMMA SetPathFits ==
    ASSUME Typed, NEW p \in Path, NEW v, Fits(p, v), SetPath(p, v)
    PROVE  Typed'
<1>1. live' = [live EXCEPT ![p] = v] /\ Save(queue \cup {p}) /\ queue \cup {p} \in SUBSET Path
  BY DEF SetPath, Typed
<1>2. IsMap([live EXCEPT ![p] = v])
  BY WriteFits DEF Typed
<1> QED
  BY <1>1, <1>2, SaveFits

LEMMA DeletePathFits ==
    ASSUME Typed, NEW p \in Path, DeletePath(p)
    PROVE  Typed'
<1>1. live' = [live EXCEPT ![p] = Unset] /\ Save(queue \ {p}) /\ queue \ {p} \in SUBSET Path
  BY DEF DeletePath, Typed
<1>2. IsMap([live EXCEPT ![p] = Unset])
  BY WriteFits DEF Typed
<1> QED
  BY <1>1, <1>2, SaveFits

LEMMA NextTypes == TypeOK /\ [Next]_vars => TypeOK'
<1> SUFFICES ASSUME TypeOK, [Next]_vars PROVE TypeOK'
  OBVIOUS
<1>0. Typed /\ IsCall(call)
  BY TypeIs DEF Typed
<1> SUFFICES Typed' /\ IsCall(call')
  BY DEF TypeOK, IsMap, IsCall, Typed
<1>1. ASSUME NEW p \in Path, NEW v, Sets(p, v) PROVE Typed' /\ IsCall(call')
  BY <1>0, <1>1, SetPathFits DEF Sets
<1>2. CASE SetsNothing
  <2>1. CASE Save(queue)
    <3>1. queue \in SUBSET Path /\ IsMap(live')
      BY <1>0, <1>2 DEF SetsNothing, Typed
    <3> QED
      BY <1>0, <1>2, <2>1, <3>1, SaveFits DEF SetsNothing
  <2>2. CASE UNCHANGED <<store, queue, threw>>
    BY <1>0, <1>2, <2>2 DEF SetsNothing, Typed
  <2> QED
    BY <1>2, <2>1, <2>2 DEF SetsNothing
<1>3. ASSUME NEW p \in Path, DeleteFact(p) PROVE Typed' /\ IsCall(call')
  BY <1>0, <1>3, DeletePathFits DEF DeleteFact
<1>4. ASSUME NEW p \in Path, DeleteBelow(p) PROVE Typed' /\ IsCall(call')
  <2>1. ASSUME Resolves(p) PROVE Typed'
    BY <1>0, <1>4, <2>1, DeletePathFits DEF DeleteBelow
  <2>2. ASSUME ~Resolves(p) PROVE Typed'
    <3>1. queue \in SUBSET Path /\ IsMap(live') /\ Save(queue)
      BY <1>0, <1>4, <2>2 DEF DeleteBelow, Typed
    <3> QED
      BY <1>0, <3>1, SaveFits
  <2>3. IsCall(call')
    BY <1>0, <1>4 DEF DeleteBelow, IsCall
  <2> QED
    BY <2>1, <2>2, <2>3
<1>5. ASSUME NEW c \in Collection, NEW i \in ItemsOf[c], BeginDelete(c, i)
      PROVE  Typed' /\ IsCall(call')
  <2>1. Items(Served, c) \in Ids(c)
    BY <1>0, ItemsFit, ServedIs DEF Typed
  <2> QED
    BY <1>0, <1>5, <2>1 DEF BeginDelete, IsCall, Typed
<1>6. CASE EndDelete
  <2>1. CASE Resolves(call.collection)
    <3> DEFINE c == call.collection
    <3>1. c \in Collection /\ call.items \in Ids(c) /\ c \in Path /\ c \notin Field
      BY <1>0, <1>6, CollectionsAssumption DEF EndDelete, IsCall, Path
    <3>2. Fits(c, Without(call.items, call.item))
      BY <3>1, WithoutFits DEF Fits
    <3>3. SetPath(c, Without(call.items, call.item))
      BY <1>6, <2>1 DEF EndDelete
    <3> QED
      BY <1>0, <1>6, <3>1, <3>2, <3>3, SetPathFits DEF EndDelete, IsCall
  <2>2. CASE ~Resolves(call.collection)
    BY <1>0, <1>6, <2>2 DEF EndDelete, IsCall, Typed
  <2> QED
    BY <2>1, <2>2
<1>7. CASE UNCHANGED vars
  BY <1>0, <1>7 DEF vars, Typed
<1> QED
  BY <1>1, <1>2, <1>3, <1>4, <1>5, <1>6, <1>7, CallsAre

(* Every call keeps both maps, and a running deletion, of their types      *)
(* (Graph.scala:87-125, Fact.scala:58-97).                                 *)
THEOREM TypeCorrect == Spec => []TypeOK
<1>1. Init => TypeOK
  BY InitTypes
<1>2. TypeOK /\ [Next]_vars => TypeOK'
  BY NextTypes
<1> QED
  BY <1>1, <1>2, PTL DEF Spec

-----------------------------------------------------------------------------
(* How items leave.                                                        *)

Gone(c) == (ToSet(Items(store, c)) \cap ToSet(Items(live, c))) \ ToSet(Items(live', c))

LEMMA ItemsStayElsewhere ==
    ASSUME NEW c \in Collection, live'[c] = live[c]
    PROVE  Gone(c) = {}
BY DEF Gone, Items

LEMMA StepsOfItems ==
    ASSUME TypeOK, [Next]_vars, NEW c \in Collection
    PROVE  \/ Gone(c) = {}
           \/ live'[c] = Unset
           \/ /\ call # Idle
              /\ c = call.collection
              /\ Gone(c) \cap ToSet(call.items) \subseteq {call.item}
<1>0. DOMAIN live = Path /\ c \in Path
  BY TypeIs DEF IsMap, Path
<1>1. ASSUME NEW p \in Path, NEW v, Sets(p, v) PROVE Gone(c) = {}
  <2>1. live' = [live EXCEPT ![p] = v]
    BY <1>1 DEF Sets, SetPath
  <2>2. CASE p = c
    <3>1. v # Unset /\ ToSet(Items(Served, c)) \subseteq ToSet(v)
      BY <1>1, <2>2, FitsIsSet DEF Sets
    <3>2. Items(live', c) = v
      BY <1>0, <2>1, <2>2, <3>1 DEF Items
    <3> QED
      BY <3>1, <3>2, ServedIs DEF Gone
  <2>3. CASE p # c
    BY <1>0, <2>1, <2>3, ItemsStayElsewhere
  <2> QED
    BY <2>2, <2>3
<1>2. CASE SetsNothing
  BY <1>2, ItemsStayElsewhere DEF SetsNothing
<1>3. ASSUME NEW p \in Path, DeleteFact(p) \/ DeleteBelow(p)
      PROVE  Gone(c) = {} \/ live'[c] = Unset
  <2>1. live' = [live EXCEPT ![p] = Unset] \/ live' = live
    BY <1>3 DEF DeleteFact, DeleteBelow, DeletePath
  <2>2. live'[c] = Unset \/ live'[c] = live[c]
    BY <1>0, <2>1
  <2> QED
    BY <2>2, ItemsStayElsewhere
<1>4. ASSUME NEW d, NEW i, BeginDelete(d, i) PROVE Gone(c) = {}
  BY <1>4, ItemsStayElsewhere DEF BeginDelete
<1>5. ASSUME EndDelete
      PROVE  \/ Gone(c) = {}
             \/ /\ call # Idle
                /\ c = call.collection
                /\ Gone(c) \cap ToSet(call.items) \subseteq {call.item}
  <2>1. CASE ~Resolves(call.collection)
    BY <1>5, <2>1, ItemsStayElsewhere DEF EndDelete
  <2>2. CASE Resolves(call.collection) /\ c # call.collection
    <3>1. live'[c] = live[c]
      BY <1>0, <1>5, <2>2 DEF EndDelete, SetPath
    <3> QED
      BY <3>1, ItemsStayElsewhere
  <2>3. CASE Resolves(call.collection) /\ c = call.collection
    <3> DEFINE left == Without(call.items, call.item)
    <3>1. call # Idle /\ call.items \in Ids(c)
      BY <1>5, <2>3, TypeIs DEF EndDelete, IsCall
    <3>2. left \in Ids(c) /\ ToSet(left) = ToSet(call.items) \ {call.item}
      BY <3>1, WithoutFits
    <3>3. left # Unset
      BY <3>2, CollectionsAssumption DEF Ids
    <3>4. live'[c] = left
      BY <1>0, <1>5, <2>3 DEF EndDelete, SetPath
    <3>5. ToSet(Items(live', c)) = ToSet(call.items) \ {call.item}
      BY <3>2, <3>3, <3>4 DEF Items
    <3> QED
      BY <2>3, <3>1, <3>5 DEF Gone
  <2> QED
    BY <2>1, <2>2, <2>3
<1>6. CASE UNCHANGED vars
  BY <1>6, ItemsStayElsewhere DEF vars
<1> QED
  BY <1>1, <1>2, <1>3, <1>4, <1>5, <1>6, CallsAre

(* No sequence of set(), addToCollection, removeFromCollection and         *)
(* deletions of other things takes a committed item out of a collection    *)
(* (Fact.scala:58-68, 90-96).                                              *)
THEOREM ItemsLeaveByDeletion == Spec => ItemsLeaveByDelete
<1>1. TypeOK /\ [Next]_vars =>
        [\A c \in Collection :
            LET gone == (ToSet(Items(store, c)) \cap ToSet(Items(live, c)))
                            \ ToSet(Items(live', c))
            IN  \/ gone = {}
                \/ live'[c] = Unset
                \/ /\ call # Idle
                   /\ c = call.collection
                   /\ gone \cap ToSet(call.items) \subseteq {call.item}]_vars
  BY StepsOfItems DEF Gone
<1> QED
  BY <1>1, TypeCorrect, PTL DEF Spec, ItemsLeaveByDelete

-----------------------------------------------------------------------------
(* The paths below an item.                                                *)

LEMMA PathIs ==
    ASSUME NEW p \in Path
    PROVE  /\ p \in Seq(Key \cup Item) /\ Len(p) \in Nat /\ Len(p) > 0
           /\ p[Len(p)] \notin Item
           /\ \A k \in 2 .. Len(p) : p[k] \in Item => SubSeq(p, 1, k - 1) \in Collection
<1>1. p \in Seq(Key \cup Item) /\ p # <<>>
  BY CollectionsAssumption DEF Path
<1>2. Len(p) \in Nat /\ Len(p) > 0
  BY <1>1
<1> QED
  BY <1>1, <1>2, CollectionsAssumption DEF Path

(* The path of an item, and of what comes before it.                       *)
LEMMA ItemPathIs ==
    ASSUME NEW c \in Collection, NEW i \in ItemsOf[c]
    PROVE  /\ Append(c, i) \in Seq(Key \cup Item)
           /\ Len(Append(c, i)) = Len(c) + 1
           /\ Len(c) \in Nat /\ Len(c) > 0
           /\ \A k \in 2 .. Len(c) + 1 : Append(c, i)[k] \in Item =>
                SubSeq(Append(c, i), 1, k - 1) \in Collection
<1> DEFINE ci == Append(c, i)
<1>1. i \in Item /\ c \in Path
  BY CollectionsAssumption DEF Path
<1>2. c \in Seq(Key \cup Item) /\ Len(c) \in Nat /\ Len(c) > 0
  BY <1>1, PathIs
<1>3. ci \in Seq(Key \cup Item) /\ Len(ci) = Len(c) + 1
  BY <1>1, <1>2
<1>4. \A k \in 1 .. Len(c) : ci[k] = c[k] /\ SubSeq(ci, 1, k) = SubSeq(c, 1, k)
  BY <1>1, <1>2
<1>5. SubSeq(ci, 1, Len(c)) = c
  BY <1>1, <1>2
<1>6. ASSUME NEW k \in 2 .. Len(c) + 1, ci[k] \in Item PROVE SubSeq(ci, 1, k - 1) \in Collection
  <2>1. CASE k = Len(c) + 1
    <3>1. k - 1 = Len(c)
      BY <1>2, <2>1
    <3> HIDE DEF ci
    <3> QED
      BY <1>5, <3>1
  <2>2. CASE k # Len(c) + 1
    <3>1. k \in 2 .. Len(c) /\ k \in 1 .. Len(c) /\ k - 1 \in 1 .. Len(c)
      BY <1>2, <2>2
    <3>2. ci[k] = c[k] /\ SubSeq(ci, 1, k - 1) = SubSeq(c, 1, k - 1)
      BY <1>4, <3>1
    <3>3. SubSeq(c, 1, k - 1) \in Collection
      BY <1>1, <1>6, <3>1, <3>2, PathIs
    <3> QED
      BY <3>2, <3>3
  <2> QED
    BY <2>1, <2>2
<1> QED
  BY <1>2, <1>3, <1>6

LEMMA BelowIs ==
    ASSUME NEW c \in Collection, NEW i \in ItemsOf[c], NEW p \in Path, Below(p, c, i)
    PROVE  /\ Len(p) > Len(c) + 1
           /\ \A k \in 1 .. Len(c) + 1 :
                p[k] = Append(c, i)[k] /\ SubSeq(p, 1, k) = SubSeq(Append(c, i), 1, k)
<1> DEFINE ci == Append(c, i)
           n  == Len(c) + 1
<1>1. ci \in Seq(Key \cup Item) /\ Len(ci) = n /\ n \in Nat
  BY ItemPathIs
<1>2. p \in Seq(Key \cup Item) /\ Len(p) \in Nat
  BY PathIs
<1>3. n <= Len(p) /\ SubSeq(ci, 1, n) = SubSeq(p, 1, n) /\ ci # p
  BY <1>1 DEF Below, IsStrictPrefix, IsPrefix
<1> HIDE DEF ci, n
<1>4. \A k \in 1 .. n : p[k] = ci[k]
  <2>1. \A k \in 1 .. n : SubSeq(ci, 1, n)[k] = ci[k] /\ SubSeq(p, 1, n)[k] = p[k]
    BY <1>1, <1>2, <1>3
  <2> QED
    BY <1>3, <2>1
<1>5. \A k \in 1 .. n : SubSeq(p, 1, k) = SubSeq(ci, 1, k)
  BY <1>1, <1>2, <1>3, <1>4
<1>6. Len(p) # n
  <2> SUFFICES ASSUME Len(p) = n PROVE FALSE
    OBVIOUS
  <2>1. p = ci
    BY <1>1, <1>2, <1>4
  <2> QED
    BY <1>3, <2>1
<1> QED
  BY <1>1, <1>2, <1>3, <1>4, <1>5, <1>6 DEF ci, n

(* Whether an item resolves does not depend on what is below it.           *)
LEMMA UnsetBelow ==
    ASSUME NEW c \in Collection, NEW i \in ItemsOf[c], NEW p \in Path, Below(p, c, i),
           NEW st, DOMAIN st = Path
    PROVE  ResolvesIn(Append(c, i), [st EXCEPT ![p] = Unset]) <=> ResolvesIn(Append(c, i), st)
<1> DEFINE ci == Append(c, i)
           un == [st EXCEPT ![p] = Unset]
<1>1. ASSUME NEW k \in 2 .. Len(c) + 1, ci[k] \in Item
      PROVE  Items(un, SubSeq(ci, 1, k - 1)) = Items(st, SubSeq(ci, 1, k - 1))
  <2> DEFINE d == SubSeq(ci, 1, k - 1)
  <2>1. d \in Path
    BY <1>1, ItemPathIs DEF Path
  <2>2. Len(d) = k - 1
    BY ItemPathIs
  <2>3. Len(p) > Len(c) + 1 /\ Len(c) \in Nat
    BY BelowIs, ItemPathIs
  <2> HIDE DEF d
  <2>4. d # p
    BY <2>2, <2>3
  <2> QED
    BY <2>1, <2>4 DEF Items, d
<1>2. Len(ci) = Len(c) + 1
  BY ItemPathIs
<1> HIDE DEF ci, un
<1>3. ResolvesIn(ci, un) <=> ResolvesIn(ci, st)
  BY <1>1, <1>2 DEF ResolvesIn
<1> QED
  BY <1>3 DEF ci, un

(* An item's own fact resolves when the item does.                         *)
LEMMA OwnFactResolves ==
    ASSUME NEW c \in Collection, NEW i \in ItemsOf[c], NEW p \in Path, OwnFact(p, c, i),
           NEW st, ResolvesIn(Append(c, i), st)
    PROVE  ResolvesIn(p, st)
<1> DEFINE ci == Append(c, i)
<1>1. Len(p) = Len(c) + 2 /\ Len(c) \in Nat /\ Len(c) > 0 /\ Len(ci) = Len(c) + 1
  BY ItemPathIs DEF OwnFact
<1>2. p[Len(p)] \notin Item
  BY PathIs
<1>3. \A k \in 1 .. Len(c) + 1 : p[k] = ci[k] /\ SubSeq(p, 1, k) = SubSeq(ci, 1, k)
  BY BelowIs DEF OwnFact
<1>4. \A k \in 2 .. Len(ci) : ci[k] \in Item => ci[k] \in ToSet(Items(st, SubSeq(ci, 1, k - 1)))
  BY DEF ResolvesIn
<1> HIDE DEF ci
<1>5. ASSUME NEW k \in 2 .. Len(p), p[k] \in Item
      PROVE  p[k] \in ToSet(Items(st, SubSeq(p, 1, k - 1)))
  <2>1. k # Len(p)
    BY <1>2, <1>5
  <2>2. k \in 2 .. Len(ci) /\ k \in 1 .. Len(c) + 1 /\ k - 1 \in 1 .. Len(c) + 1
    BY <1>1, <2>1
  <2> QED
    BY <1>3, <1>4, <1>5, <2>2
<1> QED
  BY <1>5 DEF ResolvesIn

-----------------------------------------------------------------------------
(* The deletion of an item.                                                *)

LEMMA InitInvariant == Init => CollectionsInvariant
BY DEF Init, CollectionsInvariant, CommittedIsEdited, OwnFactsHaveATurn, OnlyFactsBelowHaveATurn

(* Nothing that was not set is committed, unless a limit has thrown.       *)
Settled == ~threw => queue = {} /\ CommittedIsEdited

LEMMA SaveSettles ==
    ASSUME TypeOK, Settled, NEW q, Save(q),
           ~threw => q = {} \/ \A p \in Path : live'[p] = Unset => live[p] = Unset
    PROVE  Settled'
<1>1. /\ store' \in {store, live'}
      /\ ~threw' => queue' = {} /\ (threw => store' = live')
      /\ q = {} => store' = live'
  BY SaveIs, TypeIs
<1>2. CASE store' = live'
  BY <1>1, <1>2 DEF Settled, CommittedIsEdited
<1>3. CASE store' = store /\ store' # live' /\ ~threw
  BY <1>1, <1>3 DEF Settled, CommittedIsEdited
<1> QED
  BY <1>1, <1>2, <1>3 DEF Settled

LEMMA SetPathSettles ==
    ASSUME TypeOK, Settled, NEW p \in Path, NEW v, Fits(p, v), SetPath(p, v)
    PROVE  Settled'
<1>1. live' = [live EXCEPT ![p] = v] /\ v # Unset /\ Save(queue \cup {p})
  BY FitsIsSet DEF SetPath
<1>2. \A q \in Path : live'[q] = Unset => live[q] = Unset
  BY <1>1, TypeIs DEF IsMap
<1> QED
  BY <1>1, <1>2, SaveSettles

LEMMA DeletePathSettles ==
    ASSUME TypeOK, Settled, NEW p \in Path, DeletePath(p)
    PROVE  Settled'
<1>1. Save(queue \ {p}) /\ (~threw => queue \ {p} = {})
  BY DEF DeletePath, Settled
<1> QED
  BY <1>1, SaveSettles

LEMMA EndDeleteSets ==
    ASSUME TypeOK, EndDelete, Resolves(call.collection)
    PROVE  /\ call.collection \in Path
           /\ Fits(call.collection, Without(call.items, call.item))
           /\ SetPath(call.collection, Without(call.items, call.item))
<1> DEFINE c == call.collection
<1>1. c \in Collection /\ call.items \in Ids(c) /\ c \in Path /\ c \notin Field
  BY TypeIs, CollectionsAssumption DEF EndDelete, IsCall, Path
<1>2. Fits(c, Without(call.items, call.item))
  BY <1>1, WithoutFits DEF Fits
<1> QED
  BY <1>1, <1>2 DEF EndDelete

LEMMA NextSettles == TypeOK /\ Settled /\ [Next]_vars => Settled'
<1> SUFFICES ASSUME TypeOK, Settled, [Next]_vars PROVE Settled'
  OBVIOUS
<1>1. ASSUME NEW p \in Path, NEW v, Sets(p, v) PROVE Settled'
  BY <1>1, SetPathSettles DEF Sets
<1>2. CASE SetsNothing
  <2>1. CASE Save(queue)
    BY <1>2, <2>1, SaveSettles DEF SetsNothing, Settled
  <2>2. CASE UNCHANGED <<store, queue, threw>>
    BY <1>2, <2>2 DEF SetsNothing, Settled, CommittedIsEdited
  <2> QED
    BY <1>2, <2>1, <2>2 DEF SetsNothing
<1>3. ASSUME NEW p \in Path, DeleteFact(p) \/ DeleteBelow(p) PROVE Settled'
  <2>1. DeletePath(p) \/ (UNCHANGED live /\ Save(queue))
    BY <1>3 DEF DeleteFact, DeleteBelow
  <2> QED
    BY <2>1, DeletePathSettles, SaveSettles DEF Settled
<1>4. ASSUME NEW c, NEW i, BeginDelete(c, i) PROVE Settled'
  BY <1>4 DEF BeginDelete, Settled, CommittedIsEdited
<1>5. CASE EndDelete
  <2>1. CASE Resolves(call.collection)
    BY <1>5, <2>1, EndDeleteSets, SetPathSettles
  <2>2. CASE ~Resolves(call.collection)
    BY <1>5, <2>2 DEF EndDelete, Settled, CommittedIsEdited
  <2> QED
    BY <2>1, <2>2
<1>6. CASE UNCHANGED vars
  BY <1>6 DEF vars, Settled, CommittedIsEdited
<1> QED
  BY <1>1, <1>2, <1>3, <1>4, <1>5, <1>6, CallsAre

LEMMA BeginGivesATurn ==
    ASSUME NEW c \in Collection, NEW i \in ItemsOf[c], BeginDelete(c, i)
    PROVE  OwnFactsHaveATurn'
<1>1. /\ Resolves(Append(c, i))
      /\ call'.collection = c /\ call'.item = i
      /\ call'.todo = {p \in Path : live[p] # Unset /\ Below(p, c, i)}
      /\ live' = live /\ store' = store /\ queue' = queue
  BY DEF BeginDelete
<1> QED
  BY <1>1 DEF OwnFactsHaveATurn, OwnFact, Resolves, Served

(* Nothing is queued as long as no limit has thrown, so that the save() of *)
(* each deletion commits it.                                               *)
LEMMA DeleteBelowCommits ==
    ASSUME TypeOK, Settled, NEW p \in Path, DeleteBelow(p), ~threw'
    PROVE  ~threw /\ queue = {} /\ queue' = {} /\ store' = live'
<1>1. Deleting
  BY DEF DeleteBelow, Deleting
<1>2. PICK q \in {queue, queue \ {p}} : Save(q)
  BY DEF DeleteBelow, DeletePath
<1>3. ~threw /\ queue' = {}
  BY <1>1, <1>2, SaveIs, TypeIs
<1>4. queue = {} /\ q = {}
  BY <1>2, <1>3 DEF Settled
<1> QED
  BY <1>2, <1>3, <1>4, SaveIs, TypeIs

LEMMA DeleteBelowTakesATurn ==
    ASSUME TypeOK, Settled, OwnFactsHaveATurn, NEW p \in Path, DeleteBelow(p), ~threw',
           Below(p, call.collection, call.item)
    PROVE  OwnFactsHaveATurn'
<1> DEFINE c == call.collection
           i == call.item
<1>1. /\ c \in Collection /\ i \in ItemsOf[c] /\ DOMAIN live = Path
      /\ queue = {} /\ queue' = {} /\ store' = live'
      /\ call' = [call EXCEPT !.todo = @ \ {p}]
      /\ live' = (IF Resolves(p) THEN [live EXCEPT ![p] = Unset] ELSE live)
  BY TypeIs, DeleteBelowCommits DEF DeleteBelow, DeletePath, IsCall, IsMap
<1>6. call'.collection = c /\ call'.item = i /\ call'.todo = call.todo \ {p}
  BY <1>1, TypeIs DEF IsCall, DeleteBelow
<1>7. Served = store /\ Served' = store'
  BY <1>1 DEF Served
<1> SUFFICES ASSUME ResolvesIn(Append(c, i), live')
             PROVE  /\ ResolvesIn(Append(c, i), store')
                    /\ \A q \in Path : OwnFact(q, c, i) => live'[q] = Unset \/ q \in call.todo \ {p}
  BY <1>6, <1>7 DEF OwnFactsHaveATurn, Resolves
<1>2. ResolvesIn(Append(c, i), live)
  BY <1>1, UnsetBelow
<1>3. Resolves(Append(c, i)) /\ \A q \in Path : OwnFact(q, c, i) => live[q] = Unset \/ q \in call.todo
  BY <1>2 DEF OwnFactsHaveATurn, DeleteBelow
<1>4. ASSUME NEW q \in Path, OwnFact(q, c, i) PROVE live'[q] = Unset \/ q \in call.todo \ {p}
  <2>1. CASE q = p
    <3>1. Resolves(p)
      BY <1>1, <1>3, <1>4, <2>1, OwnFactResolves DEF Resolves
    <3> QED
      BY <1>1, <2>1, <3>1
  <2>2. CASE q # p
    BY <1>1, <1>3, <1>4, <2>2
  <2> QED
    BY <2>1, <2>2
<1> QED
  BY <1>1, <1>4

LEMMA NextInvariant == TypeOK /\ CollectionsInvariant /\ [Next]_vars => CollectionsInvariant'
<1> SUFFICES ASSUME TypeOK, CollectionsInvariant, [Next]_vars PROVE CollectionsInvariant'
  OBVIOUS
<1>0. Settled /\ OnlyFactsBelowHaveATurn /\ (~threw => OwnFactsHaveATurn)
  BY DEF CollectionsInvariant, Settled
<1>1. Settled'
  BY <1>0, NextSettles
<1>2. CASE call' = Idle
  BY <1>1, <1>2 DEF CollectionsInvariant, OwnFactsHaveATurn, OnlyFactsBelowHaveATurn, Settled
<1>3. CASE call' # Idle
  <2>1. ASSUME NEW p \in Path, NEW v, Sets(p, v) PROVE FALSE
    BY <1>3, <2>1 DEF Sets
  <2>2. ~SetsNothing
    BY <1>3 DEF SetsNothing
  <2>3. ASSUME NEW p \in Path, DeleteFact(p) PROVE FALSE
    BY <1>3, <2>3 DEF DeleteFact
  <2>4. ~EndDelete
    BY <1>3 DEF EndDelete
  <2> DEFINE Turns == (~threw => OwnFactsHaveATurn) /\ OnlyFactsBelowHaveATurn
  <2>5. ASSUME NEW p \in Path, DeleteBelow(p) PROVE Turns'
    <3>1. Below(p, call.collection, call.item)
      BY <1>0, <2>5 DEF DeleteBelow, OnlyFactsBelowHaveATurn
    <3>2. ~threw' => OwnFactsHaveATurn'
      BY <1>0, <2>5, <3>1, DeleteBelowTakesATurn, DeleteBelowCommits
    <3>3. call'.todo \subseteq call.todo /\ call'.item = call.item /\ call'.collection = call.collection
      BY <1>3, <2>5, TypeIs DEF DeleteBelow, IsCall
    <3>4. OnlyFactsBelowHaveATurn'
      BY <1>0, <2>5, <3>3 DEF DeleteBelow, OnlyFactsBelowHaveATurn
    <3> QED
      BY <3>2, <3>4
  <2>6. ASSUME NEW c \in Collection, NEW i \in ItemsOf[c], BeginDelete(c, i)
        PROVE  Turns'
    <3>1. OwnFactsHaveATurn'
      BY <2>6, BeginGivesATurn
    <3>2. OnlyFactsBelowHaveATurn'
      BY <2>6 DEF BeginDelete, OnlyFactsBelowHaveATurn
    <3> QED
      BY <3>1, <3>2
  <2>7. ASSUME UNCHANGED vars PROVE Turns'
    <3>1. live' = live /\ store' = store /\ call' = call /\ queue' = queue /\ threw' = threw
      BY <2>7 DEF vars
    <3>2. ~threw' => OwnFactsHaveATurn'
      BY <1>0, <3>1 DEF OwnFactsHaveATurn, Resolves, Served
    <3>3. OnlyFactsBelowHaveATurn'
      BY <1>0, <3>1 DEF OnlyFactsBelowHaveATurn
    <3> QED
      BY <3>2, <3>3
  <2>8. Turns'
    <3>1. ASSUME Next PROVE Turns'
      BY <2>1, <2>2, <2>3, <2>4, <2>5, <2>6, <3>1, CallsAre
    <3> QED
      BY <2>7, <3>1
  <2> QED
    BY <1>1, <2>8 DEF CollectionsInvariant, Settled
<1> QED
  BY <1>2, <1>3

(* However the saves of a deletion interleave with what limits refuse, the *)
(* item's own facts have gone or have their turn to come, and the item     *)
(* resolves until then, unless a limit has thrown since all was committed  *)
(* (Fact.scala:75-97, InMemoryPersister.scala:176-187).                    *)
THEOREM CollectionsInvariantHolds == Spec => []CollectionsInvariant
<1>1. Init => CollectionsInvariant
  BY InitInvariant
<1>2. TypeOK /\ CollectionsInvariant /\ [Next]_vars => CollectionsInvariant'
  BY NextInvariant
<1> QED
  BY <1>1, <1>2, TypeCorrect, PTL DEF Spec

LEMMA LastStepOfDeletion ==
    ASSUME TypeOK, CollectionsInvariant, [Next]_vars, call # Idle, call' = Idle, ~threw,
           ResolvesIn(Append(call.collection, call.item), live),
           NEW p \in Path, OwnFact(p, call.collection, call.item)
    PROVE  live'[p] = Unset /\ store'[p] = Unset
<1>0. queue = {} /\ CommittedIsEdited /\ OwnFactsHaveATurn
  BY DEF CollectionsInvariant
<1>1. EndDelete
  <2>1. ASSUME NEW q \in Path, DeleteBelow(q) PROVE FALSE
    <3>1. PICK r \in {queue, queue \ {q}} : Save(r)
      BY <2>1 DEF DeleteBelow, DeletePath
    <3>2. queue' = {}
      BY <1>0, <3>1, SaveIs, TypeIs
    <3>3. DOMAIN call' = {"item", "collection", "items", "todo"}
      BY <2>1, <3>2, TypeIs DEF DeleteBelow, IsCall
    <3>4. "todo" \notin DOMAIN Idle
      BY DEF Idle
    <3> QED
      BY <3>3, <3>4
  <2> QED
    BY <2>1, CallsAre DEF Sets, SetsNothing, DeleteFact, BeginDelete, vars
<1> DEFINE c == call.collection
           i == call.item
<1>2. /\ c \in Collection /\ i \in ItemsOf[c] /\ DOMAIN live = Path
      /\ call.todo = {} /\ Len(c) \in Nat
      /\ live[p] = Unset /\ store[p] = Unset
  BY <1>0, <1>1, TypeIs, ItemPathIs
     DEF EndDelete, IsCall, IsMap, OwnFactsHaveATurn, CommittedIsEdited
<1>3. p # c
  BY <1>2 DEF OwnFact
<1>4. CASE Resolves(c)
  <2>1. live' = [live EXCEPT ![c] = Without(call.items, i)] /\ store' \in {store, live'}
    BY <1>1, <1>4, SaveIs, TypeIs DEF EndDelete, SetPath
  <2>2. live'[p] = Unset
    BY <1>2, <1>3, <2>1
  <2> QED
    BY <1>2, <2>1, <2>2
<1>5. CASE ~Resolves(c)
  BY <1>1, <1>2, <1>5 DEF EndDelete
<1> QED
  BY <1>4, <1>5

(* A deleted item leaves none of its own facts, not even one that limits   *)
(* refused, in either map, provided all has been committed since a limit   *)
(* last threw (Fact.scala:75-97, InMemoryPersister.scala:46-60).           *)
THEOREM ItemsTakeTheirFacts == Spec => OwnFactsGo
<1>1. TypeOK /\ CollectionsInvariant /\ [Next]_vars =>
        [call # Idle /\ call' = Idle /\ ~threw
                /\ ResolvesIn(Append(call.collection, call.item), live) =>
            \A p \in Path : OwnFact(p, call.collection, call.item) =>
                live'[p] = Unset /\ store'[p] = Unset]_vars
  BY LastStepOfDeletion
<1> QED
  BY <1>1, TypeCorrect, CollectionsInvariantHolds, PTL DEF Spec, OwnFactsGo
=============================================================================

------------------------------ MODULE SyncProofs ------------------------------
(***************************************************************************)
(* However often facts are stored, loaded and checked, under however many  *)
(* releases: each migration runs on them exactly once, every file can be   *)
(* loaded, and a check takes away the facts that do not fit, reports them, *)
(* and leaves the others.                                                  *)
(***************************************************************************)
EXTENDS Sync, SequenceTheorems, TLAPS

(* The number in the file is that of the migrations that ran on its facts, *)
(* and no release that is deployed later has fewer.                        *)
FileIsCounted ==
    /\ file.count \in Nat
    /\ file.ran = Upto(file.count)
    /\ file.count <= Total[release]

MigrationInvariant ==
    /\ release \in Release
    /\ rolledBack \in BOOLEAN
    /\ ~rolledBack => FileIsCounted
    /\ ~rolledBack /\ phase # "closed" => migrations = Upto(Total[release])

LEMMA TotalIsNatural ==
    ASSUME NEW r \in Release
    PROVE  Total[r] \in Nat
  BY ReleasesAssumption

(* The migrations a file had and those it misses make all of them.         *)
LEMMA MissingCompletes ==
    ASSUME NEW r \in Release, NEW count \in Nat, count <= Total[r]
    PROVE  Upto(count) \o Missing(count, r) = Upto(Total[r])
<1> DEFINE t == Total[r]
<1>1. t \in Nat
  BY TotalIsNatural
<1> HIDE DEF t
<1> SUFFICES Upto(count) \o SubSeq(Upto(t), count + 1, t) = Upto(t)
  BY DEF Missing, t
<1>2. count <= t
  BY DEF t
<1>3. Upto(count) \in Seq(Nat) /\ Len(Upto(count)) = count
  BY DEF Upto
<1>4. Upto(t) \in Seq(Nat) /\ Len(Upto(t)) = t
  BY <1>1 DEF Upto
<1>5. /\ SubSeq(Upto(t), count + 1, t) \in Seq(Nat)
      /\ Len(SubSeq(Upto(t), count + 1, t)) = t - count
      /\ \A i \in 1 .. t - count : SubSeq(Upto(t), count + 1, t)[i] = count + i
  BY <1>1, <1>2, <1>4 DEF Upto
<1> DEFINE first   == Upto(count)
           missing == SubSeq(Upto(t), count + 1, t)
           whole   == first \o missing
<1> HIDE DEF first, missing
<1>6. first \in Seq(Nat) /\ Len(first) = count /\ \A i \in 1 .. count : first[i] = i
  BY <1>3 DEF first, Upto
<1>7. /\ missing \in Seq(Nat) /\ Len(missing) = t - count
      /\ \A i \in 1 .. t - count : missing[i] = count + i
  BY <1>5 DEF missing
<1>8. whole \in Seq(Nat) /\ Len(whole) = t
  <2>1. whole \in Seq(Nat) /\ Len(whole) = Len(first) + Len(missing)
    BY <1>6, <1>7, ConcatProperties
  <2> QED
    BY <2>1, <1>1, <1>6, <1>7
<1>9. ASSUME NEW i \in 1 .. t PROVE whole[i] = i
  <2>1. CASE i <= count
    <3>1. whole[i] = first[i] /\ i \in 1 .. count
      BY <2>1, <1>1, <1>6, <1>7, ConcatProperties
    <3> QED
      BY <3>1, <1>6
  <2>2. CASE i > count
    <3>1. whole[i] = missing[i - count] /\ i - count \in 1 .. t - count
      BY <2>2, <1>1, <1>2, <1>6, <1>7, ConcatProperties
    <3> QED
      BY <3>1, <1>7, <1>1, <1>2
  <2>3. i <= count \/ i > count
    BY <1>1
  <2> QED
    BY <2>1, <2>2, <2>3
<1> HIDE DEF whole
<1>10. whole = [i \in 1 .. t |-> i]
  BY <1>8, <1>9
<1> QED
  BY <1>10 DEF whole, first, missing, Upto

LEMMA InitMigrationInvariant == Init => MigrationInvariant
<1> SUFFICES ASSUME Init PROVE MigrationInvariant
  OBVIOUS
<1>1. release \in Release /\ Total[release] \in Nat
  BY ReleasesAssumption DEF Init, Release
<1>2. Upto(0) = <<>>
  BY DEF Upto
<1>3. FileIsCounted
  <2>1. file.count = 0 /\ file.ran = <<>>
    BY DEF Init, NoFile
  <2> QED
    BY <2>1, <1>1, <1>2 DEF FileIsCounted
<1> QED
  BY <1>1, <1>3 DEF Init, MigrationInvariant

(* Steps that leave the file and the release alone, on an open graph.      *)
LEMMA GraphStepKeepsInvariant ==
    ASSUME MigrationInvariant, UNCHANGED <<file, release, rolledBack>>,
           migrations' = migrations, phase # "closed" \/ phase' = phase
    PROVE  MigrationInvariant'
  BY DEF MigrationInvariant, FileIsCounted

LEMMA StepMigrationInvariant == MigrationInvariant /\ [Next]_vars => MigrationInvariant'
<1> SUFFICES ASSUME MigrationInvariant, [Next]_vars PROVE MigrationInvariant'
  OBVIOUS
<1>1. ASSUME NEW r \in Release, Deploy(r) PROVE MigrationInvariant'
  <2>1. Total[r] \in Nat /\ Total[release] \in Nat
    BY TotalIsNatural DEF MigrationInvariant
  <2>2. /\ release' = r /\ phase' = "closed" /\ file' = file
        /\ rolledBack' \in BOOLEAN
        /\ ~rolledBack' => ~rolledBack /\ ~(Total[r] < Total[release])
    BY <1>1 DEF Deploy
  <2>3. ~rolledBack' => FileIsCounted'
    BY <2>1, <2>2 DEF MigrationInvariant, FileIsCounted
  <2> QED
    BY <2>2, <2>3 DEF MigrationInvariant
<1>2. ASSUME NewGraph PROVE MigrationInvariant'
  BY <1>2 DEF NewGraph, Opened, MigrationInvariant, FileIsCounted
<1>3. ASSUME Load PROVE MigrationInvariant'
  <2>1. UNCHANGED <<release, file, rolledBack>>
    BY <1>3 DEF Load
  <2>2. ~rolledBack => migrations' = file.ran \o Missing(file.count, release)
    BY <1>3 DEF Load, Opened
  <2>3. ~rolledBack => migrations' = Upto(Total[release])
    BY <2>2, MissingCompletes DEF MigrationInvariant, FileIsCounted
  <2> QED
    BY <2>1, <2>3 DEF MigrationInvariant, FileIsCounted
<1>4. ASSUME SaveFile PROVE MigrationInvariant'
  <2>1. Total[release] \in Nat /\ Total[release] <= Total[release]
    BY TotalIsNatural DEF MigrationInvariant
  <2> QED
    BY <1>4, <2>1 DEF SaveFile, Count, graph, MigrationInvariant, FileIsCounted
<1>5. ASSUME NEW p \in Path, NEW v \in Value, Set(p, v) PROVE MigrationInvariant'
  BY <1>5, GraphStepKeepsInvariant DEF Set, Opened
<1>6. ASSUME NEW p \in Path, Delete(p) PROVE MigrationInvariant'
  BY <1>6, GraphStepKeepsInvariant DEF Delete, Opened
<1>7. ASSUME NEW p \in Path, Check(p) \/ CheckThrows(p) PROVE MigrationInvariant'
  BY <1>7, GraphStepKeepsInvariant DEF Check, CheckThrows
<1>8. ASSUME BeginCheck \/ EndCheck PROVE MigrationInvariant'
  BY <1>8, GraphStepKeepsInvariant DEF BeginCheck, EndCheck
<1>10. ASSUME NEW p \in Shown, Get(p) PROVE MigrationInvariant'
  BY <1>10, GraphStepKeepsInvariant DEF Get
<1>9. ASSUME UNCHANGED vars PROVE MigrationInvariant'
  BY <1>9, GraphStepKeepsInvariant DEF vars, graph
<1> QED
  BY <1>1, <1>2, <1>3, <1>4, <1>5, <1>6, <1>7, <1>8, <1>9, <1>10 DEF Next

(* "Skip already-applied migrations" (docs/migrations.md:110-112), for any *)
(* number of releases and migrations, any facts and any crashes: unless a  *)
(* release was taken back, each migration runs exactly once, in order.     *)
THEOREM MigrationsRunOnce == Spec => []EachMigrationOnce
<1>1. MigrationInvariant => EachMigrationOnce
  BY DEF MigrationInvariant, EachMigrationOnce
<1> QED
  BY <1>1, InitMigrationInvariant, StepMigrationInvariant, PTL DEF Spec

-----------------------------------------------------------------------------
(* Types of what files, migrations and edits make.                         *)

LEMMA NoFactsType == NoFacts \in Facts
  BY DEF NoFacts, Facts

LEMMA EditType ==
    ASSUME NEW st \in Facts, NEW p \in Path, NEW v \in Value \cup {Unset}
    PROVE  [st EXCEPT ![p] = v] \in Facts
  BY DEF Facts

LEMMA MigratedType ==
    ASSUME NEW facts \in Facts, NEW full, NEW ran
    PROVE  Migrated(facts, full, ran) \in Facts
  BY DEF Migrated, Facts

LEMMA MissingType ==
    ASSUME NEW r \in Release, NEW count \in Nat
    PROVE  /\ Missing(count, r) \in Seq(Nat)
           /\ Len(Missing(count, r)) = IF count < Total[r] THEN Total[r] - count ELSE 0
           /\ \A i \in 1 .. Total[r] - count : Missing(count, r)[i] = count + i
<1> DEFINE t == Total[r]
<1>1. t \in Nat
  BY TotalIsNatural
<1>2. \A i \in count + 1 .. t : Upto(t)[i] = i /\ i \in Nat
  BY <1>1 DEF Upto
<1>3. /\ SubSeq(Upto(t), count + 1, t) \in Seq(Nat)
      /\ Len(SubSeq(Upto(t), count + 1, t)) =
            IF count + 1 <= t THEN t - (count + 1) + 1 ELSE 0
      /\ \A i \in 1 .. t - (count + 1) + 1 :
            SubSeq(Upto(t), count + 1, t)[i] = Upto(t)[count + 1 + i - 1]
  <2>1. \A i \in count + 1 .. t : Upto(t)[i] \in Nat
    BY <1>2
  <2>2. count + 1 \in Int /\ t \in Int
    BY <1>1
  <2> HIDE DEF t
  <2> QED
    BY <2>1, <2>2, SubSeqProperties
<1>4. ASSUME NEW i \in 1 .. t - count PROVE Missing(count, r)[i] = count + i
  <2>1. /\ i \in 1 .. t - (count + 1) + 1
        /\ count + 1 + i - 1 = count + i
        /\ count + i \in count + 1 .. t
    BY <1>1
  <2> QED
    BY <1>2, <1>3, <2>1 DEF Missing
<1> QED
  BY <1>1, <1>3, <1>4 DEF Missing

(* m2 is among the migrations a file misses, unless it had it.             *)
LEMMA MissingHasM2 ==
    ASSUME NEW r \in Release, NEW count \in Nat, count < 2, Total[r] >= 2
    PROVE  2 \in {Missing(count, r)[i] : i \in DOMAIN Missing(count, r)}
<1>1. Total[r] \in Nat
  BY TotalIsNatural
<1>2. 2 - count \in 1 .. Total[r] - count
  BY <1>1
<1>3. Missing(count, r)[2 - count] = 2
  BY <1>2, MissingType
<1>4. 2 - count \in DOMAIN Missing(count, r)
  <2>1. count < Total[r]
    BY <1>1
  <2>2. Missing(count, r) \in Seq(Nat) /\ Len(Missing(count, r)) = Total[r] - count
    BY <2>1, MissingType
  <2>3. DOMAIN Missing(count, r) = 1 .. Total[r] - count
    BY <2>2, LenProperties
  <2> QED
    BY <1>2, <2>3
<1> QED
  BY <1>3, <1>4

(* Whatever release comes next, what m2 leaves of a file whose invalid     *)
(* addresses it recognises is accepted.                                    *)
LEMMA MigratedFileLoads ==
    ASSUME NEW r \in Release, NEW facts \in Facts, NEW full, NEW count \in Nat,
           \A p \in Path : facts[p] \in Invalid => Recognised(facts[p], full),
           \A p \in Path : facts[p] \in Invalid => count < 2 \/ facts[p] = Unset
    PROVE  Loads(Migrated(facts, full, Missing(count, r)), r)
<1>1. Total[r] \in Nat
  BY TotalIsNatural
<1> SUFFICES ASSUME NEW p \in Path, Total[r] >= 2,
                    Migrated(facts, full, Missing(count, r))[p] # Unset,
                    Migrated(facts, full, Missing(count, r))[p] \in Invalid
             PROVE  FALSE
  BY <1>1 DEF Loads, Accepts
<1>2. facts[p] \in Invalid /\ facts[p] # Unset
  BY DEF Migrated
<1>3. 2 \in {Missing(count, r)[i] : i \in DOMAIN Missing(count, r)}
  BY <1>2, MissingHasM2
<1> QED
  BY <1>2, <1>3 DEF Migrated

-----------------------------------------------------------------------------
(* What is seen through the caches.                                        *)

(* A result that is cached when it is read is seen as it was before.       *)
LEMMA ReadSees ==
    ASSUME TypeOK, NEW p \in Path, cached' = [cached EXCEPT ![p] = Seen[p]], store' = store
    PROVE  Seen' = Seen /\ cached' \in [Path -> Value \cup {Unset, NotRead}]
<1>1. store[p] \in Value \cup {Unset} /\ Seen[p] \in Value \cup {Unset}
  BY DEF TypeOK, Facts, Seen
<1>2. Seen[p] # NotRead
  BY <1>1, ReleasesAssumption
<1>3. cached' \in [Path -> Value \cup {Unset, NotRead}]
  BY <1>1 DEF TypeOK
<1>4. ASSUME NEW q \in Path PROVE Seen'[q] = Seen[q]
  <2>1. CASE q = p
    BY <1>2, <2>1 DEF Seen, TypeOK
  <2>2. CASE q # p
    BY <2>2 DEF Seen, TypeOK
  <2> QED
    BY <2>1, <2>2
<1> QED
  BY <1>3, <1>4 DEF Seen

LEMMA LookedSees ==
    ASSUME TypeOK, NEW p, cached' = Looked(p), store' = store
    PROVE  Seen' = Seen /\ cached' \in [Path -> Value \cup {Unset, NotRead}]
<1>1. CASE p \in Member /\ Type(CollectionOf[p]) = "collection"
  <2>1. CollectionOf[p] \in Path
    BY <1>1, ReleasesAssumption DEF Path
  <2> QED
    BY <1>1, <2>1, ReadSees DEF Looked
<1>2. CASE ~(p \in Member /\ Type(CollectionOf[p]) = "collection")
  BY <1>2 DEF Looked, Seen, TypeOK
<1> QED
  BY <1>1, <1>2

(* Without cached results the committed facts are seen.                    *)
LEMMA ClearedSees ==
    ASSUME NEW st \in Facts, store' = st, ClearCaches
    PROVE  Seen' = st /\ cached' \in [Path -> Value \cup {Unset, NotRead}]
<1>1. \A q \in Path : cached'[q] = NotRead
  BY DEF ClearCaches, NothingRead
<1>2. Seen' = [q \in Path |-> st[q]]
  BY <1>1 DEF Seen
<1> QED
  BY <1>2 DEF Facts, ClearCaches, NothingRead

(* As long as what is seen and what is committed stay, and no facts are    *)
(* set, what is seen stays right.                                          *)
LEMMA SameReads ==
    ASSUME ReadsAreCommitted, Seen' = Seen, store' = store, release' = release,
           phase # "closed", phase' # "open" \/ phase' = phase,
           \A p \in Path : live'[p] \in {live[p], Unset}
    PROVE  ReadsAreCommitted'
  BY DEF ReadsAreCommitted, ItemsAt, Type

-----------------------------------------------------------------------------
(* The graph that Opened makes.                                            *)
LEMMA OpenedKeeps ==
    ASSUME SyncInvariant, NEW st \in Facts, NEW ran \in Seq(Nat), Opened(st, ran), ClearCaches,
           UNCHANGED <<release, file, rolledBack>>, Accepted(release, st)
    PROVE  SyncInvariant'
<1>1. TypeOK'
  <2>1. cached' \in [Path -> Value \cup {Unset, NotRead}]
    BY DEF ClearCaches, NothingRead
  <2> QED
    BY <2>1, NoFactsType DEF SyncInvariant, TypeOK, Opened, Facts
<1>6. OnlyTakenAway' /\ ReadsAreCommitted'
  <2>1. Seen' = st /\ store' = st /\ live' = st
    BY ClearedSees DEF Opened
  <2> QED
    BY <2>1 DEF OnlyTakenAway, ReadsAreCommitted, ItemsAt, Type
<1>2. ItemsStay'
  BY DEF Opened, ItemsStay, ItemsAt, Type
<1>3. Accepted(release, live)' /\ Accepted(release, store)'
  BY DEF Opened, Accepted, Accepts
<1>4. \A p \in Path : file'.facts[p] \in Invalid => file'.count < 2 \/ file'.facts[p] = Unset
  BY DEF SyncInvariant
<1>5. phase' = "open"
  BY DEF Opened
<1> QED
  BY <1>1, <1>2, <1>3, <1>4, <1>5, <1>6 DEF SyncInvariant

LEMMA InitSyncInvariant == Init => SyncInvariant
<1> SUFFICES ASSUME Init PROVE SyncInvariant
  OBVIOUS
<1>1. TypeOK
  <2>1. release \in Release
    BY ReleasesAssumption DEF Init, Release
  <2>2. file.facts \in Facts /\ file.ran = <<>> /\ file.count = 0 /\ file.full = FALSE
    BY NoFactsType DEF Init, NoFile
  <2>3. file.count \in {0} \cup {Total[r] : r \in Release}
    BY <2>2
  <2>4. file.ran \in Seq(Nat) /\ migrations \in Seq(Nat)
    BY <2>2 DEF Init
  <2>5. phase \in {"closed", "open", "checking", "checked", "threw"} /\ rolledBack \in BOOLEAN
    BY DEF Init
  <2>6. live \in Facts /\ store \in Facts /\ before \in Facts
    BY NoFactsType DEF Init
  <2>7. pending \subseteq Path /\ issues \subseteq Path
    BY DEF Init
  <2>8. cached \in [Path -> Value \cup {Unset, NotRead}]
    BY DEF Init, NothingRead
  <2> QED
    BY <2>1, <2>2, <2>3, <2>4, <2>5, <2>6, <2>7, <2>8 DEF TypeOK
<1>2. OnlyTakenAway /\ ReadsAreCommitted
  BY DEF Init, OnlyTakenAway, ReadsAreCommitted, NoFacts
<1> QED
  BY <1>1, <1>2 DEF Init, SyncInvariant, NoFile, NoFacts

LEMMA DeployKeepsSync ==
    ASSUME SyncInvariant, NEW r \in Release, Deploy(r)
    PROVE  SyncInvariant'
<1>1. TypeOK'
  BY NoFactsType DEF SyncInvariant, TypeOK, Deploy, Facts, ClearCaches, NothingRead
<1>2. OnlyTakenAway' /\ ReadsAreCommitted'
  BY DEF Deploy, OnlyTakenAway, ReadsAreCommitted, NoFacts
<1> QED
  BY <1>1, <1>2 DEF Deploy, SyncInvariant

LEMMA FileStepKeepsSync ==
    ASSUME SyncInvariant, NewGraph \/ Load \/ SaveFile
    PROVE  SyncInvariant'
<1>1. TypeOK
  BY DEF SyncInvariant
<1>2. ASSUME NewGraph PROVE SyncInvariant'
  <2>1. Upto(Total[release]) \in Seq(Nat)
    BY <1>1, TotalIsNatural DEF TypeOK, Upto
  <2>2. Accepted(release, NoFacts)
    BY DEF Accepted, NoFacts
  <2> QED
    BY <1>2, <2>1, <2>2, NoFactsType, OpenedKeeps DEF NewGraph
<1>3. ASSUME Load PROVE SyncInvariant'
  <2> DEFINE missing == Missing(file.count, release)
             facts   == Migrated(file.facts, file.full, missing)
             ran     == IF rolledBack THEN <<>> ELSE file.ran \o missing
  <2>1. file.count \in Nat
    BY <1>1, TotalIsNatural DEF TypeOK
  <2>2. missing \in Seq(Nat)
    BY <1>1, <2>1, MissingType DEF TypeOK
  <2>3. ran \in Seq(Nat)
    BY <1>1, <2>2 DEF TypeOK
  <2>4. facts \in Facts
    BY <1>1, MigratedType DEF TypeOK
  <2>5. Opened(facts, ran) /\ ClearCaches /\ Loads(facts, release) /\ UNCHANGED <<release, file, rolledBack>>
    BY <1>3 DEF Load
  <2>6. Accepted(release, facts)
    BY <2>5 DEF Loads, Accepted
  <2> QED
    BY <2>3, <2>4, <2>5, <2>6, OpenedKeeps
<1>4. ASSUME SaveFile PROVE SyncInvariant'
  <2>1. /\ file' = [facts |-> store, count |-> Total[release], full |-> Full[release],
                    ran |-> migrations, exists |-> TRUE]
        /\ UNCHANGED <<phase, live, store, cached, migrations, pending, issues, before, release, rolledBack>>
        /\ phase # "closed"
    BY <1>4 DEF SaveFile, Count, graph
  <2>2. TypeOK'
    BY <1>1, <2>1, ReleasesAssumption DEF TypeOK, Facts
  <2>3. Total[release] \in Nat
    BY <1>1, TotalIsNatural DEF TypeOK
  <2>4. \A p \in Path : store[p] \in Invalid => Total[release] < 2 \/ store[p] = Unset
    BY <2>1 DEF SyncInvariant, Accepted, Accepts
  <2>5. file'.facts = store /\ file'.count = Total[release]
    BY <2>1
  <2>6. \A p \in Path : file'.facts[p] \in Invalid => file'.count < 2 \/ file'.facts[p] = Unset
    BY <2>4, <2>5
  <2>7. OnlyTakenAway' /\ ReadsAreCommitted'
    BY <2>1 DEF SyncInvariant, OnlyTakenAway, ReadsAreCommitted, Seen, ItemsAt, Type
  <2> QED
    BY <2>1, <2>2, <2>6, <2>7 DEF SyncInvariant, ItemsStay, ItemsAt, Type, Accepted, Accepts,
       IssuesAreRemoved, Fits, KeptFits
<1> QED
  BY <1>2, <1>3, <1>4

LEMMA EditKeepsSync ==
    ASSUME SyncInvariant, NEW p \in Path, Delete(p) \/ \E v \in Value : Set(p, v)
    PROVE  SyncInvariant'
<1>1. TypeOK
  BY DEF SyncInvariant
<1>2. ASSUME NEW v \in Value, Set(p, v) PROVE SyncInvariant'
  <2> DEFINE st == [live EXCEPT ![p] = v]
  <2>1. st \in Facts
    BY <1>1, EditType DEF TypeOK
  <2>2. Accepted(release, st)
    BY <1>1, <1>2 DEF SyncInvariant, Accepted, Set, TypeOK, Facts
  <2> QED
    BY <1>1, <1>2, <2>1, <2>2, OpenedKeeps DEF Set, TypeOK
<1>3. ASSUME Delete(p) PROVE SyncInvariant'
  <2> DEFINE st == [live EXCEPT ![p] = Unset]
  <2>1. st \in Facts
    BY <1>1, EditType DEF TypeOK
  <2>2. Accepted(release, st)
    BY <1>1, <1>3 DEF SyncInvariant, Accepted, Delete, TypeOK, Facts
  <2> QED
    BY <1>1, <1>3, <2>1, <2>2, OpenedKeeps DEF Delete, TypeOK
<1> QED
  BY <1>2, <1>3

LEMMA GetKeepsSync ==
    ASSUME SyncInvariant, NEW p \in Path, Get(p)
    PROVE  SyncInvariant'
<1>1. /\ cached' = [cached EXCEPT ![p] = Seen[p]]
      /\ UNCHANGED <<phase, live, store, migrations, pending, issues, before, release, file, rolledBack>>
      /\ phase # "closed"
  BY DEF Get
<1>2. Seen' = Seen /\ TypeOK'
  BY <1>1, ReadSees DEF SyncInvariant, TypeOK
<1>3. OnlyTakenAway' /\ ReadsAreCommitted'
  BY <1>1, <1>2, SameReads DEF SyncInvariant, OnlyTakenAway
<1> QED
  BY <1>1, <1>2, <1>3 DEF SyncInvariant, ItemsStay, ItemsAt, Type, Accepted, Accepts,
     IssuesAreRemoved, Fits, KeptFits

-----------------------------------------------------------------------------
(* The steps of checkPersister.                                            *)

LEMMA BeginCheckKeepsSync ==
    ASSUME SyncInvariant, BeginCheck
    PROVE  SyncInvariant'
<1>1. TypeOK'
  BY DEF SyncInvariant, TypeOK, BeginCheck
<1>2. /\ UNCHANGED <<live, store, cached, release, file>>
      /\ phase' = "checking" /\ phase # "closed" /\ before' = live /\ issues' = {}
      /\ pending' = {p \in Path : live[p] # Unset}
  BY DEF BeginCheck
<1>3. ItemsStay'
  BY <1>2 DEF SyncInvariant, ItemsStay, ItemsAt, Type
<1>4. IssuesAreRemoved' /\ KeptFits'
  BY <1>2 DEF IssuesAreRemoved, KeptFits
<1>5. Accepted(release, live)' /\ Accepted(release, store)'
  BY <1>2 DEF SyncInvariant, Accepted, Accepts
<1>6. OnlyTakenAway' /\ ReadsAreCommitted'
  <2>1. Seen' = Seen
    BY <1>2 DEF Seen
  <2> QED
    BY <1>2, <2>1, SameReads DEF SyncInvariant, OnlyTakenAway
<1> QED
  BY <1>1, <1>2, <1>3, <1>4, <1>5, <1>6 DEF SyncInvariant

(* A path that is removed is no collection whose items others belong to:   *)
(* what checkTypeMapping takes away holds no items.                        *)
LEMMA RemovedHasNoItems ==
    ASSUME SyncInvariant, NEW c \in Plain, live[c] # Unset, Removes(c)
    PROVE  ItemsAt(live, c) = {}
<1>1. CASE Type(c) # "collection"
  BY <1>1 DEF ItemsAt
<1>2. CASE Type(c) = "collection"
  <2>1. c \in Path /\ c \notin Member
    BY ReleasesAssumption DEF Path
  <2>2. Kind[live[c]] # "collection"
    BY <1>2, <2>1 DEF Removes, HasBadItemId, Mistyped
  <2>3. live[c] \in Value
    BY <2>1 DEF SyncInvariant, TypeOK, Facts
  <2>4. Items[live[c]] = {}
    BY <2>2, <2>3, ReleasesAssumption
  <2> QED
    BY <2>4 DEF ItemsAt
<1> QED
  BY <1>1, <1>2

LEMMA RemoveKeepsSync ==
    ASSUME SyncInvariant, phase = "checking", NEW p \in pending, ~Unreadable(p),
           Removes(p), Remove(p), pending' = pending \ {p},
           UNCHANGED <<phase, migrations, before, release, file, rolledBack>>
    PROVE  SyncInvariant'
<1>1. TypeOK /\ p \in Path /\ IssuesAreRemoved /\ ItemsStay /\ KeptFits
  BY DEF SyncInvariant, TypeOK
<1>2. live[p] = before[p] /\ live[p] # Unset /\ live[p] \in Value
  BY <1>1 DEF IssuesAreRemoved, TypeOK, Facts
<1>3. /\ live' = [live EXCEPT ![p] = Unset] /\ issues' = issues \cup {p} /\ store' = store
      /\ live' \in Facts /\ Seen' = Seen /\ cached' \in [Path -> Value \cup {Unset, NotRead}]
  BY <1>1, EditType, LookedSees DEF Remove, TypeOK
<1>4. TypeOK'
  BY <1>1, <1>3 DEF TypeOK
<1>13. OnlyTakenAway' /\ ReadsAreCommitted'
  <2>1. \A q \in Path : live'[q] \in {live[q], Unset}
    BY <1>1, <1>3 DEF TypeOK, Facts
  <2>2. ReadsAreCommitted'
    BY <1>3, <2>1, SameReads DEF SyncInvariant
  <2> QED
    BY <1>3, <2>1, <2>2 DEF SyncInvariant, OnlyTakenAway
<1>5. ASSUME NEW c \in Plain PROVE ItemsAt(live, c)' = ItemsAt(live, c)
  <2>1. CASE c = p
    <3>1. live'[c] = Unset
      BY <1>1, <1>3, <2>1 DEF TypeOK, Facts
    <3>2. ItemsAt(live, c)' = {}
      BY <3>1 DEF ItemsAt
    <3> QED
      BY <1>2, <2>1, <3>2, RemovedHasNoItems
  <2>2. CASE c # p
    <3>1. c \in Path
      BY DEF Path
    <3>2. live'[c] = live[c]
      BY <1>1, <1>3, <2>2, <3>1 DEF TypeOK, Facts
    <3> QED
      BY <3>2 DEF ItemsAt, Type
  <2> QED
    BY <2>1, <2>2
<1>6. \A c \in Plain : ItemsAt(store, c)' = ItemsAt(store, c) /\ ItemsAt(before, c)' = ItemsAt(before, c)
  BY <1>3 DEF ItemsAt, Type
<1>7. ItemsStay'
  BY <1>1, <1>5, <1>6 DEF ItemsStay
<1>8. ~Fits(p, before)
  <2>1. CASE Type(p) = "none"
    BY <1>2, <2>1, ReleasesAssumption DEF Fits
  <2>2. CASE Mistyped(p)
    BY <1>2, <2>2 DEF Fits, Mistyped
  <2>3. CASE HasBadItemId(p)
    <3>1. CollectionOf[p] \in Plain
      BY <2>3, ReleasesAssumption DEF HasBadItemId
    <3>2. ItemsAt(before, CollectionOf[p]) = ItemsAt(Seen, CollectionOf[p])
      BY <1>1, <3>1 DEF ItemsStay, SyncInvariant, ReadsAreCommitted
    <3> QED
      BY <2>3, <3>2 DEF Fits, HasBadItemId
  <2> QED
    BY <2>1, <2>2, <2>3 DEF Removes
<1>9. \A q \in Path : Fits(q, before)' <=> Fits(q, before)
  BY DEF Fits, ItemsAt, Type
<1>10. IssuesAreRemoved'
  <2>1. \A q \in Path : live'[q] = IF q \in issues' THEN Unset ELSE before'[q]
    BY <1>1, <1>3 DEF IssuesAreRemoved, TypeOK, Facts
  <2>2. \A q \in issues' : ~Fits(q, before)'
    BY <1>1, <1>3, <1>8, <1>9 DEF IssuesAreRemoved, TypeOK
  <2> QED
    BY <1>1, <1>2, <1>3, <2>1, <2>2 DEF IssuesAreRemoved
<1>11. KeptFits'
  <2>1. ASSUME NEW q \in Path, live'[q] # Unset, q \notin pending' PROVE Fits(q, live)'
    <3>1. q # p /\ live'[q] = live[q] /\ q \notin pending
      BY <1>1, <1>3, <2>1 DEF TypeOK, Facts
    <3>2. Fits(q, live)
      BY <1>1, <2>1, <3>1 DEF KeptFits
    <3>3. q \in Member => CollectionOf[q] \in Plain
      BY ReleasesAssumption
    <3> QED
      BY <1>5, <3>1, <3>2, <3>3 DEF Fits, Type
  <2> QED
    BY <2>1 DEF KeptFits
<1>12. Accepted(release, live)' /\ Accepted(release, store)'
  BY <1>1, <1>3 DEF SyncInvariant, Accepted, Accepts, TypeOK, Facts
<1> QED
  BY <1>4, <1>7, <1>10, <1>11, <1>12, <1>13 DEF SyncInvariant

LEMMA KeepKeepsSync ==
    ASSUME SyncInvariant, phase = "checking", NEW p \in pending,
           ~Removes(p), Kind[live[p]] = Type(p), Keep, pending' = pending \ {p},
           UNCHANGED <<phase, migrations, before, release, file, rolledBack>>
    PROVE  SyncInvariant'
<1>1. TypeOK /\ p \in Path /\ IssuesAreRemoved /\ ItemsStay /\ KeptFits
  BY DEF SyncInvariant, TypeOK
<1>2. live' = live /\ store' = live /\ issues' = issues
  BY DEF Keep
<1>9. Seen' = live /\ cached' \in [Path -> Value \cup {Unset, NotRead}]
  BY <1>1, <1>2, ClearedSees DEF Keep, TypeOK
<1>3. TypeOK'
  BY <1>1, <1>2, <1>9 DEF TypeOK
<1>10. OnlyTakenAway' /\ ReadsAreCommitted'
  BY <1>2, <1>9 DEF OnlyTakenAway, ReadsAreCommitted, ItemsAt, Type
<1>4. ItemsStay'
  BY <1>1, <1>2 DEF ItemsStay, ItemsAt, Type
<1>5. IssuesAreRemoved'
  BY <1>1, <1>2 DEF IssuesAreRemoved, Fits, ItemsAt, Type
<1>6. Fits(p, live)
  <2>1. p \in Member => CollectionOf[p] \in Plain
    BY ReleasesAssumption
  <2>2. p \in Member => ItemOf[p] \in ItemsAt(live, CollectionOf[p])
    BY <1>1, <2>1 DEF Removes, HasBadItemId, ItemsStay, SyncInvariant, ReadsAreCommitted
  <2> QED
    BY <2>2 DEF Fits
<1>7. KeptFits'
  BY <1>1, <1>2, <1>6 DEF KeptFits, Fits, ItemsAt, Type
<1>8. Accepted(release, live)' /\ Accepted(release, store)'
  BY <1>2 DEF SyncInvariant, Accepted, Accepts
<1> QED
  BY <1>3, <1>4, <1>5, <1>7, <1>8, <1>10 DEF SyncInvariant

LEMMA CheckKeepsSync ==
    ASSUME SyncInvariant, NEW p \in Path, Check(p) \/ CheckThrows(p)
    PROVE  SyncInvariant'
<1>1. CASE Check(p)
  BY <1>1, RemoveKeepsSync, KeepKeepsSync DEF Check
<1>2. CASE CheckThrows(p)
  <2>1. /\ phase = "checking" /\ phase' = "threw" /\ pending' = {}
        /\ UNCHANGED <<live, store, migrations, issues, before, release, file, rolledBack>>
        /\ cached' = Looked(p)
    BY <1>2 DEF CheckThrows
  <2>2. Seen' = Seen /\ TypeOK'
    BY <2>1, LookedSees DEF SyncInvariant, TypeOK
  <2>3. OnlyTakenAway' /\ ReadsAreCommitted'
    BY <2>1, <2>2, SameReads DEF SyncInvariant, OnlyTakenAway
  <2> QED
    BY <2>1, <2>2, <2>3 DEF SyncInvariant, ItemsStay, IssuesAreRemoved, Fits, ItemsAt, Type,
       Accepted, Accepts
<1> QED
  BY <1>1, <1>2

LEMMA EndCheckKeepsSync ==
    ASSUME SyncInvariant, EndCheck
    PROVE  SyncInvariant'
<1>1. /\ phase = "checking" /\ phase' = "checked" /\ pending = {} /\ store' = live
      /\ UNCHANGED <<live, cached, migrations, pending, issues, before, release, file, rolledBack>>
  BY DEF EndCheck
<1>2. TypeOK'
  BY <1>1 DEF SyncInvariant, TypeOK
<1>3. ASSUME NEW q \in Path, Seen'[q] # store'[q]
      PROVE  store'[q] = Unset /\ live'[q] = Unset
  <2>1. cached[q] # NotRead /\ Seen[q] # live[q] /\ Seen'[q] = Seen[q]
    BY <1>1, <1>3 DEF Seen
  <2>2. live[q] \in {store[q], Unset}
    BY DEF SyncInvariant, OnlyTakenAway
  <2>3. Seen[q] # store[q] => live[q] = Unset
    BY <1>1 DEF SyncInvariant, ReadsAreCommitted
  <2> QED
    BY <1>1, <2>1, <2>2, <2>3
<1>4. ASSUME NEW c \in Plain PROVE ItemsAt(Seen, c)' = ItemsAt(store, c)'
  <2>1. c \in Path
    BY DEF Path
  <2>2. ItemsAt(Seen, c) = ItemsAt(live, c)
    BY <1>1 DEF SyncInvariant, ItemsStay, ReadsAreCommitted
  <2>3. Seen'[c] \in {Seen[c], live[c]}
    BY <1>1, <2>1 DEF Seen
  <2> QED
    BY <1>1, <2>2, <2>3 DEF ItemsAt, Type
<1>5. OnlyTakenAway' /\ ReadsAreCommitted'
  BY <1>1, <1>3, <1>4 DEF OnlyTakenAway, ReadsAreCommitted
<1> QED
  BY <1>1, <1>2, <1>5 DEF SyncInvariant, ItemsStay, IssuesAreRemoved, KeptFits, Fits, ItemsAt, Type,
     Accepted, Accepts

LEMMA StepSyncInvariant == SyncInvariant /\ [Next]_vars => SyncInvariant'
<1> SUFFICES ASSUME SyncInvariant, [Next]_vars PROVE SyncInvariant'
  OBVIOUS
<1>1. CASE Next
  BY <1>1, DeployKeepsSync, FileStepKeepsSync, GetKeepsSync, EditKeepsSync, CheckKeepsSync,
     BeginCheckKeepsSync, EndCheckKeepsSync, ReleasesAssumption DEF Next
<1>2. CASE UNCHANGED vars
  <2>1. UNCHANGED <<release, file, phase, live, store, cached, migrations, pending, issues, before,
                    rolledBack>>
    BY <1>2 DEF vars, graph
  <2>2. OnlyTakenAway' /\ ReadsAreCommitted'
    BY <2>1 DEF SyncInvariant, OnlyTakenAway, ReadsAreCommitted, Seen, ItemsAt, Type
  <2> QED
    BY <2>1, <2>2 DEF SyncInvariant, TypeOK, ItemsStay, IssuesAreRemoved, KeptFits, Fits,
       ItemsAt, Type, Accepted, Accepts
<1> QED
  BY <1>1, <1>2

(* The invariant that the next theorems rest on, for any releases and      *)
(* dictionaries: nothing checkPersister removes holds the items it judges  *)
(* members by, the cached results it leaves are of facts it removed, and   *)
(* no file from after m2 holds an invalid address                          *)
(* (InMemoryPersister.scala:137-174, Migrations.scala:27-42).              *)
THEOREM SyncInvariantHolds == Spec => []SyncInvariant
  BY InitSyncInvariant, StepSyncInvariant, PTL DEF Spec

(* Graphs, files and the state of a check keep their types.                *)
THEOREM TypeCorrect == Spec => []TypeOK
<1>1. SyncInvariant => TypeOK
  BY DEF SyncInvariant
<1> QED
  BY <1>1, SyncInvariantHolds, PTL

(* When checkPersister returns, whatever the order in which it went        *)
(* through the facts, every persisted fact has a place in the dictionary   *)
(* (InMemoryPersister.scala:137-174).                                      *)
THEOREM WhatIsCheckedFits == Spec => []CheckedFits
<1>1. ASSUME SyncInvariant, phase = "checked", NEW p \in Path, store[p] # Unset
      PROVE  Fits(p, store)
  BY <1>1 DEF SyncInvariant, KeptFits
<1>2. SyncInvariant => CheckedFits
  BY <1>1 DEF CheckedFits
<1> QED
  BY <1>2, SyncInvariantHolds, PTL

(* It reports exactly what it took away, which had no place, also when it  *)
(* throws half-way and is run again (InMemoryPersister.scala:162-170).     *)
THEOREM CheckTakesMisfitsOnly == Spec => []OnlyMisfitsGo
<1>1. SyncInvariant => OnlyMisfitsGo
  BY DEF SyncInvariant, OnlyMisfitsGo, IssuesAreRemoved, TypeOK
<1> QED
  BY <1>1, SyncInvariantHolds, PTL

(* The file loads in whichever release comes next, one taken back          *)
(* included (Migrations.scala:10-12), unless it holds an invalid address   *)
(* that m2 does not recognise (Migrations.scala:38-42).                    *)
THEOREM FilesLoadInEveryRelease == Spec => []EveryFileLoads
<1>1. ASSUME SyncInvariant, RecognisedInFile, NEW r \in Release
      PROVE  Loads(Migrated(file.facts, file.full, Missing(file.count, r)), r)
  <2>1. file.facts \in Facts /\ file.count \in Nat
    BY <1>1, TotalIsNatural DEF SyncInvariant, TypeOK
  <2>2. \A p \in Path : file.facts[p] \in Invalid => file.count < 2 \/ file.facts[p] = Unset
    BY <1>1 DEF SyncInvariant
  <2> QED
    BY <1>1, <2>1, <2>2, MigratedFileLoads DEF RecognisedInFile
<1>2. SyncInvariant => EveryFileLoads
  BY <1>1 DEF EveryFileLoads
<1> QED
  BY <1>2, SyncInvariantHolds, PTL

(* The results that outlive a check are of facts it took away, and no      *)
(* check judges a member by them (InMemoryPersister.scala:173), whatever   *)
(* the page has read, and however often it is checked before the next set. *)
THEOREM ReadsStayCommitted == Spec => []ReadsAreCommitted
<1>1. SyncInvariant => ReadsAreCommitted
  BY DEF SyncInvariant
<1> QED
  BY <1>1, SyncInvariantHolds, PTL
=============================================================================

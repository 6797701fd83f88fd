----------------------------- MODULE ServerProofs -----------------------------
(***************************************************************************)
(* However many threads serve requests, and however they overlap, the      *)
(* persister of every graph returns to its resting state, and a request    *)
(* that no other overlaps does what it answers.                            *)
(***************************************************************************)
EXTENDS Server, SequenceTheorems, TLAPS

Types == TypeOK /\ request \in [Worker -> Request]

(* What is true of the requests once worker w holds r, having begun it,    *)
(* gone on with it, or answered it.                                        *)
Moves(w, r) ==
    \/ Begin(w, r) /\ r.at # "idle"
    \/ /\ ~At(w, "idle") /\ r.at # "idle"
       /\ request' = [request EXCEPT ![w] = r]
       /\ UNCHANGED disturbed
    \/ ~At(w, "idle") /\ Answer(w) /\ r = Idle

LEMMA NewGraphType ==
    ASSUME NEW d \in Dictionary, NEW facts \in Facts
    PROVE  NewGraph(d, facts) \in Graph
  BY DEF NewGraph, Graph

LEMMA NoFactsType == NoFacts \in Facts
  BY DEF NoFacts, Facts

LEMMA IdleIsRequest == Idle \in Request /\ Idle.at = "idle"
  BY DEF Request, Idle

(* Where a request is tells what it holds.                                 *)
LEMMA RequestAt ==
    ASSUME NEW r \in Request
    PROVE  /\ r.at = "idle" <=> r = Idle
           /\ r.at \in SettingAt <=> r \in Setting
           /\ r.at = "read" <=> r \in Reading
           /\ r.at = "next" <=> r \in Between
           /\ r.at \in {"replace graph", "index"} <=> r \in Loading
           /\ r.at = "install" <=> r \in Placing
<1>1. r \in {Idle} \cup Setting \cup Reading \cup Between \cup Loading \cup Placing
  BY DEF Request
<1>2. r = Idle => r.at = "idle"
  BY DEF Idle
<1>3. r \in Setting => r.at \in SettingAt
  BY DEF Setting, SettingAt
<1>4. (r \in Between => r.at = "next") /\ (r \in Reading => r.at = "read")
  BY DEF Between, Reading
<1>5. r \in Loading => r.at \in {"replace graph", "index"}
  BY DEF Loading
<1>6. r \in Placing => r.at = "install"
  BY DEF Placing
<1> QED
  BY <1>1, <1>2, <1>3, <1>4, <1>5, <1>6 DEF SettingAt

LEMMA Moved ==
    ASSUME Types, Alone, NEW w \in Worker, NEW r, Moves(w, r)
    PROVE  /\ request' = [request EXCEPT ![w] = r]
           /\ disturbed' \in [Worker -> BOOLEAN]
           /\ Alone'
           /\ \A u \in Worker \ {w} :
                /\ request'[u] = request[u]
                /\ disturbed'[u] \/ request[u] = Idle
           /\ \/ Begin(w, r)
              \/ disturbed'[w] = disturbed[w] \/ r = Idle
<1>0. ASSUME ~At(w, "idle"), NEW u \in Worker \ {w}
      PROVE  disturbed[u] \/ request[u] = Idle
  <2>1. disturbed[u] \/ At(u, "idle")
    BY <1>0 DEF Alone, Busy
  <2>2. request[u] \in Request
    BY DEF Types
  <2> QED
    BY <2>1, <2>2, RequestAt DEF At
<1>1. CASE Begin(w, r) /\ r.at # "idle"
  <2>1. request' = [request EXCEPT ![w] = r] /\ At(w, "idle")
    BY <1>1 DEF Begin
  <2>2. disturbed' \in [Worker -> BOOLEAN]
    BY <1>1 DEF Begin, Types, TypeOK
  <2>3. ASSUME NEW u \in Worker \ {w}
        PROVE  request'[u] = request[u] /\ (disturbed'[u] \/ request[u] = Idle)
    BY <1>1, RequestAt DEF Begin, Types, Busy, At
  <2>4. Alone'
    <3>1. ASSUME NEW u \in Worker, ~At(u, "idle")', ~disturbed'[u] PROVE Busy' = {u}
      <4>1. u = w
        BY <2>3, <3>1, IdleIsRequest DEF At
      <4>2. Busy = {}
        BY <1>1, <3>1, <4>1 DEF Begin
      <4> QED
        BY <2>1, <2>3, <4>1, <4>2, <1>1, <3>1 DEF Types, Busy, At
    <3> QED
      BY <3>1 DEF Alone
  <2> QED
    BY <1>1, <2>1, <2>2, <2>3, <2>4
<1>2. CASE /\ ~At(w, "idle") /\ r.at # "idle"
           /\ request' = [request EXCEPT ![w] = r]
           /\ UNCHANGED disturbed
  <2>1. \A u \in Worker : At(u, "idle")' = At(u, "idle")
    BY <1>2 DEF Types, At
  <2>2. Alone'
    BY <1>2, <2>1 DEF Alone, Busy
  <2>3. ASSUME NEW u \in Worker \ {w}
        PROVE  request'[u] = request[u] /\ (disturbed'[u] \/ request[u] = Idle)
    BY <1>0, <1>2 DEF Types
  <2> QED
    BY <1>2, <2>2, <2>3 DEF Types, TypeOK
<1>3. CASE ~At(w, "idle") /\ Answer(w) /\ r = Idle
  <2>1. request' = [request EXCEPT ![w] = r] /\ disturbed' = [disturbed EXCEPT ![w] = FALSE]
    BY <1>3 DEF Answer
  <2>2. At(w, "idle")' /\ \A u \in Worker \ {w} : At(u, "idle")' = At(u, "idle")
    BY <1>3, <2>1, IdleIsRequest DEF Types, At
  <2>3. ASSUME NEW u \in Worker \ {w}
        PROVE  request'[u] = request[u] /\ (disturbed'[u] \/ request[u] = Idle)
    BY <1>0, <1>3, <2>1 DEF Types, TypeOK
  <2>4. Alone'
    BY <2>1, <2>2, <2>3, RequestAt DEF Types, TypeOK, Alone, At
  <2> QED
    BY <1>3, <2>1, <2>3, <2>4 DEF Types, TypeOK
<1> QED
  BY <1>1, <1>2, <1>3 DEF Moves

-----------------------------------------------------------------------------
LEMMA WorksOn ==
    ASSUME NEW w \in Worker, request[w] \in Request, NEW g
    PROVE  On(w, g) <=> request[w] \in Setting \cup Reading \cup Between /\ request[w].graph = g
<1>1. request[w] \in Setting => "graph" \in DOMAIN request[w] /\ request[w].at # "idle"
  BY DEF Setting, SettingAt
<1>2. request[w] \in Between => "graph" \in DOMAIN request[w] /\ request[w].at # "idle"
  BY DEF Between
<1>3. request[w] \in Reading => "graph" \in DOMAIN request[w] /\ request[w].at # "idle"
  BY DEF Reading
<1>4. request[w] \in Loading => "graph" \notin DOMAIN request[w]
  BY DEF Loading
<1>5. request[w] \in Placing => "graph" \notin DOMAIN request[w]
  BY DEF Placing
<1>6. request[w] = Idle => request[w].at = "idle"
  BY DEF Idle
<1> QED
  BY <1>1, <1>2, <1>3, <1>4, <1>5, <1>6 DEF Request, On, At

(* A step of w keeps g accounted for if what is not at rest is w's own     *)
(* doing, is known to be stuck, or was there before and was accounted for  *)
(* by something that remains.                                              *)
LEMMA RestKept ==
    ASSUME Types, NEW w \in Worker, NEW r, request' = [request EXCEPT ![w] = r],
           NEW g, RestsAt(g),
           graphs'[g].validating =>
              \/ "mode" \in graphs'[g].stuck
              \/ On(w, g)' /\ r.at \in Validating
              \/ /\ graphs[g].validating /\ "mode" \notin graphs[g].stuck
                 /\ ~(On(w, g) /\ request[w].at \in Validating),
           graphs'[g].toValidate # {} =>
              \/ "queue" \in graphs'[g].stuck
              \/ On(w, g)' /\ r.at \in Queueing
              \/ /\ graphs[g].toValidate # {} /\ "queue" \notin graphs[g].stuck
                 /\ ~(On(w, g) /\ request[w].at \in Queueing)
    PROVE  RestsAt(g)'
<1>1. request'[w] = r /\ \A u \in Worker \ {w} : request'[u] = request[u]
  BY DEF Types
<1>2. \A u \in Worker \ {w} : On(u, g)' <=> On(u, g)
  BY <1>1 DEF On, At
<1> QED
  BY <1>1, <1>2 DEF RestsAt

-----------------------------------------------------------------------------
(* What remains to be shown of a step of w.                                *)
Progress(w) ==
    ~disturbed[w] =>
        /\ request[w] \in Setting => SetsItsValue(request[w], Mine(w))
        /\ ReplacesTheCurrent(request[w])

LEMMA InvariantKept ==
    ASSUME ServerInvariant, NEW w \in Worker, NEW r, Moves(w, r), r \in Request',
           graphs' \in Seq(Graph), Len(graphs) <= Len(graphs'),
           currentDictionary' \in Dictionary \cup {None},
           indexed' \in Dictionary \cup {None},
           currentGraph' \in 0 .. Len(graphs'),
           \A g \in 1 .. Len(graphs') : RestsAt(g)',
           Progress(w)'
    PROVE  ServerInvariant'
<1>1. Types /\ Alone
  BY DEF ServerInvariant, Types
<1>2. /\ request' = [request EXCEPT ![w] = r]
      /\ disturbed' \in [Worker -> BOOLEAN]
      /\ Alone'
      /\ \A u \in Worker \ {w} :
            request'[u] = request[u] /\ (disturbed'[u] \/ request[u] = Idle)
  BY <1>1, Moved
<1>3. Request \subseteq Request'
  <2>1. Len(graphs) \in Nat /\ Len(graphs') \in Nat
    BY <1>1 DEF Types, TypeOK
  <2>2. 1 .. Len(graphs) \subseteq 1 .. Len(graphs')
    BY <2>1
  <2>3. Setting \subseteq Setting'
    BY <2>2 DEF Setting
  <2>4. Between \subseteq Between' /\ Reading \subseteq Reading'
    BY <2>2 DEF Between, Reading
  <2> QED
    BY <2>3, <2>4 DEF Request
<1>4. request' \in [Worker -> Request']
  BY <1>1, <1>2, <1>3 DEF Types
<1>5. TypeOK'
  BY <1>2 DEF TypeOK
<1>6. PersisterRests'
  BY DEF PersisterRests
<1>7. ASSUME NEW u \in Worker PROVE Progress(u)'
  <2>1. CASE u = w
    BY <2>1
  <2>2. CASE u # w /\ disturbed'[u]
    BY <2>2 DEF Progress
  <2>3. CASE u # w /\ request[u] = Idle
    <3>1. request'[u] = Idle /\ Idle.at = "idle"
      BY <1>2, <2>3, IdleIsRequest
    <3>2. Idle \notin Setting'
      BY <3>1 DEF Setting, SettingAt
    <3> QED
      BY <3>1, <3>2 DEF Progress, ReplacesTheCurrent
  <2> QED
    BY <1>2, <2>1, <2>2, <2>3
<1> QED
  BY <1>2, <1>4, <1>5, <1>6, <1>7 DEF ServerInvariant, Progress

LEMMA OwnGraph ==
    ASSUME ServerInvariant, NEW w \in Worker, request[w] \in Setting
    PROVE  /\ request[w].graph \in 1 .. Len(graphs)
           /\ Mine(w) \in Graph
           /\ ~At(w, "idle")
           /\ On(w, request[w].graph)
<1>1. request[w] \in Request /\ graphs \in Seq(Graph)
  BY DEF ServerInvariant, TypeOK
<1>2. request[w].graph \in 1 .. Len(graphs)
  BY DEF Setting
<1>3. On(w, request[w].graph)
  BY <1>1, WorksOn
<1> QED
  BY <1>1, <1>2, <1>3 DEF Mine, On

(* The next statement of a set, which changes its graph from Mine(w) to g. *)
LEMMA GraphStep ==
    ASSUME ServerInvariant, NEW w \in Worker, request[w] \in Setting,
           NEW r \in Setting \cup Between, r.graph = request[w].graph,
           NEW g \in Graph, Step(w, r, g),
           g.validating =>
              \/ "mode" \in g.stuck
              \/ r.at \in Validating
              \/ /\ Mine(w).validating /\ "mode" \notin Mine(w).stuck
                 /\ request[w].at \notin Validating,
           g.toValidate # {} =>
              \/ "queue" \in g.stuck
              \/ r.at \in Queueing
              \/ /\ Mine(w).toValidate # {} /\ "queue" \notin Mine(w).stuck
                 /\ request[w].at \notin Queueing,
           ~disturbed[w] /\ r \in Setting => SetsItsValue(r, g)
    PROVE  ServerInvariant'
<1> PICK own : own = request[w].graph
  OBVIOUS
<1>0. /\ graphs' = [graphs EXCEPT ![request[w].graph] = g]
      /\ request' = [request EXCEPT ![w] = r]
      /\ UNCHANGED served /\ disturbed' = disturbed
  BY DEF Step
<1>1. Types /\ own \in 1 .. Len(graphs) /\ On(w, own) /\ ~At(w, "idle")
  BY OwnGraph DEF ServerInvariant, Types
<1>2. graphs' \in Seq(Graph) /\ Len(graphs') = Len(graphs) /\ graphs'[own] = g
  BY <1>0, <1>1 DEF Types, TypeOK
<1>3. \A i \in 1 .. Len(graphs) \ {own} : graphs'[i] = graphs[i]
  BY <1>0, <1>1 DEF Types, TypeOK
<1>4. Setting' = Setting /\ Request' = Request
  BY <1>2 DEF Setting, Reading, Between, Request
<1>5. r \in Request
  BY DEF Request
<1>6. r \in Setting \cup Between => "graph" \in DOMAIN r /\ r.at # "idle"
  <2>1. r \in Setting => "graph" \in DOMAIN r /\ r.at # "idle"
    BY DEF Setting, SettingAt
  <2>2. r \in Between => "graph" \in DOMAIN r /\ r.at # "idle"
    BY DEF Between
  <2> QED
    BY <2>1, <2>2
<1>7. request'[w] = r /\ Moves(w, r)
  BY <1>0, <1>1, <1>6 DEF Types, Moves
<1>8. On(w, own)'
  BY <1>6, <1>7 DEF On, At
<1>9. ASSUME NEW i \in 1 .. Len(graphs) PROVE RestsAt(i)'
  <2>1. RestsAt(i)
    BY DEF ServerInvariant, PersisterRests
  <2>2. CASE i = own
    BY <1>0, <1>1, <1>2, <1>8, <2>1, <2>2, RestKept DEF Mine
  <2>3. CASE i # own
    <3>1. ~On(w, i)
      BY <2>3 DEF On
    <3>2. graphs'[i] = graphs[i]
      BY <1>3, <2>3
    <3> QED
      BY <1>0, <1>1, <2>1, <3>1, <3>2, RestKept
  <2> QED
    BY <2>2, <2>3
<1>10. Progress(w)'
  <2>1. Mine(w)' = g
    BY <1>2, <1>7 DEF Mine
  <2>2. r.at \notin {"replace graph", "index", "install"}
    BY DEF Setting, SettingAt, Between
  <2>3. ReplacesTheCurrent(r)'
    BY <2>2 DEF ReplacesTheCurrent
  <2>4. ~disturbed'[w] /\ request'[w] \in Setting' => SetsItsValue(request'[w], Mine(w)')
    BY <1>0, <1>4, <1>7, <2>1
  <2>5. SetsItsValue(request[w], Mine(w))' <=> SetsItsValue(request'[w], Mine(w)')
    BY DEF SetsItsValue, InLimits, Validated
  <2> QED
    BY <1>7, <2>3, <2>4, <2>5 DEF Progress
<1> QED
  <2>1. TypeOK
    BY DEF ServerInvariant
  <2>2. Len(graphs) <= Len(graphs') /\ currentGraph' \in 0 .. Len(graphs')
    BY <1>0, <1>2, <2>1 DEF TypeOK, served
  <2> QED
    BY <1>0, <1>2, <1>4, <1>5, <1>7, <1>9, <1>10, <2>1, <2>2, InvariantKept DEF TypeOK, served

(* A step of w that touches no persister.                                  *)
LEMMA QuietStep ==
    ASSUME ServerInvariant, NEW w \in Worker, request[w].at \notin Validating \cup Queueing,
           NEW r \in Request, Moves(w, r), UNCHANGED <<currentGraph, graphs>>,
           currentDictionary' \in Dictionary \cup {None},
           indexed' \in Dictionary \cup {None},
           r \in Setting => SetsItsValue(r, graphs[r.graph]),
           ~disturbed'[w] => ReplacesTheCurrent(r)'
    PROVE  ServerInvariant'
<1>1. Types
  BY DEF ServerInvariant, Types
<1>2. request' = [request EXCEPT ![w] = r] /\ request'[w] = r
  BY <1>1 DEF Moves, Begin, Answer, Types
<1>3. Setting' = Setting /\ Request' = Request
  BY DEF Setting, Reading, Between, Request
<1>4. ASSUME NEW i \in 1 .. Len(graphs') PROVE RestsAt(i)'
  <2>1. RestsAt(i)
    BY DEF ServerInvariant, PersisterRests
  <2> QED
    BY <1>1, <1>2, <2>1, RestKept
<1>5. Progress(w)'
  <2>1. request'[w] \in Setting' => SetsItsValue(request'[w], Mine(w)')
    BY <1>2, <1>3 DEF Mine
  <2>2. SetsItsValue(request[w], Mine(w))' <=> SetsItsValue(request'[w], Mine(w)')
    BY DEF SetsItsValue, InLimits, Validated
  <2>3. ~disturbed'[w] => ReplacesTheCurrent(request[w])'
    BY <1>2 DEF ReplacesTheCurrent
  <2> QED
    BY <2>1, <2>2, <2>3 DEF Progress
<1> QED
  BY <1>1, <1>3, <1>4, <1>5, InvariantKept DEF Types, TypeOK

(* A step of w that makes a graph and puts it in the place of the current. *)
LEMMA InstallStep ==
    ASSUME ServerInvariant, NEW w \in Worker, request[w] \in Loading \cup Placing,
           NEW d \in Dictionary, NEW facts \in Facts, InstallGraph(d, facts),
           UNCHANGED <<currentDictionary, indexed>>,
           NEW r \in {Idle} \cup Loading, Moves(w, r),
           ~disturbed'[w] /\ r # Idle => r.dictionary = currentDictionary /\ d = currentDictionary
    PROVE  ServerInvariant'
<1>1. Types
  BY DEF ServerInvariant, Types
<1>2. request' = [request EXCEPT ![w] = r] /\ request'[w] = r
  BY <1>1 DEF Moves, Begin, Answer, Types
<1>3. NewGraph(d, facts) \in Graph
  BY NewGraphType
<1>4. /\ graphs' \in Seq(Graph)
      /\ Len(graphs') = Len(graphs) + 1
      /\ \A i \in 1 .. Len(graphs) : graphs'[i] = graphs[i]
      /\ graphs'[Len(graphs')] = NewGraph(d, facts)
      /\ currentGraph' = Len(graphs')
      /\ Len(graphs) \in Nat
  BY <1>1, <1>3, AppendProperties DEF InstallGraph, Types, TypeOK
<1>5. r \in Request' /\ r \notin Setting'
  <2>1. r \in Loading => r.at \in {"replace graph", "index"}
    BY DEF Loading
  <2>2. r = Idle => r.at = "idle"
    BY IdleIsRequest
  <2>3. r \in Request'
    BY DEF Request, Loading
  <2>4. r \in Setting' => r.at \in SettingAt
    BY DEF Setting
  <2> QED
    BY <2>1, <2>2, <2>3, <2>4 DEF SettingAt
<1>6. ASSUME NEW i \in 1 .. Len(graphs') PROVE RestsAt(i)'
  <2>1. CASE i \in 1 .. Len(graphs)
    <3>1. RestsAt(i)
      BY <2>1 DEF ServerInvariant, PersisterRests
    <3>2. ~On(w, i)
      <4>1. request[w].at \notin SettingAt \cup {"read", "next"}
        BY DEF Loading, Placing, SettingAt
      <4>2. request[w] \notin Setting \cup Reading \cup Between
        BY <4>1 DEF Setting, Reading, Between
      <4> QED
        BY <1>1, <4>2, WorksOn DEF Types
    <3> QED
      BY <1>1, <1>2, <1>4, <2>1, <3>1, <3>2, RestKept
  <2>2. CASE i = Len(graphs')
    BY <1>4, <2>2 DEF RestsAt, NewGraph
  <2> QED
    BY <1>4, <2>1, <2>2
<1>7. Progress(w)'
  <2>1. r = Idle => r.at = "idle"
    BY IdleIsRequest
  <2>2. r \in Loading => r.at # "install"
    BY DEF Loading
  <2>3. graphs'[currentGraph'].dictionary = d /\ currentGraph' # 0
    BY <1>4 DEF NewGraph
  <2>4. ~disturbed'[w] => ReplacesTheCurrent(r)'
    BY <2>1, <2>2, <2>3 DEF ReplacesTheCurrent
  <2> QED
    BY <1>2, <1>5, <2>4 DEF Progress
<1> QED
  BY <1>1, <1>4, <1>5, <1>6, <1>7, InvariantKept DEF Types, TypeOK

-----------------------------------------------------------------------------
LEMMA InitServerInvariant == Init => ServerInvariant
<1> SUFFICES ASSUME Init PROVE ServerInvariant
  OBVIOUS
<1>1. TypeOK
  <2>1. CASE currentDictionary = None /\ currentGraph = 0 /\ graphs = <<>>
    BY <2>1 DEF Init, TypeOK
  <2>2. CASE /\ currentDictionary \in Dictionary
             /\ currentGraph = 1
             /\ graphs = <<NewGraph(currentDictionary, NoFacts)>>
    <3>1. NewGraph(currentDictionary, NoFacts) \in Graph
      BY <2>2, NewGraphType, NoFactsType
    <3>2. graphs \in Seq(Graph) /\ Len(graphs) = 1
      BY <2>2, <3>1
    <3> QED
      BY <2>2, <3>2 DEF Init, TypeOK
  <2> QED
    BY <2>1, <2>2 DEF Init
<1>2. request \in [Worker -> Request] /\ \A w \in Worker : request[w] = Idle
  BY IdleIsRequest DEF Init
<1>3. PersisterRests
  <2>1. \A g \in 1 .. Len(graphs) : ~graphs[g].validating /\ graphs[g].toValidate = {}
    BY DEF Init, NewGraph
  <2> QED
    BY <2>1 DEF PersisterRests, RestsAt
<1>4. Alone
  BY <1>2, IdleIsRequest DEF Alone, At
<1>5. Idle \notin Setting /\ ReplacesTheCurrent(Idle)
  BY IdleIsRequest DEF Setting, SettingAt, ReplacesTheCurrent
<1> QED
  BY <1>1, <1>2, <1>3, <1>4, <1>5 DEF ServerInvariant

(* What is known of a worker that sets a fact, and of its graph.           *)
LEMMA SettingNow ==
    ASSUME ServerInvariant, NEW w \in Worker, request[w].at \in SettingAt
    PROVE  /\ request[w] \in Setting
           /\ ~At(w, "idle")
           /\ Mine(w) \in Graph
           /\ ~disturbed[w] => SetsItsValue(request[w], Mine(w))
<1>1. request[w] \in Request
  BY DEF ServerInvariant
<1>2. request[w] \in Setting
  BY <1>1, RequestAt
<1> QED
  BY <1>2, OwnGraph DEF ServerInvariant

LEMMA ChangeStep ==
    ASSUME ServerInvariant, NEW w \in Worker, NEW from \in SettingAt, NEW to \in SettingAt,
           NEW g \in Graph, Change(w, from, to, g),
           g.validating =>
              \/ "mode" \in g.stuck
              \/ to \in Validating
              \/ /\ Mine(w).validating /\ "mode" \notin Mine(w).stuck
                 /\ from \notin Validating,
           g.toValidate # {} =>
              \/ "queue" \in g.stuck
              \/ to \in Queueing
              \/ /\ Mine(w).toValidate # {} /\ "queue" \notin Mine(w).stuck
                 /\ from \notin Queueing,
           ~disturbed[w] => SetsItsValue([request[w] EXCEPT !.at = to], g)
    PROVE  ServerInvariant'
<1> DEFINE r == [request[w] EXCEPT !.at = to]
<1>1. request[w] \in Setting /\ request[w].at = from
  BY SettingNow DEF Change, At
<1>2. r \in Setting /\ r.graph = request[w].graph /\ r.at = to
  BY <1>1 DEF Setting
<1>3. Step(w, r, g)
  BY DEF Change
<1> HIDE DEF r
<1> QED
  BY <1>1, <1>2, <1>3, GraphStep DEF r

(* A set that goes on to its next statement is otherwise what it was.      *)
LEMMA OtherwiseSame ==
    ASSUME NEW s \in Setting, NEW to \in SettingAt
    PROVE  LET r == [s EXCEPT !.at = to] IN
           /\ r.at = to /\ r.facts = s.facts /\ r.value = s.value /\ r.todo = s.todo
           /\ r.unqueued = s.unqueued /\ r.found = s.found /\ r.issues = s.issues
  BY DEF Setting

LEMMA StageKeeps ==
    ASSUME ServerInvariant, NEW w \in Worker, NEW p \in Fact, Stage(w, p)
    PROVE  ServerInvariant'
<1> DEFINE s == request[w]
           g == [Mine(w) EXCEPT !.live[p] = s.value]
           r == [s EXCEPT !.at = "enqueue", !.todo = @ \ {p}, !.unqueued = {p}]
<1>1. s.at = "stage" /\ p \in s.todo /\ Step(w, r, g)
  BY DEF Stage, At
<1>2. /\ s \in Setting /\ Mine(w) \in Graph
      /\ ~disturbed[w] => SetsItsValue(s, Mine(w))
  BY <1>1, SettingNow DEF SettingAt
<1>3. /\ g \in Graph /\ g.validating = Mine(w).validating /\ g.toValidate = Mine(w).toValidate
      /\ g.stuck = Mine(w).stuck
      /\ \A q \in Fact : g.live[q] = IF q = p THEN s.value ELSE Mine(w).live[q]
  BY <1>2 DEF Graph, Setting, Facts
<1>4. /\ r \in Setting /\ r.graph = s.graph /\ r.at = "enqueue" /\ r.facts = s.facts
      /\ r.value = s.value /\ r.todo = s.todo \ {p} /\ r.unqueued = {p} /\ r.found = s.found
  BY <1>2 DEF Setting, SettingAt
<1>5. s.facts \subseteq Fact
  BY <1>2 DEF Setting
<1>6. ASSUME ~disturbed[w] PROVE SetsItsValue(r, g)
  <2>1. /\ s.unqueued = {} /\ s.todo \subseteq s.facts
        /\ \A q \in s.facts \ s.todo : Mine(w).live[q] = s.value
        /\ Mine(w).toValidate = Validated(s) \ (s.todo \ s.found)
    BY <1>1, <1>2, <1>6 DEF SetsItsValue
  <2>2. Validated(r) = Validated(s) /\ r.todo \cup r.unqueued = s.todo
    BY <1>1, <1>4 DEF Validated
  <2>3. \A q \in r.facts \ r.todo : g.live[q] = r.value
    BY <1>3, <1>4, <1>5, <2>1
  <2> HIDE DEF r, g, s
  <2> QED
    BY <1>3, <1>4, <2>1, <2>2, <2>3, <1>1 DEF SetsItsValue
<1> HIDE DEF r, g
<1> QED
  BY <1>1, <1>2, <1>3, <1>4, <1>6, GraphStep DEF Validating, Queueing

LEMMA EnqueueKeeps ==
    ASSUME ServerInvariant, NEW w \in Worker, Enqueue(w)
    PROVE  ServerInvariant'
<1> DEFINE s == request[w]
           g == [Mine(w) EXCEPT !.toValidate = @ \cup s.unqueued]
           r == [s EXCEPT !.at = "stage", !.unqueued = {}]
<1>1. s.at = "enqueue" /\ Step(w, r, g)
  BY DEF Enqueue, At
<1>2. /\ s \in Setting /\ Mine(w) \in Graph
      /\ ~disturbed[w] => SetsItsValue(s, Mine(w))
  BY <1>1, SettingNow DEF SettingAt
<1>3. /\ g \in Graph /\ g.validating = Mine(w).validating /\ g.live = Mine(w).live
      /\ g.toValidate = Mine(w).toValidate \cup s.unqueued /\ g.stuck = Mine(w).stuck
  BY <1>2 DEF Graph, Setting
<1>4. /\ r \in Setting /\ r.graph = s.graph /\ r.at = "stage" /\ r.facts = s.facts
      /\ r.value = s.value /\ r.todo = s.todo /\ r.unqueued = {} /\ r.found = s.found
  BY <1>2 DEF Setting, SettingAt
<1>5. ASSUME ~disturbed[w] PROVE SetsItsValue(r, g)
  <2>1. /\ s.todo \cup s.unqueued \subseteq s.facts /\ s.todo \cap s.unqueued = {}
        /\ \A q \in s.facts \ s.todo : Mine(w).live[q] = s.value
        /\ Mine(w).toValidate = Validated(s) \ ((s.todo \cup s.unqueued) \ s.found)
    BY <1>1, <1>2, <1>5 DEF SetsItsValue
  <2>2. Validated(r) = Validated(s) /\ s.unqueued \subseteq Validated(s)
    BY <1>4, <2>1 DEF Validated
  <2>3. g.toValidate = Validated(r) \ ((r.todo \cup r.unqueued) \ r.found)
    BY <1>3, <1>4, <2>1, <2>2
  <2> HIDE DEF r, g, s
  <2> QED
    BY <1>3, <1>4, <2>1, <2>3 DEF SetsItsValue
<1> HIDE DEF r, g
<1> QED
  BY <1>1, <1>2, <1>3, <1>4, <1>5, GraphStep DEF Validating, Queueing

(* What is left behind is accounted for by the exception.                  *)
LEMMA ThrowStep ==
    ASSUME ServerInvariant, NEW w \in Worker, request[w].at \in {"stage", "validate"},
           NEW stuck \in SUBSET {"queue", "mode"}, "queue" \in stuck,
           request[w].at = "validate" => "mode" \in stuck,
           Mine(w).stuck \subseteq stuck,
           Step(w, Over(w, FALSE), [Mine(w) EXCEPT !.stuck = stuck])
    PROVE  ServerInvariant'
<1> DEFINE g == [Mine(w) EXCEPT !.stuck = stuck]
           r == Over(w, FALSE)
<1>1. request[w] \in Setting /\ Mine(w) \in Graph
  BY SettingNow DEF SettingAt
<1>2. /\ g \in Graph /\ g.validating = Mine(w).validating
      /\ g.toValidate = Mine(w).toValidate /\ g.stuck = stuck
  BY <1>1 DEF Graph
<1>3. r \in Between /\ r \notin Setting /\ r.graph = request[w].graph
  BY <1>1 DEF Over, Between, Setting, SettingAt
<1>4. g.validating => "mode" \in g.stuck \/
                      (Mine(w).validating /\ "mode" \notin Mine(w).stuck
                       /\ request[w].at \notin Validating)
  BY <1>2 DEF Validating
<1> HIDE DEF r, g
<1> QED
  BY <1>1, <1>2, <1>3, <1>4, GraphStep DEF r, g

LEMMA RefuseKeeps ==
    ASSUME ServerInvariant, NEW w \in Worker, NEW p \in Fact, Refuse(w, p)
    PROVE  ServerInvariant'
<1>1. request[w].at = "stage"
  BY DEF Refuse, At
<1>2. Mine(w) \in Graph
  BY <1>1, SettingNow DEF SettingAt
<1>3. PICK stuck : stuck = Mine(w).stuck \cup {"queue"}
  OBVIOUS
<1>4. stuck \in SUBSET {"queue", "mode"}
  BY <1>2, <1>3 DEF Graph
<1>5. Step(w, Over(w, FALSE), [Mine(w) EXCEPT !.stuck = stuck])
  BY <1>3 DEF Refuse
<1> QED
  BY <1>1, <1>3, <1>4, <1>5, ThrowStep

LEMMA ValidateThrowsKeeps ==
    ASSUME ServerInvariant, NEW w \in Worker, ValidateThrows(w)
    PROVE  ServerInvariant'
<1>1. request[w].at = "validate"
  BY DEF ValidateThrows, At
<1>2. Mine(w).stuck \subseteq {"queue", "mode"}
  BY <1>1, SettingNow DEF SettingAt, Graph
<1> QED
  BY <1>1, <1>2, ThrowStep DEF ValidateThrows

LEMMA SnapshotKeeps ==
    ASSUME ServerInvariant, NEW w \in Worker, Snapshot(w)
    PROVE  ServerInvariant'
<1> DEFINE g == [Mine(w) EXCEPT !.validationStore = Mine(w).live]
           r == [request[w] EXCEPT !.at = "switch"]
<1>1. request[w].at = "stage" /\ request[w].todo = {}
  BY DEF Snapshot, At
<1>2. /\ request[w] \in Setting /\ Mine(w) \in Graph
      /\ ~disturbed[w] => SetsItsValue(request[w], Mine(w))
  BY <1>1, SettingNow DEF SettingAt
<1>3. /\ g \in Graph /\ g.validating = Mine(w).validating /\ g.live = Mine(w).live
      /\ g.toValidate = Mine(w).toValidate /\ g.validationStore = Mine(w).live
      /\ g.stuck = Mine(w).stuck
  BY <1>2 DEF Graph
<1>4. ~disturbed[w] => SetsItsValue(r, g)
  BY <1>1, <1>2, <1>3, OtherwiseSame DEF SetsItsValue, Validated, SettingAt
<1>5. Change(w, "stage", "switch", g)
  BY DEF Snapshot, Change
<1> HIDE DEF g
<1> QED
  BY <1>3, <1>4, <1>5, ChangeStep DEF SettingAt, Validating, Queueing

LEMMA SwitchKeeps ==
    ASSUME ServerInvariant, NEW w \in Worker, Switch(w)
    PROVE  ServerInvariant'
<1> DEFINE g == [Mine(w) EXCEPT !.validating = TRUE]
           r == [request[w] EXCEPT !.at = "validate"]
<1>1. request[w].at = "switch"
  BY DEF Switch, Change, At
<1>2. /\ request[w] \in Setting /\ Mine(w) \in Graph
      /\ ~disturbed[w] => SetsItsValue(request[w], Mine(w))
  BY <1>1, SettingNow DEF SettingAt
<1>3. /\ g \in Graph /\ g.validating /\ g.live = Mine(w).live
      /\ g.toValidate = Mine(w).toValidate /\ g.validationStore = Mine(w).validationStore
      /\ g.stuck = Mine(w).stuck
  BY <1>2 DEF Graph
<1>4. ~disturbed[w] => SetsItsValue(r, g)
  BY <1>1, <1>2, <1>3, OtherwiseSame DEF SetsItsValue, Validated, SettingAt
<1> QED
  BY <1>3, <1>4, ChangeStep DEF Switch, SettingAt, Validating, Queueing

LEMMA ClearKeeps ==
    ASSUME ServerInvariant, NEW w \in Worker, Clear(w)
    PROVE  ServerInvariant'
<1> DEFINE g == [Mine(w) EXCEPT !.toValidate = {}, !.stuck = @ \ {"queue"}]
           r == [request[w] EXCEPT !.at = "switch back"]
<1>1. request[w].at = "clear"
  BY DEF Clear, Change, At
<1>2. /\ request[w] \in Setting /\ Mine(w) \in Graph
      /\ ~disturbed[w] => SetsItsValue(request[w], Mine(w))
  BY <1>1, SettingNow DEF SettingAt
<1>3. /\ g \in Graph /\ g.validating = Mine(w).validating /\ g.live = Mine(w).live
      /\ g.toValidate = {} /\ g.dictionary = Mine(w).dictionary
      /\ ("mode" \in g.stuck <=> "mode" \in Mine(w).stuck)
  BY <1>2 DEF Graph
<1>4. ASSUME ~disturbed[w] PROVE SetsItsValue(r, g)
  <2>1. /\ r.at = "switch back" /\ r.facts = request[w].facts /\ r.value = request[w].value
        /\ r.todo = request[w].todo /\ r.unqueued = request[w].unqueued
        /\ r.found = request[w].found /\ r.issues = request[w].issues
    BY <1>2, OtherwiseSame DEF SettingAt
  <2>2. InLimits(r, g) <=> InLimits(request[w], Mine(w))
    BY <1>3, <2>1 DEF InLimits, Validated
  <2> HIDE DEF r, g
  <2> QED
    BY <1>1, <1>2, <1>3, <1>4, <2>1, <2>2 DEF SetsItsValue
<1> QED
  BY <1>3, <1>4, ChangeStep DEF Clear, SettingAt, Validating, Queueing

LEMMA SwitchBackKeeps ==
    ASSUME ServerInvariant, NEW w \in Worker, SwitchBack(w)
    PROVE  ServerInvariant'
<1> DEFINE g == [Mine(w) EXCEPT !.validating = FALSE, !.stuck = @ \ {"mode"}]
           r == [request[w] EXCEPT !.at = "publish"]
<1>1. request[w].at = "switch back"
  BY DEF SwitchBack, Change, At
<1>2. /\ request[w] \in Setting /\ Mine(w) \in Graph
      /\ ~disturbed[w] => SetsItsValue(request[w], Mine(w))
  BY <1>1, SettingNow DEF SettingAt
<1>3. /\ g \in Graph /\ ~g.validating /\ g.live = Mine(w).live
      /\ g.toValidate = Mine(w).toValidate /\ g.dictionary = Mine(w).dictionary
      /\ ("queue" \in g.stuck <=> "queue" \in Mine(w).stuck)
  BY <1>2 DEF Graph
<1>4. ASSUME ~disturbed[w] PROVE SetsItsValue(r, g)
  <2>1. /\ r.at = "publish" /\ r.facts = request[w].facts /\ r.value = request[w].value
        /\ r.todo = request[w].todo /\ r.unqueued = request[w].unqueued
        /\ r.found = request[w].found /\ r.issues = request[w].issues
    BY <1>2, OtherwiseSame DEF SettingAt
  <2>2. InLimits(r, g) <=> InLimits(request[w], Mine(w))
    BY <1>3, <2>1 DEF InLimits, Validated
  <2> HIDE DEF r, g
  <2> QED
    BY <1>1, <1>2, <1>3, <1>4, <2>1, <2>2 DEF SetsItsValue
<1> QED
  BY <1>3, <1>4, ChangeStep DEF SwitchBack, SettingAt, Validating, Queueing

(* Alone, w judges what it has set, and what it found in the queue, in the *)
(* snapshot it has taken.                                                  *)
LEMMA JudgedAlone ==
    ASSUME ServerInvariant, NEW w \in Worker, request[w].at = "validate", ~disturbed[w]
    PROVE  /\ Mine(w).toValidate = Validated(request[w])
           /\ Served(Mine(w)) = Mine(w).live
<1>1. SetsItsValue(request[w], Mine(w))
  BY SettingNow DEF SettingAt
<1> QED
  BY <1>1 DEF SetsItsValue, Served

LEMMA ValidateKeeps ==
    ASSUME ServerInvariant, NEW w \in Worker, Validate(w)
    PROVE  ServerInvariant'
<1> DEFINE s == request[w]
           g == Mine(w)
           found == Issues(g)
           r == [s EXCEPT !.at = "clear", !.issues = found]
<1>1. s.at = "validate" /\ Step(w, r, g)
  BY DEF Validate, At
<1>2. /\ s \in Setting /\ g \in Graph
      /\ ~disturbed[w] => SetsItsValue(s, g)
  BY <1>1, SettingNow DEF SettingAt
<1>3. found \subseteq Fact
  BY <1>2 DEF Issues, Graph
<1> HIDE DEF found
<1>4. /\ r \in Setting /\ r.graph = s.graph /\ r.facts = s.facts /\ r.at = "clear"
      /\ r.value = s.value /\ r.todo = s.todo /\ r.unqueued = s.unqueued
      /\ r.found = s.found /\ r.issues = found
  BY <1>2, <1>3 DEF Setting, SettingAt
<1>5. ASSUME ~disturbed[w] PROVE SetsItsValue(r, g)
  <2>1. Validated(r) = Validated(s)
    BY <1>4 DEF Validated
  <2>2. g.toValidate = Validated(s) /\ Served(g) = g.live
    BY <1>1, <1>5, JudgedAlone
  <2>3. found = {} <=> InLimits(r, g)
    BY <2>1, <2>2 DEF found, Issues, InLimits
  <2> HIDE DEF r, g, s
  <2> QED
    BY <1>1, <1>2, <1>4, <1>5, <2>1, <2>3 DEF SetsItsValue
<1> HIDE DEF r
<1> QED
  BY <1>1, <1>2, <1>4, <1>5, GraphStep DEF Validating, Queueing

LEMMA PublishKeeps ==
    ASSUME ServerInvariant, NEW w \in Worker, Publish(w)
    PROVE  ServerInvariant'
<1> DEFINE r == Over(w, request[w].issues = {} \/ ~request[w].strict)
           g == IF request[w].issues = {} THEN [Mine(w) EXCEPT !.store = Mine(w).live]
                ELSE Mine(w)
<1>1. request[w].at = "publish" /\ Step(w, r, g)
  BY DEF Publish, At
<1>2. request[w] \in Setting /\ Mine(w) \in Graph
  BY <1>1, SettingNow DEF SettingAt
<1>3. r \in Between /\ r \notin Setting /\ r.graph = request[w].graph
  <2>1. request[w].graph \in 1 .. Len(graphs) /\ request[w].strict \in BOOLEAN
    BY <1>2 DEF Setting
  <2> QED
    BY <2>1 DEF Over, Between, Setting, SettingAt
<1>4. /\ g \in Graph /\ g.validating = Mine(w).validating
      /\ g.toValidate = Mine(w).toValidate /\ g.stuck = Mine(w).stuck
  BY <1>2 DEF Graph
<1> HIDE DEF r, g
<1> QED
  BY <1>1, <1>2, <1>3, <1>4, GraphStep DEF Validating, Queueing

-----------------------------------------------------------------------------
LEMMA SetRequestBegins ==
    ASSUME ServerInvariant, NEW g \in 1 .. Len(graphs), NEW T \in SUBSET Fact,
           NEW v \in Value \cup {Unset}, NEW strict \in BOOLEAN
    PROVE  /\ SetRequest(g, T, v, strict) \in Request
           /\ SetRequest(g, T, v, strict).at = "stage"
           /\ SetRequest(g, T, v, strict).graph = g
           /\ SetsItsValue(SetRequest(g, T, v, strict), graphs[g])
<1> DEFINE r == SetRequest(g, T, v, strict)
<1>1. graphs[g] \in Graph
  BY DEF ServerInvariant, TypeOK
<1>2. /\ r.at = "stage" /\ r.graph = g /\ r.facts = T /\ r.todo = T /\ r.unqueued = {}
      /\ r.found = graphs[g].toValidate
  BY DEF SetRequest
<1>3. r \in Setting
  BY <1>1 DEF SetRequest, Setting, SettingAt, Graph
<1>4. Validated(r) \ ((r.todo \cup r.unqueued) \ r.found) = r.found
  BY <1>2 DEF Validated
<1>5. SetsItsValue(r, graphs[g])
  <2> HIDE DEF r
  <2> QED
    BY <1>2, <1>4 DEF SetsItsValue
<1> QED
  BY <1>2, <1>3, <1>5 DEF Request

LEMMA IdleReplacesNothing == Idle \in Request /\ Idle \notin Setting /\ ReplacesTheCurrent(Idle)'
  BY IdleIsRequest DEF Setting, SettingAt, ReplacesTheCurrent

LEMMA BeginningKeeps ==
    ASSUME ServerInvariant, NEW w \in Worker, NEW T \in SUBSET Fact,
           NEW v \in Value \cup {Unset}, BeginSet(w, T, v) \/ NextOfBatch(w, T, v)
    PROVE  ServerInvariant'
<1> USE DEF Validating, Queueing
<1>1. TypeOK /\ request[w] \in Request
  BY DEF ServerInvariant
<1>2. CASE BeginSet(w, T, v)
  <2> PICK r : r = SetRequest(currentGraph, T, v, TRUE)
    OBVIOUS
  <2>1. currentGraph \in 1 .. Len(graphs)
    BY <1>1, <1>2 DEF BeginSet, TypeOK
  <2>2. r \in Request /\ r.at = "stage" /\ SetsItsValue(r, graphs[r.graph])
    <3>1. /\ r \in Request /\ r.at = "stage" /\ r.graph = currentGraph
          /\ SetsItsValue(r, graphs[currentGraph])
      BY <2>1, SetRequestBegins, Zenon
    <3> QED
      BY <3>1
  <2>3. ReplacesTheCurrent(r)'
    BY <2>2 DEF ReplacesTheCurrent
  <2>4. Moves(w, r) /\ request[w].at = "idle"
    BY <1>2, <2>2 DEF BeginSet, Begin, Moves, At
  <2> QED
    BY <1>1, <1>2, <2>2, <2>3, <2>4, QuietStep DEF BeginSet, served, TypeOK
<1>3. CASE NextOfBatch(w, T, v)
  <2> PICK r : r = SetRequest(request[w].graph, T, v, TRUE)
    OBVIOUS
  <2>1. request[w] \in Between
    BY <1>1, <1>3, RequestAt DEF NextOfBatch, At
  <2>2. request[w].graph \in 1 .. Len(graphs)
    BY <2>1 DEF Between
  <2>3. r \in Request /\ r.at = "stage" /\ SetsItsValue(r, graphs[r.graph])
    <3>1. /\ r \in Request /\ r.at = "stage" /\ r.graph = request[w].graph
          /\ SetsItsValue(r, graphs[request[w].graph])
      BY <2>2, SetRequestBegins, Zenon
    <3> QED
      BY <3>1
  <2>4. ReplacesTheCurrent(r)'
    BY <2>3 DEF ReplacesTheCurrent
  <2>5. Moves(w, r) /\ request[w].at = "next"
    BY <1>3, <2>3 DEF NextOfBatch, Moves, At
  <2> QED
    BY <1>1, <1>3, <2>3, <2>4, <2>5, QuietStep DEF NextOfBatch, served, TypeOK
<1> QED
  BY <1>2, <1>3

LEMMA EditKeeps ==
    ASSUME ServerInvariant, NEW w \in Worker,
           \/ \E p \in Fact : BeginEdit(w, p)
           \/ \E v \in Value : ReadCollection(w, v)
    PROVE  ServerInvariant'
<1> USE DEF Validating, Queueing
<1>1. TypeOK /\ request[w] \in Request
  BY DEF ServerInvariant
<1>2. ASSUME NEW p \in Fact, BeginEdit(w, p) PROVE ServerInvariant'
  <2> PICK r : r = [at |-> "read", graph |-> currentGraph, fact |-> p]
    OBVIOUS
  <2>1. currentGraph \in 1 .. Len(graphs)
    BY <1>1, <1>2 DEF BeginEdit, TypeOK
  <2>2. r \in Request /\ r.at = "read" /\ r \notin Setting
    BY <2>1 DEF Request, Reading, Setting, SettingAt
  <2>3. ReplacesTheCurrent(r)'
    BY <2>2 DEF ReplacesTheCurrent
  <2>4. Moves(w, r) /\ request[w].at = "idle"
    BY <1>2, <2>2 DEF BeginEdit, Begin, Moves, At
  <2> QED
    BY <1>1, <1>2, <2>2, <2>3, <2>4, QuietStep DEF BeginEdit, served, TypeOK
<1>3. ASSUME NEW v \in Value, ReadCollection(w, v) PROVE ServerInvariant'
  <2>1. request[w] \in Reading /\ request[w].at = "read"
    BY <1>1, <1>3, RequestAt DEF ReadCollection, At
  <2>2. request[w].graph \in 1 .. Len(graphs) /\ request[w].fact \in Fact
    BY <2>1 DEF Reading
  <2> PICK r : r = SetRequest(request[w].graph, {request[w].fact}, v, FALSE)
    OBVIOUS
  <2>3. r \in Request /\ r.at = "stage" /\ SetsItsValue(r, graphs[r.graph])
    <3>1. /\ r \in Request /\ r.at = "stage" /\ r.graph = request[w].graph
          /\ SetsItsValue(r, graphs[request[w].graph])
      BY <2>2, SetRequestBegins, Zenon
    <3> QED
      BY <3>1
  <2>4. ReplacesTheCurrent(r)'
    BY <2>3 DEF ReplacesTheCurrent
  <2>5. Moves(w, r)
    BY <1>3, <2>1, <2>3 DEF ReadCollection, Moves, At
  <2> QED
    BY <1>1, <1>3, <2>1, <2>3, <2>4, <2>5, QuietStep DEF ReadCollection, served, TypeOK
<1> QED
  BY <1>2, <1>3

LEMMA SetKeeps ==
    ASSUME ServerInvariant, NEW w \in Worker, Set(w)
    PROVE  ServerInvariant'
<1>1. TypeOK
  BY DEF ServerInvariant
<1>2. ASSUME EndSet(w) PROVE ServerInvariant'
  <2>1. Moves(w, Idle) /\ request[w].at = "next"
    BY <1>2 DEF EndSet, Moves, At
  <2> QED
    BY <1>1, <1>2, <2>1, QuietStep, IdleReplacesNothing
       DEF EndSet, served, TypeOK, Validating, Queueing
<1> QED
  BY <1>2, BeginningKeeps, EditKeeps, StageKeeps, RefuseKeeps, EnqueueKeeps, SnapshotKeeps,
     SwitchKeeps, ValidateKeeps, ValidateThrowsKeeps, ClearKeeps, SwitchBackKeeps, PublishKeeps
     DEF Set

LEMMA ReplaceKeeps ==
    ASSUME ServerInvariant, NEW w \in Worker, Replace(w)
    PROVE  ServerInvariant'
<1> USE DEF Validating, Queueing
<1>1. TypeOK /\ request[w] \in Request
  BY DEF ServerInvariant
<1>2. ASSUME NEW d \in Dictionary, LoadDictionary(w, d) PROVE ServerInvariant'
  <2> DEFINE r == [at |-> "replace graph", dictionary |-> d]
  <2>1. r \in Request /\ r \notin Setting /\ r.at = "replace graph" /\ r.dictionary = d
    BY DEF Request, Loading, Setting, SettingAt
  <2>2. Moves(w, r) /\ request[w].at = "idle"
    BY <1>2, <2>1 DEF LoadDictionary, Begin, Moves, At
  <2>3. ReplacesTheCurrent(r)'
    BY <1>2, <2>1 DEF LoadDictionary, ReplacesTheCurrent
  <2> HIDE DEF r
  <2> QED
    BY <1>1, <1>2, <2>1, <2>2, <2>3, QuietStep DEF LoadDictionary, TypeOK
<1>3. ASSUME NEW facts \in Files \cup {NoFacts}, BeginInstall(w, facts) PROVE ServerInvariant'
  <2> PICK r : r = [at |-> "install", dictionary |-> currentDictionary, facts |-> facts]
    OBVIOUS
  <2>1. currentDictionary \in Dictionary /\ facts \in Facts
    BY <1>1, <1>3, NoFactsType, ServerAssumption DEF BeginInstall, TypeOK, Facts
  <2>2. /\ r \in Request /\ r \notin Setting /\ r.at = "install"
        /\ r.dictionary = currentDictionary
    BY <2>1 DEF Request, Placing, Setting, SettingAt
  <2>3. Moves(w, r) /\ request[w].at = "idle"
    BY <1>3, <2>2 DEF BeginInstall, Begin, Moves, At
  <2>4. ReplacesTheCurrent(r)'
    BY <1>3, <2>2 DEF BeginInstall, ReplacesTheCurrent, served
  <2> QED
    BY <1>1, <1>3, <2>2, <2>3, <2>4, QuietStep DEF BeginInstall, served, TypeOK
<1>4. ASSUME ReplaceGraph(w) PROVE ServerInvariant'
  <2> DEFINE r == [request[w] EXCEPT !.at = "index"]
             d == request[w].dictionary
  <2>1. request[w] \in Loading /\ request[w].at = "replace graph" /\ d \in Dictionary
    BY <1>1, <1>4, RequestAt DEF ReplaceGraph, At, Loading
  <2>2. r \in Loading /\ r.at = "index" /\ r.dictionary = d
    BY <2>1 DEF Loading
  <2>3. Moves(w, r) /\ disturbed' = disturbed
    BY <1>4, <2>1, <2>2 DEF ReplaceGraph, Goto, Moves, At
  <2>4. ~disturbed[w] => d = currentDictionary
    BY <2>1 DEF ServerInvariant, ReplacesTheCurrent
  <2> HIDE DEF r
  <2> QED
    BY <1>4, <2>1, <2>2, <2>3, <2>4, NoFactsType, InstallStep DEF ReplaceGraph
<1>5. ASSUME BuildDependencyIndexes(w) PROVE ServerInvariant'
  <2>1. request[w] \in Loading /\ request[w].at = "index"
    BY <1>1, <1>5, RequestAt DEF BuildDependencyIndexes, At
  <2>2. request[w].dictionary \in Dictionary
    BY <2>1 DEF Loading
  <2>3. Moves(w, Idle)
    BY <1>5, <2>1 DEF BuildDependencyIndexes, Moves, At
  <2> QED
    BY <1>1, <1>5, <2>1, <2>2, <2>3, QuietStep, IdleReplacesNothing DEF BuildDependencyIndexes, TypeOK
<1>6. ASSUME Install(w) PROVE ServerInvariant'
  <2>1. request[w] \in Placing /\ request[w].at = "install"
    BY <1>1, <1>6, RequestAt DEF Install, At
  <2>2. request[w].dictionary \in Dictionary /\ request[w].facts \in Facts
    BY <2>1 DEF Placing
  <2>3. Moves(w, Idle)
    BY <1>6, <2>1 DEF Install, Moves, At
  <2> QED
    BY <1>6, <2>1, <2>2, <2>3, InstallStep DEF Install
<1> QED
  BY <1>2, <1>3, <1>4, <1>5, <1>6 DEF Replace

LEMMA StepServerInvariant == ServerInvariant /\ [Next]_vars => ServerInvariant'
<1> SUFFICES ASSUME ServerInvariant, [Next]_vars PROVE ServerInvariant'
  OBVIOUS
<1>1. CASE Next
  BY <1>1, SetKeeps, ReplaceKeeps DEF Next
<1>2. CASE UNCHANGED vars
  <2>1. /\ currentDictionary' = currentDictionary /\ currentGraph' = currentGraph
        /\ indexed' = indexed /\ graphs' = graphs /\ request' = request /\ disturbed' = disturbed
    BY <1>2 DEF vars, served
  <2>2. TypeOK' /\ Request' = Request
    BY <2>1 DEF ServerInvariant, TypeOK, Request, Setting, Reading, Between
  <2>3. PersisterRests'
    <3>1. \A u, g : On(u, g)' = On(u, g)
      BY <2>1 DEF On, At
    <3>2. PersisterRests
      BY DEF ServerInvariant
    <3>3. PersisterRests' <=> PersisterRests
      BY ONLY <2>1, <3>1 DEF PersisterRests, RestsAt
    <3> QED
      BY <3>2, <3>3
  <2>4. Alone'
    BY <2>1 DEF ServerInvariant, Alone, At, Busy
  <2>5. ASSUME NEW w \in Worker, ~disturbed'[w]
        PROVE  /\ request'[w] \in Setting' => SetsItsValue(request[w], Mine(w))'
               /\ ReplacesTheCurrent(request[w])'
    <3>1. Setting' = Setting /\ Mine(w)' = Mine(w)
      BY <2>1 DEF Setting, Mine
    <3>2. SetsItsValue(request[w], Mine(w))' = SetsItsValue(request[w], Mine(w))
      BY <2>1, <3>1 DEF SetsItsValue, InLimits, Validated
    <3>3. ReplacesTheCurrent(request[w])' = ReplacesTheCurrent(request[w])
      BY <2>1 DEF ReplacesTheCurrent
    <3> QED
      BY <2>1, <2>5, <3>1, <3>2, <3>3 DEF ServerInvariant
  <2>6. request' \in [Worker -> Request']
    BY <2>1, <2>2 DEF ServerInvariant
  <2> QED
    BY ONLY <2>2, <2>3, <2>4, <2>5, <2>6 DEF ServerInvariant
<1> QED
  BY <1>1, <1>2

-----------------------------------------------------------------------------
(* The invariant the others rest on, for any number of threads, any        *)
(* dictionaries and any number of graphs: what a request holds exists,     *)
(* each persister comes to rest, and a worker that no other request has    *)
(* disturbed finds in its graph what it has put there                      *)
(* (FactGraphServer.scala:52-57, 640-720).                                 *)
THEOREM ServerInvariantHolds == Spec => []ServerInvariant
  BY InitServerInvariant, StepServerInvariant, PTL DEF Spec

(* The state the handlers share keeps its type.                            *)
THEOREM TypeCorrect == Spec => []TypeOK
<1>1. ServerInvariant => TypeOK
  BY DEF ServerInvariant
<1> QED
  BY <1>1, ServerInvariantHolds, PTL

(* Whatever overlaps and whatever throws, reads are switched to a snapshot *)
(* only while some request is validating, and a fact is queued only while  *)
(* some request has yet to clear the queue, or after an exception, until a *)
(* save() gets past its validation (InMemoryPersister.scala:176-181).      *)
THEOREM PersistersComeToRest == Spec => []PersisterRests
<1>1. ServerInvariant => PersisterRests
  BY DEF ServerInvariant
<1> QED
  BY <1>1, ServerInvariantHolds, PTL

LEMMA OthersKeepTheirs ==
    ASSUME ServerInvariant, NEW u \in Worker, Set(u) \/ Replace(u), NEW w \in Worker \ {u}
    PROVE  request'[w] = request[w]
<1>1. request \in [Worker -> Request]
  BY DEF ServerInvariant
<1>2. ASSUME NEW r, request' = [request EXCEPT ![u] = r] PROVE request'[w] = request[w]
  BY <1>1, <1>2
<1>3. CASE Set(u)
  BY <1>2, <1>3 DEF Set, BeginSet, NextOfBatch, BeginEdit, ReadCollection, Stage, Refuse,
     Enqueue, Snapshot, Switch, Validate, ValidateThrows, Clear, SwitchBack, Publish, EndSet,
     Change, Step, Begin, Answer
<1>4. CASE Replace(u)
  BY <1>2, <1>4 DEF Replace, LoadDictionary, BeginInstall, ReplaceGraph,
     BuildDependencyIndexes, Install, Begin, Goto, Answer
<1> QED
  BY <1>3, <1>4

(* The statement a worker is at is the one it takes.                       *)
LEMMA OwnStatement ==
    ASSUME NEW w \in Worker, Set(w) \/ Replace(w)
    PROVE  /\ At(w, "validate") => Validate(w) \/ ValidateThrows(w)
           /\ At(w, "publish") => Publish(w)
           /\ At(w, "index") => BuildDependencyIndexes(w)
           /\ At(w, "install") => Install(w)
<1>1. CASE Set(w)
  BY <1>1 DEF Set, BeginSet, NextOfBatch, BeginEdit, ReadCollection, Stage, Refuse,
     Enqueue, Snapshot, Switch, Validate, ValidateThrows, Clear, SwitchBack, Publish, EndSet,
     Change, Begin, At
<1>2. CASE Replace(w)
  BY <1>2 DEF Replace, LoadDictionary, BeginInstall, ReplaceGraph,
     BuildDependencyIndexes, Install, Begin, At
<1> QED
  BY <1>1, <1>2

(* A set that no other request overlaps answers what it did, whatever      *)
(* state overlapping requests and exceptions left the graph in: it         *)
(* publishes the edited map, its value included, exactly when every fact   *)
(* it validates is within its limits, and leaves the graph at rest; when   *)
(* it fails with an exception of a limit, some validated fact is at fault  *)
(* and nothing is published (FactGraphServer.scala:459-475, 645-660,       *)
(* 784-803).                                                               *)
THEOREM UndisturbedSetsAreRight == Spec => UndisturbedSetIsRight
<1>1. ASSUME ServerInvariant, Next, NEW w \in Worker, ~disturbed[w] PROVE SetIsRight(w)
  <2> DEFINE s == request[w]
             g == Mine(w)
             after == graphs'[s.graph]
  <2>1. ASSUME s.at \in {"validate", "publish"}, request'[w].at = "next"
        PROVE  /\ s \in Setting /\ g \in Graph /\ SetsItsValue(s, g)
               /\ s.at = "publish" => Publish(w)
               /\ s.at = "validate" => ValidateThrows(w)
    <3>1. PICK u \in Worker : Set(u) \/ Replace(u)
      BY <1>1 DEF Next
    <3>2. u = w
      BY <1>1, <2>1, <3>1, OthersKeepTheirs
    <3>3. s \in Setting /\ g \in Graph /\ SetsItsValue(s, g)
      BY <1>1, <2>1, SettingNow DEF SettingAt
    <3>4. ~Validate(w)
      <4>1. ASSUME Validate(w) PROVE request'[w].at = "clear"
        BY <1>1, <3>3, <4>1 DEF Validate, Step, ServerInvariant, Setting
      <4> QED
        BY <2>1, <4>1
    <3> QED
      BY <1>1, <3>1, <3>2, <3>3, <3>4, OwnStatement DEF At
  <2>2. ASSUME s.at = "publish", request'[w].at = "next"
        PROVE  /\ after.store = IF InLimits(s, g) THEN g.live ELSE g.store
               /\ \A p \in s.facts : g.live[p] = s.value
               /\ request'[w].success <=> InLimits(s, g) \/ ~s.strict
               /\ after.toValidate = {} /\ ~after.validating
    <3>1. s \in Setting /\ g \in Graph /\ SetsItsValue(s, g) /\ Publish(w)
      BY <2>1, <2>2
    <3>2. /\ s.issues = {} <=> InLimits(s, g)
          /\ s.todo = {} /\ \A p \in s.facts \ s.todo : g.live[p] = s.value
          /\ g.toValidate = {} /\ ~g.validating
      BY <2>2, <3>1 DEF SetsItsValue
    <3>3. after = IF s.issues = {} THEN [g EXCEPT !.store = g.live] ELSE g
      BY <1>1, <3>1, OwnGraph DEF Publish, Step, ServerInvariant, TypeOK
    <3>4. request'[w].success <=> s.issues = {} \/ ~s.strict
      BY <1>1, <3>1 DEF Publish, Step, Over, ServerInvariant
    <3>5. /\ after.store = IF s.issues = {} THEN g.live ELSE g.store
          /\ after.toValidate = g.toValidate /\ after.validating = g.validating
      BY <3>1, <3>3 DEF Graph
    <3> HIDE DEF s, g, after
    <3> QED
      BY <3>2, <3>4, <3>5
  <2>3. ASSUME s.at = "validate", request'[w].at = "next"
        PROVE  /\ after.store = g.store /\ ~request'[w].success
               /\ \E p \in Validated(s) : g.live \in Throwing[g.dictionary][p]
    <3>1. s \in Setting /\ g \in Graph /\ ValidateThrows(w)
      BY <2>1, <2>3
    <3>2. after = [g EXCEPT !.stuck = {"queue", "mode"}] /\ request'[w] = Over(w, FALSE)
      BY <1>1, <3>1, OwnGraph DEF ValidateThrows, Step, ServerInvariant, TypeOK
    <3>3. after.store = g.store /\ ~request'[w].success
      BY <3>1, <3>2 DEF Graph, Over
    <3>4. g.toValidate = Validated(s) /\ Served(g) = g.live
      BY <1>1, <2>3, JudgedAlone
    <3> QED
      BY <3>1, <3>3, <3>4 DEF ValidateThrows, Throws
  <2> HIDE DEF after
  <2> QED
    BY <2>2, <2>3 DEF SetIsRight, At, after
<1>2. ServerInvariant /\ [Next]_vars => [\A w \in Worker : ~disturbed[w] => SetIsRight(w)]_vars
  BY <1>1
<1> QED
  BY <1>2, ServerInvariantHolds, PTL DEF Spec, UndisturbedSetIsRight

(* Loading a dictionary, resetting or loading the graph, undisturbed,      *)
(* leaves the current graph to be of the current dictionary, and the first *)
(* leaves indexes that are too (FactGraphServer.scala:155-169, 695-717).   *)
THEOREM UndisturbedSwapsAgree == Spec => UndisturbedSwapAgrees
<1> DEFINE Agrees(w) ==
        /\ request[w].at \in {"index", "install"} =>
              graphs'[currentGraph'].dictionary = currentDictionary'
        /\ At(w, "index") => indexed' = currentDictionary'
<1>1. ASSUME ServerInvariant, Next, NEW w \in Worker, ~disturbed[w], request'[w] = Idle
      PROVE  Agrees(w)
  <2> SUFFICES ASSUME request[w].at \in {"index", "install"} PROVE Agrees(w)
    BY DEF At
  <2>1. PICK u \in Worker : Set(u) \/ Replace(u)
    BY <1>1 DEF Next
  <2>2. u = w
    BY <1>1, <2>1, OthersKeepTheirs, IdleIsRequest
  <2>3. /\ request[w].dictionary = currentDictionary
        /\ At(w, "index") => graphs[currentGraph].dictionary = currentDictionary
    BY <1>1 DEF ServerInvariant, ReplacesTheCurrent, At
  <2>4. CASE At(w, "index")
    BY <2>1, <2>2, <2>3, <2>4, OwnStatement DEF BuildDependencyIndexes, At
  <2>5. CASE At(w, "install")
    <3>1. Install(w)
      BY <2>1, <2>2, <2>5, OwnStatement
    <3>2. request[w] \in Placing
      BY <1>1, <2>5, RequestAt DEF ServerInvariant, At
    <3>3. NewGraph(request[w].dictionary, request[w].facts) \in Graph
      BY <3>2, NewGraphType DEF Placing
    <3>4. graphs'[currentGraph'] = NewGraph(request[w].dictionary, request[w].facts)
      BY <1>1, <3>1, <3>3, AppendProperties DEF Install, InstallGraph, ServerInvariant, TypeOK
    <3> QED
      BY <2>3, <2>5, <3>1, <3>4 DEF Install, NewGraph, At
  <2> QED
    BY <2>4, <2>5 DEF At
<1>2. ServerInvariant /\ [Next]_vars =>
        [\A w \in Worker : ~disturbed[w] /\ request'[w] = Idle => Agrees(w)]_vars
  BY <1>1
<1> QED
  BY <1>2, ServerInvariantHolds, PTL DEF Spec, UndisturbedSwapAgrees
=============================================================================

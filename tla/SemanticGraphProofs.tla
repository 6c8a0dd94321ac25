------------------------ MODULE SemanticGraphProofs ------------------------
(***************************************************************************)
(* Proofs about SemanticGraph, for every set of names, spellings and       *)
(* callers and any number of operations, restarts and failures: the graph  *)
(* in memory shows what is durable, agrees with the backend when nothing   *)
(* is under way, and has no name in two spellings.                         *)
(***************************************************************************)
EXTENDS SemanticGraph, TLAPS

-----------------------------------------------------------------------------
(* Types and control: where an operation is says what it is and which lock *)
(* it holds.                                                               *)

Adding  == {"nodes", "edges"}
Reading == {"load", "rows", "links", "linked"}
Writing == {"save", "saved"}
Leaving == {"cut", "delete", "deleted"}

Rows == [nodes : SUBSET Keys, edges : SUBSET Edges]

Shape(c) ==
    /\ call[c] = NoCall <=> call[c].at = "idle"
    /\ call[c].op = "none" <=> call[c].at = "idle"
    /\ call[c].op \in {"nodes", "remove_node"} => call[c].edges = {}
    /\ call[c].op \in {"edges", "remove_edge"} => call[c].nodes = {}
    /\ call[c].at \in Writing \cup {"lock"} => call[c].op \in Adding
    /\ call[c].at \in Leaving => call[c].op \in Removal
    /\ call[c].at = "delete" => call[c].op = "remove_node"
    /\ call[c].at \in Reading <=> loader = c
    /\ call[c].at \in Writing <=> writer = c

Stored ==
    /\ dbNodes \subseteq Keys /\ dbEdges \subseteq Edges
    /\ nodes \subseteq Keys /\ bare \subseteq Keys /\ edges \subseteq Edges
    /\ rows \in Rows

Counted ==
    /\ loaded \in BOOLEAN /\ raced \in BOOLEAN /\ mixed \in BOOLEAN
    /\ faults \in Nat /\ calls \in Nat

TypeOK == Stored /\ Counted /\ call \in [Clients -> Call]

Control == TypeOK /\ \A c \in Clients : Shape(c)

-----------------------------------------------------------------------------
(* While no removal ran beside another operation and nothing failed.       *)

\* A removal is the only operation under way.
Alone == \A c, d \in Clients :
            (c # d /\ call[c] # NoCall /\ call[d] # NoCall) => call[c].op \notin Removal

\* Until the graph is loaded nothing is in it but what the loader has put there, and
\* no operation has gone further; the backend does not change meanwhile.
Loading ==
    /\ ~loaded =>
          /\ \A c \in Clients : call[c].at \in {"idle", "start"} \cup Reading
          /\ bare = {} /\ edges = {}
          /\ (\A c \in Clients : call[c].at \notin {"links", "linked"}) => nodes = {}
          /\ faults = 0 => dbNodes = {} /\ dbEdges = {}
    /\ loaded => loader = None
    /\ loader = None => rows = NoRows

\* What each operation has done to the backend.
Effect(c) ==
    /\ call[c].at \in {"rows", "links", "linked"} => rows.nodes = dbNodes
    /\ call[c].at \in {"links", "linked"} => nodes = dbNodes
    /\ call[c].at = "linked" => rows.edges = dbEdges
    /\ call[c].at = "saved" => call[c].nodes \subseteq dbNodes /\ call[c].edges \subseteq dbEdges
    /\ call[c].at = "deleted" => call[c].nodes \cap dbNodes = {}
    /\ call[c].at \in {"delete", "deleted"} =>
          \A e \in dbEdges : e \notin call[c].edges /\ Ends({e}) \cap call[c].nodes = {}

\* The graph is the backend, but for the operations between the one and the other.
Mirror ==
    /\ \A k \in nodes : k \in dbNodes
          \/ \E c \in Clients : call[c].at = "deleted" /\ k \in call[c].nodes
    /\ \A e \in edges : e \in dbEdges
          \/ \E c \in Clients : /\ call[c].at \in {"delete", "deleted"}
                                /\ e \in call[c].edges \/ Ends({e}) \cap call[c].nodes # {}
    /\ loaded =>
          /\ \A k \in dbNodes : k \in nodes
                \/ \E c \in Clients : call[c].at = "saved" /\ k \in call[c].nodes
          /\ faults = 0 => \A e \in dbEdges : e \in edges
                \/ \E c \in Clients : call[c].at = "saved" /\ e \in call[c].edges

Sound == Alone /\ Loading /\ (\A c \in Clients : Effect(c)) /\ Mirror

Calm == ~raced => Sound

-----------------------------------------------------------------------------
(* ... and no batch wrote a name in two ways.                              *)

OneWay(K) == \A k, l \in K : lower(k) = lower(l) => k = l

\* The operation in the write lock writes every name as the graph does.
SpelledCall(c) ==
    /\ OneWay(Ends(call[c].edges))
    /\ call[c].at \in Writing => OneWay(Present \cup call[c].nodes \cup Ends(call[c].edges))

Spelt == OneWay(Present) /\ OneWay(dbNodes) /\ \A c \in Clients : SpelledCall(c)

Spelled == (~raced /\ ~mixed) => Spelt

-----------------------------------------------------------------------------
(* The write lock's spelling.                                              *)

\* The other operations stay where they are.
Others(c) == call' \in [Clients -> Call] /\ \A d \in Clients \ {c} : call'[d] = call[d]

\* What the write lock makes of a request: the names as P has them, one way for each.
Canonical(c, P) ==
    /\ Others(c)
    /\ call'[c].at = "save" /\ call'[c].op = call[c].op
    /\ call[c].nodes = {} => call'[c].nodes = {}
    /\ call[c].edges = {} => call'[c].edges = {}
    /\ (OneWay(P) /\ OneWay(Ends(call[c].edges)) /\ (call[c].nodes = {} \/ call[c].edges = {})) =>
          /\ OneWay(P \cup call'[c].nodes \cup Ends(call'[c].edges))
          /\ OneWay(Ends(call'[c].edges))

\* The names of a request in the write lock: known ones as the graph writes them, and
\* a name the graph does not know in one way, provided the request has it in one way.
LEMMA CanonicalNames ==
    ASSUME Control, NEW c \in Clients, NEW P, P \subseteq Keys, Canonicalise(c, P)
    PROVE  Canonical(c, P)
<1>1. PICK f \in Lookups(P, call[c].nodes) :
        call' = [call EXCEPT ![c].at    = "save",
                             ![c].nodes = {f[lower(k)] : k \in @},
                             ![c].edges = {<<IF \E l \in P : lower(l) = lower(e[1]) THEN f[lower(e[1])] ELSE e[1],
                                             IF \E l \in P : lower(l) = lower(e[2]) THEN f[lower(e[2])] ELSE e[2]>>
                                           : e \in @}]
  BY DEF Canonicalise
<1> DEFINE end(k) == IF \E l \in P : lower(l) = lower(k) THEN f[lower(k)] ELSE k
           K == {f[lower(k)] : k \in call[c].nodes}
           E == {<<end(e[1]), end(e[2])>> : e \in call[c].edges}
           r == [call[c] EXCEPT !.at = "save", !.nodes = K, !.edges = E]
<1>2. call[c] \in Call
  BY DEF Control, TypeOK
<1>3. f \in [Names -> Keys] /\ \A n \in Names : lower(f[n]) = n
  BY DEF Lookups
<1>4. \A k \in Keys : lower(k) \in Names /\ f[lower(k)] \in Keys /\ lower(f[lower(k)]) = lower(k)
  <2>1. \A k \in Keys : lower(k) \in Names
    BY DEF Keys, lower
  <2> QED BY <1>3, <2>1
<1>5. \A k \in Keys : end(k) \in Keys /\ lower(end(k)) = lower(k)
  BY <1>4
<1>6. K \subseteq Keys
  BY <1>2, <1>4 DEF Call
<1>7. E \subseteq Edges
  <2> SUFFICES ASSUME NEW e \in call[c].edges
               PROVE  <<end(e[1]), end(e[2])>> \in Edges
    OBVIOUS
  <2>1. e \in Keys \X Keys /\ e[1][1] # e[2][1]
    BY <1>2 DEF Call, Edges
  <2>2. e[1] \in Keys /\ e[2] \in Keys
    BY <2>1
  <2>3. end(e[1]) \in Keys /\ end(e[2]) \in Keys /\ end(e[1])[1] # end(e[2])[1]
    BY <1>5, <2>1, <2>2 DEF lower
  <2> HIDE DEF end
  <2> QED BY <2>3 DEF Edges
<1> HIDE DEF K, E, end
<1>8. r \in Call /\ r.op = call[c].op /\ r.at = "save" /\ r.nodes = K /\ r.edges = E
  BY <1>2, <1>6, <1>7 DEF Call
<1>9. call' = [call EXCEPT ![c] = r]
  <2>1. call' = [call EXCEPT ![c].at = "save", ![c].nodes = K, ![c].edges = E]
    BY <1>1 DEF K, E, end
  <2> QED BY <2>1 DEF Control, TypeOK
<1> HIDE DEF r
<1>10. (call[c].nodes = {} => K = {}) /\ (call[c].edges = {} => E = {})
  BY DEF K, E
<1>11. ASSUME OneWay(P), OneWay(Ends(call[c].edges)), call[c].nodes = {} \/ call[c].edges = {}
       PROVE  OneWay(P \cup K \cup Ends(E)) /\ OneWay(Ends(E))
  <2>1. \A k \in K : \A l \in K \cup P : lower(k) = lower(l) => k = l
    <3>1. \A k \in K : lower(k) \in Names /\ k = f[lower(k)]
      BY <1>2, <1>4 DEF K, Call
    <3>2. \A n \in Names : \A l \in P : lower(l) = n => f[n] = l
      BY <1>3, <1>11 DEF Lookups, OneWay
    <3> QED BY <3>1, <3>2
  <2>2. \A k \in Ends(E) : \E x \in Ends(call[c].edges) : k = end(x)
    <3> SUFFICES ASSUME NEW g \in E
                 PROVE  \A k \in {g[1], g[2]} : \E x \in Ends(call[c].edges) : k = end(x)
      BY DEF Ends
    <3>1. PICK e \in call[c].edges : g = <<end(e[1]), end(e[2])>>
      BY DEF E
    <3>2. e[1] \in Ends(call[c].edges) /\ e[2] \in Ends(call[c].edges)
      BY DEF Ends
    <3>3. g[1] = end(e[1]) /\ g[2] = end(e[2])
      BY <3>1
    <3> QED BY <3>2, <3>3
  <2>3. Ends(call[c].edges) \subseteq Keys
    BY <1>2 DEF Call, Edges, Ends
  <2>4. \A x \in Ends(call[c].edges) : \A l \in P : lower(end(x)) = lower(l) => end(x) = l
    <3>1. \A n \in Names : \A l \in P : lower(l) = n => f[n] = l
      BY <1>3, <1>11 DEF Lookups, OneWay
    <3>2. \A x \in Ends(call[c].edges) : lower(x) \in Names /\ lower(end(x)) = lower(x)
      BY <1>4, <1>5, <2>3
    <3> QED BY <3>1, <3>2 DEF end
  <2>5. \A x, y \in Ends(call[c].edges) : lower(end(x)) = lower(end(y)) => end(x) = end(y)
    <3>1. \A x, y \in Ends(call[c].edges) : lower(end(x)) = lower(end(y)) => x = y
      BY <1>5, <1>11, <2>3 DEF OneWay
    <3> QED BY <3>1
  <2>6. \A k \in Ends(E) : \A l \in Ends(E) \cup P : lower(k) = lower(l) => k = l
    BY <2>2, <2>4, <2>5
  <2>7. K = {} \/ Ends(E) = {}
    BY <1>10, <1>11 DEF Ends
  <2> QED BY <1>11, <2>1, <2>6, <2>7 DEF OneWay
<1>12. call'[c] = r /\ Others(c)
  BY <1>8, <1>9 DEF Control, TypeOK, Others
<1> QED BY <1>8, <1>10, <1>11, <1>12 DEF Canonical
-----------------------------------------------------------------------------
(* Where an operation goes.                                                *)

Places == {"start", "load", "rows", "links", "linked",
           "lock", "save", "saved", "cut", "delete", "deleted"}

Moved(c, at) ==
    /\ Others(c)
    /\ call'[c].at = at /\ call'[c].op = call[c].op
    /\ call'[c].nodes = call[c].nodes /\ call'[c].edges = call[c].edges

Ended(c) ==
    /\ Others(c)
    /\ call'[c] = NoCall
    /\ call'[c].at = "idle" /\ call'[c].op = "none"
    /\ call'[c].nodes = {} /\ call'[c].edges = {}

Begun(c, op, K, E) ==
    /\ Others(c)
    /\ call'[c].at = "start" /\ call'[c].op = op
    /\ call'[c].nodes = K /\ call'[c].edges = E

\* An operation that goes on keeps what it was asked for.
LEMMA GoesOn ==
    ASSUME Control, NEW c \in Clients, NEW at \in Places, Goes(c, at)
    PROVE  Moved(c, at)
<1>1. call[c] \in Call
  BY DEF Control, TypeOK
<1>2. call' = [call EXCEPT ![c] = [call[c] EXCEPT !.at = at]]
  BY DEF Goes, Control, TypeOK
<1>3. [call[c] EXCEPT !.at = at] \in Call
  BY <1>1 DEF Call, Places
<1>4. Others(c) /\ call'[c] = [call[c] EXCEPT !.at = at]
  BY <1>2, <1>3 DEF Others, Control, TypeOK
<1> QED BY <1>1, <1>4 DEF Moved, Call

\* An operation that ends leaves nothing behind.
LEMMA Finishes ==
    ASSUME Control, NEW c \in Clients, Done(c)
    PROVE  Ended(c)
<1>1. NoCall \in Call
  BY DEF NoCall, Call
<1>2. Others(c) /\ call'[c] = NoCall
  BY <1>1 DEF Done, Others, Control, TypeOK
<1> QED BY <1>2 DEF Ended, NoCall

\* An operation that is submitted has not run yet.
LEMMA Begins ==
    ASSUME Control, NEW c \in Clients, NEW op \in Adding \cup Removal,
           NEW K \in SUBSET Keys, NEW E \in SUBSET Edges, Submit(c, op, K, E)
    PROVE  Begun(c, op, K, E)
<1> DEFINE r == [op |-> op, at |-> "start", nodes |-> K, edges |-> E]
<1>1. r \in Call
  BY DEF Call, Adding, Removal
<1>2. call' = [call EXCEPT ![c] = r]
  BY DEF Submit
<1>3. Others(c) /\ call'[c] = r
  BY <1>1, <1>2 DEF Others, Control, TypeOK
<1> QED BY <1>3 DEF Begun

\* The ways on from the loaded graph.
Proceeded(c, P) ==
    \/ call[c].op \in Adding /\ writer = None /\ writer' = c /\ Canonical(c, P)
    \/ call[c].op \in Adding /\ writer' = writer /\ Moved(c, "lock")
    \/ call[c].op \in Removal /\ writer' = writer /\ Moved(c, "cut")
    \/ call[c].op \in Removal /\ writer' = writer /\ Ended(c)

\* A caller past the load goes for the write lock, or removes.
LEMMA Proceeds ==
    ASSUME Control, NEW c \in Clients, NEW P \in SUBSET Keys, NEW E, Proceed(c, P, E)
    PROVE  Proceeded(c, P)
<1>1. CASE call[c].op \in {"nodes", "edges"} /\ writer = None /\ writer' = c /\ Canonicalise(c, P)
  BY <1>1, CanonicalNames DEF Proceeded, Adding
<1>2. CASE call[c].op \in {"nodes", "edges"} /\ writer' = writer /\ Goes(c, "lock")
  BY <1>2, GoesOn DEF Proceeded, Adding, Places
<1>3. CASE call[c].op \in Removal /\ writer' = writer /\ Goes(c, "cut")
  BY <1>3, GoesOn DEF Proceeded, Places
<1>4. CASE call[c].op \in Removal /\ writer' = writer /\ Done(c)
  BY <1>4, Finishes DEF Proceeded
<1> QED BY <1>1, <1>2, <1>3, <1>4 DEF Proceed, Removal
-----------------------------------------------------------------------------
(* Control is kept.                                                        *)

\* A step of one operation that leaves the locks of the others alone.
LEMMA OneShape ==
    ASSUME Control, NEW c \in Clients, Others(c), Shape(c)',
           \A d \in Clients \ {c} : (loader' = d <=> loader = d) /\ (writer' = d <=> writer = d)
    PROVE  \A d \in Clients : Shape(d)'
<1> SUFFICES ASSUME NEW d \in Clients, d # c
             PROVE  Shape(d)'
  OBVIOUS
<1>1. Shape(d) /\ call'[d] = call[d]
  BY DEF Control, Others
<1>2. (loader' = d <=> loader = d) /\ (writer' = d <=> writer = d)
  OBVIOUS
<1> QED BY <1>1, <1>2 DEF Shape

\* An operation on its way.
LEMMA UnderWay ==
    ASSUME Control, NEW c \in Clients, call[c].at # "idle"
    PROVE  /\ call[c] # NoCall /\ call[c].op # "none"
           /\ call[c].op \in Adding \cup Removal
           /\ (call[c].op \in {"nodes", "remove_node"} => call[c].edges = {})
           /\ (call[c].op \in {"edges", "remove_edge"} => call[c].nodes = {})
           /\ (call[c].nodes = {} \/ call[c].edges = {})
<1>1. Shape(c) /\ call[c] \in Call
  BY DEF Control, TypeOK
<1>2. call[c].op \in {"none"} \cup Adding \cup Removal
  BY <1>1 DEF Call, Adding, Removal
<1> QED BY <1>1, <1>2 DEF Shape, Adding, Removal

\* The shape of an operation that moves on.
LEMMA MovedShape ==
    ASSUME Control, NEW c \in Clients, call[c].at # "idle", NEW at \in Places, Moved(c, at),
           at \in Writing \cup {"lock"} => call[c].op \in Adding,
           at \in Leaving => call[c].op \in Removal,
           at = "delete" => call[c].op = "remove_node",
           at \in Reading <=> loader' = c, at \in Writing <=> writer' = c
    PROVE  Shape(c)'
<1>1. call[c].op # "none" /\ Shape(c)
  BY UnderWay DEF Control
<1>2. at # "idle" /\ NoCall.at = "idle"
  BY DEF Places, NoCall
<1> QED BY <1>1, <1>2 DEF Shape, Moved

\* The shape of an operation that ended, or was submitted, or writes.
LEMMA EndedShape ==
    ASSUME NEW c \in Clients, Ended(c), loader' # c, writer' # c
    PROVE  Shape(c)'
BY DEF Ended, Shape, Reading, Writing, Leaving

\* A caller that got the write lock.
LEMMA CanonicalShape ==
    ASSUME Control, NEW c \in Clients, call[c].at # "idle", NEW P, Canonical(c, P),
           call[c].op \in Adding, loader' # c, writer' = c
    PROVE  Shape(c)'
<1>1. call[c].op # "none" /\ Shape(c)
  BY UnderWay DEF Control
<1>2. NoCall.at = "idle"
  BY DEF NoCall
<1> QED BY <1>1, <1>2 DEF Shape, Canonical, Adding, Removal, Reading, Writing, Leaving

\* What a caller past the load leaves of the others.
LEMMA ProceededShapes ==
    ASSUME Control, NEW c \in Clients, NEW P, Proceeded(c, P),
           call[c].at \in {"start", "linked"},
           loader' # c, \A d \in Clients \ {c} : loader' = d <=> loader = d
    PROVE  Others(c) /\ \A d \in Clients : Shape(d)'
<1>1. Shape(c) /\ call[c].at # "idle"
  BY DEF Control
<1>2. writer # c /\ None \notin Clients
  BY <1>1, GraphAssumption DEF Shape, Writing
<1>3. Others(c)
  BY DEF Proceeded, Canonical, Moved, Ended
<1>4. Shape(c)' /\ \A d \in Clients \ {c} : writer' = d <=> writer = d
  <2>1. CASE call[c].op \in Adding /\ writer = None /\ writer' = c /\ Canonical(c, P)
    BY <1>1, <1>2, <2>1, CanonicalShape
  <2>2. CASE call[c].op \in Adding /\ writer' = writer /\ Moved(c, "lock")
    <3>1. "lock" \in Places /\ "lock" \notin Reading \cup Writing \cup Leaving
      BY DEF Places, Reading, Writing, Leaving
    <3> QED BY <1>1, <1>2, <2>2, <3>1, MovedShape
  <2>3. CASE call[c].op \in Removal /\ writer' = writer /\ Moved(c, "cut")
    <3>1. "cut" \in Places \cap Leaving /\ "cut" \notin Reading \cup Writing
      BY DEF Places, Reading, Writing, Leaving
    <3> QED BY <1>1, <1>2, <2>3, <3>1, MovedShape
  <2>4. CASE call[c].op \in Removal /\ writer' = writer /\ Ended(c)
    BY <1>2, <2>4, EndedShape
  <2> QED BY <2>1, <2>2, <2>3, <2>4 DEF Proceeded
<1> QED BY <1>3, <1>4, OneShape

\* An edge has its ends among the keys.
LEMMA EndsAreKeys ==
    \A E \in SUBSET Edges : Ends(E) \subseteq Keys
BY DEF Edges, Ends

\* An operation keeps types and control when it leaves the others where they are.
LEMMA KeepsControl ==
    ASSUME Control, Stored', Counted', NEW c \in Clients, Others(c), \A d \in Clients : Shape(d)'
    PROVE  Control'
BY DEF Control, TypeOK, Others

\* The request of an operation that is submitted.
LEMMA SubmitControl ==
    ASSUME Control, NEW c \in Clients, NEW op \in Adding \cup Removal,
           NEW K \in SUBSET Keys, NEW E \in SUBSET Edges, Submit(c, op, K, E),
           op \in {"nodes", "remove_node"} => E = {},
           op \in {"edges", "remove_edge"} => K = {}
    PROVE  Control'
<1>1. Begun(c, op, K, E) /\ Others(c)
  BY Begins DEF Begun
<1>2. call[c].at = "idle" /\ Shape(c)
  BY DEF Submit, NoCall, Control
<1>3. loader' # c /\ writer' # c
  BY <1>2 DEF Submit, load, Shape, Reading, Writing
<1>4. Shape(c)'
  <2>1. op # "none" /\ NoCall.at = "idle"
    BY DEF Adding, Removal, NoCall
  <2> QED BY <1>1, <1>3, <2>1 DEF Shape, Begun, Reading, Writing, Leaving
<1>5. \A d \in Clients : Shape(d)'
  BY <1>1, <1>4, OneShape DEF Submit, load
<1>6. Stored' /\ Counted'
  BY DEF Control, TypeOK, Stored, Counted, Submit, load, db, graph
<1> QED BY <1>1, <1>5, <1>6, KeepsControl

\* What callers ask for.
LEMMA InvokeControl ==
    ASSUME Control, NEW c \in Clients, Invoke(c)
    PROVE  Control'
<1> USE DEF Adding, Removal
<1>1. CASE \E k \in Keys : add_node(c, k)
  BY <1>1, SubmitControl DEF add_node
<1>2. CASE \E k \in Keys : remove_node(c, k)
  BY <1>2, SubmitControl DEF remove_node
<1>3. CASE \E e \in Edges : add_edge(c, e)
  BY <1>3, SubmitControl DEF add_edge
<1>4. CASE \E e \in Edges : remove_edge(c, e)
  BY <1>4, SubmitControl DEF remove_edge
<1>5. CASE \E k, l \in Keys : k # l /\ add_nodes_batch(c, {k, l})
  BY <1>5, SubmitControl DEF add_nodes_batch
<1>6. CASE \E e, g \in Edges : e # g /\ add_edges_batch(c, {e, g})
  BY <1>6, SubmitControl DEF add_edges_batch
<1> QED BY <1>1, <1>2, <1>3, <1>4, <1>5, <1>6 DEF Invoke

\* Entering the graph, loading it first if need be.
LEMMA LoadControl ==
    ASSUME Control, NEW c \in Clients,
           Start(c) \/ LoadBegin(c) \/ LoadNodes(c) \/ MergeNodes(c) \/ LoadEdges(c)
              \/ LoadEnd(c) \/ LoadFails(c)
    PROVE  Control'
<1> USE DEF Control, TypeOK
<1>a. Shape(c) /\ None \notin Clients /\ call[c] \in Call
  BY GraphAssumption
<1>b. Present \subseteq Keys
  BY DEF Stored, Present
<1>1. CASE Start(c)
  <2>1. Proceeded(c, Present) /\ call[c].at = "start" /\ UNCHANGED <<db, graph, load, bound>>
    BY <1>1, <1>b, Proceeds DEF Start
  <2>2. loader' = loader /\ loader # c
    BY <1>a, <2>1 DEF load, Shape, Reading
  <2>3. Others(c) /\ \A d \in Clients : Shape(d)'
    BY <2>1, <2>2, ProceededShapes
  <2>4. Stored' /\ Counted'
    BY <2>1 DEF db, graph, load, bound, Stored, Counted
  <2> QED BY <2>3, <2>4, KeepsControl
<1>2. CASE LoadBegin(c)
  <2>1. Moved(c, "load") /\ call[c].at = "start" /\ loader = None /\ loader' = c /\ writer' = writer
    BY <1>2, GoesOn DEF LoadBegin, Places
  <2>2. writer' # c
    BY <1>a, <2>1 DEF Shape, Writing
  <2>3. Shape(c)'
    <3>1. "load" \in Places \cap Reading /\ "load" \notin Writing \cup Leaving \cup {"lock"}
      BY DEF Places, Reading, Writing, Leaving
    <3> QED BY <2>1, <2>2, <3>1, MovedShape
  <2>4. Others(c) /\ \A d \in Clients : Shape(d)'
    BY <1>a, <2>1, <2>3, OneShape DEF Moved
  <2>5. Stored' /\ Counted'
    BY <1>2 DEF LoadBegin, db, graph, bound, Stored, Counted
  <2> QED BY <2>4, <2>5, KeepsControl
<1>3. ASSUME NEW at \in {"rows", "links", "linked"}, Goes(c, at), call[c].at \in Reading,
             UNCHANGED <<loader, writer>>, Stored', Counted'
      PROVE  Control'
  <2>1. Moved(c, at)
    BY <1>3, GoesOn DEF Places
  <2>2. loader' = c /\ writer' # c /\ call[c].at # "idle"
    BY <1>3, <1>a DEF Shape, Reading, Writing
  <2>3. at \in Places \cap Reading /\ at \notin Writing \cup Leaving \cup {"lock"}
    BY <1>3 DEF Places, Reading, Writing, Leaving
  <2>4. Shape(c)'
    BY <2>1, <2>2, <2>3, MovedShape
  <2>5. Others(c) /\ \A d \in Clients : Shape(d)'
    BY <1>3, <2>1, <2>4, OneShape DEF Moved
  <2> QED BY <1>3, <2>5, KeepsControl
<1>4. CASE LoadNodes(c)
  <2>1. Stored' /\ Counted'
    BY <1>4 DEF LoadNodes, db, graph, bound, Stored, Counted, Rows
  <2> QED BY <1>3, <1>4, <2>1 DEF LoadNodes, Reading
<1>5. CASE MergeNodes(c)
  <2>1. Stored' /\ Counted'
    BY <1>5 DEF MergeNodes, db, load, bound, Stored, Counted, Rows
  <2> QED BY <1>3, <1>5, <2>1 DEF MergeNodes, Reading, load
<1>6. CASE LoadEdges(c)
  <2>1. Stored' /\ Counted'
    BY <1>6 DEF LoadEdges, db, graph, bound, Stored, Counted, Rows
  <2> QED BY <1>3, <1>6, <2>1 DEF LoadEdges, Reading
<1>7. CASE LoadEnd(c)
  <2> DEFINE found == {e \in rows.edges : Ends({e}) \subseteq rows.nodes}
  <2>1. call[c].at = "linked" /\ loader' = None /\ Proceed(c, Present \cup Ends(found), edges')
    BY <1>7 DEF LoadEnd
  <2>2. found \subseteq Edges
    BY DEF Stored, Rows
  <2>3. Stored' /\ Counted'
    BY <1>7, <2>2, EndsAreKeys DEF LoadEnd, db, bound, Stored, Counted, Rows, NoRows
  <2>4. Proceeded(c, Present \cup Ends(found))
    BY <1>b, <2>1, <2>2, EndsAreKeys, Proceeds
  <2>5. loader = c
    BY <1>a, <2>1 DEF Shape, Reading
  <2>6. Others(c) /\ \A d \in Clients : Shape(d)'
    BY <1>a, <2>1, <2>4, <2>5, ProceededShapes
  <2> QED BY <2>3, <2>6, KeepsControl
<1>8. CASE LoadFails(c)
  <2>1. Ended(c) /\ Others(c)
    BY <1>8, Finishes DEF LoadFails, Ended
  <2>2. loader = c /\ writer # c /\ loader' = None /\ writer' = writer
    BY <1>8, <1>a DEF LoadFails, Shape, Reading, Writing
  <2>3. Shape(c)'
    BY <1>a, <2>1, <2>2, EndedShape
  <2>4. \A d \in Clients : Shape(d)'
    BY <1>a, <2>1, <2>2, <2>3, OneShape
  <2>5. Stored' /\ Counted'
    BY <1>8 DEF LoadFails, Fault, db, graph, Stored, Counted, Rows, NoRows
  <2> QED BY <2>1, <2>4, <2>5, KeepsControl
<1> QED BY <1>1, <1>2, <1>4, <1>5, <1>6, <1>7, <1>8

\* The write lock.
LEMMA WriteControl ==
    ASSUME Control, NEW c \in Clients, Granted(c) \/ Save(c) \/ Saved(c) \/ SaveFails(c)
    PROVE  Control'
<1> USE DEF Control, TypeOK
<1>a. Shape(c) /\ None \notin Clients /\ call[c] \in Call
  BY GraphAssumption
<1>1. CASE Granted(c)
  <2>1. Canonical(c, Present) /\ call[c].at = "lock" /\ writer = None /\ writer' = c /\ loader' = loader
    BY <1>1, CanonicalNames DEF Granted, Present, Stored, load
  <2>2. loader' # c /\ call[c].op \in Adding
    BY <1>a, <2>1 DEF Shape, Reading
  <2>3. Shape(c)'
    BY <2>1, <2>2, CanonicalShape
  <2>4. Others(c) /\ \A d \in Clients : Shape(d)'
    BY <1>a, <2>1, <2>3, OneShape DEF Canonical
  <2>5. Stored' /\ Counted'
    BY <1>1 DEF Granted, db, graph, load, bound, Stored, Counted
  <2> QED BY <2>4, <2>5, KeepsControl
<1>2. CASE Save(c)
  <2>1. Moved(c, "saved") /\ call[c].at = "save" /\ writer' = writer /\ loader' = loader
    BY <1>2, GoesOn DEF Save, Places, load
  <2>2. writer' = c /\ loader' # c /\ call[c].op \in Adding
    BY <1>a, <2>1 DEF Shape, Reading, Writing
  <2>3. Shape(c)'
    <3>1. "saved" \in Places \cap Writing /\ "saved" \notin Reading \cup Leaving
      BY DEF Places, Reading, Writing, Leaving
    <3> QED BY <2>1, <2>2, <3>1, MovedShape
  <2>4. Others(c) /\ \A d \in Clients : Shape(d)'
    BY <2>1, <2>3, OneShape DEF Moved
  <2>5. Stored' /\ Counted'
    BY <1>2, <1>a DEF Save, graph, load, bound, Stored, Counted, Call
  <2> QED BY <2>4, <2>5, KeepsControl
<1>3. CASE Saved(c) \/ SaveFails(c)
  <2>1. Ended(c) /\ Others(c) /\ call[c].at \in Writing /\ writer' = None /\ loader' = loader
    BY <1>3, Finishes DEF Saved, SaveFails, Ended, Writing, load
  <2>2. writer = c /\ loader' # c
    BY <1>a, <2>1 DEF Shape, Reading, Writing
  <2>3. Shape(c)'
    BY <1>a, <2>1, <2>2, EndedShape
  <2>4. \A d \in Clients : Shape(d)'
    BY <1>a, <2>1, <2>2, <2>3, OneShape
  <2>5. Stored' /\ Counted'
    <3>1. CASE Saved(c)
      <4>1. call[c].nodes \subseteq Keys /\ call[c].edges \subseteq Edges /\ Ends(call[c].edges) \subseteq Keys
        BY <1>a, EndsAreKeys DEF Call
      <4> QED BY <3>1, <4>1 DEF Saved, db, load, bound, Stored, Counted
    <3>2. CASE SaveFails(c)
      BY <3>2 DEF SaveFails, Fault, db, graph, load, Stored, Counted
    <3> QED BY <1>3, <3>1, <3>2
  <2> QED BY <2>1, <2>4, <2>5, KeepsControl
<1> QED BY <1>1, <1>2, <1>3

\* The removals.
LEMMA RemoveControl ==
    ASSUME Control, NEW c \in Clients, Cut(c) \/ DeleteNode(c) \/ Removed(c) \/ RemoveFails(c)
    PROVE  Control'
<1> USE DEF Control, TypeOK
<1>a. Shape(c) /\ None \notin Clients /\ call[c] \in Call
  BY GraphAssumption
<1>b. call[c].at \in Leaving /\ UNCHANGED <<loader, writer>>
  BY DEF Cut, DeleteNode, Removed, RemoveFails, Leaving, load
<1>c. loader' # c /\ writer' # c /\ call[c].op \in Removal
  BY <1>a, <1>b DEF Shape, Reading, Writing, Leaving
<1>1. ASSUME NEW at \in {"delete", "deleted"}, Goes(c, at), at = "delete" => call[c].op = "remove_node",
             Stored', Counted'
      PROVE  Control'
  <2>1. Moved(c, at)
    BY <1>1, GoesOn DEF Places
  <2>2. at \in Places \cap Leaving /\ at \notin Reading \cup Writing \cup {"lock"}
    BY <1>1 DEF Places, Reading, Writing, Leaving
  <2>3. Shape(c)'
    BY <1>b, <1>c, <1>1, <2>1, <2>2, MovedShape DEF Leaving
  <2>4. Others(c) /\ \A d \in Clients : Shape(d)'
    BY <1>b, <2>1, <2>3, OneShape DEF Moved
  <2> QED BY <1>1, <2>4, KeepsControl
<1>2. ASSUME Done(c), Stored', Counted'
      PROVE  Control'
  <2>1. Ended(c) /\ Others(c)
    BY <1>2, Finishes DEF Ended
  <2>2. \A d \in Clients : Shape(d)'
    BY <1>b, <1>c, <2>1, EndedShape, OneShape
  <2> QED BY <1>2, <2>1, <2>2, KeepsControl
<1>3. CASE Cut(c)
  <2>1. Stored' /\ Counted'
    BY <1>3 DEF Cut, graph, load, bound, Stored, Counted
  <2>2. Goes(c, IF call[c].op = "remove_node" THEN "delete" ELSE "deleted")
    BY <1>3 DEF Cut
  <2> QED BY <1>1, <2>1, <2>2
<1>4. CASE DeleteNode(c)
  <2>1. Stored' /\ Counted'
    BY <1>4 DEF DeleteNode, graph, load, bound, Stored, Counted
  <2> QED BY <1>1, <1>4, <2>1 DEF DeleteNode
<1>5. CASE Removed(c)
  <2>1. Stored' /\ Counted'
    BY <1>5 DEF Removed, db, load, bound, Stored, Counted
  <2> QED BY <1>2, <1>5, <2>1 DEF Removed
<1>6. CASE RemoveFails(c)
  <2>1. Stored' /\ Counted'
    <3>1. loaded' \in BOOLEAN
      BY <1>6 DEF RemoveFails, Counted
    <3>2. Stored'
      BY <1>6 DEF RemoveFails, Fault, db, graph, Stored
    <3>3. faults' \in Nat /\ calls' \in Nat
      BY <1>6 DEF RemoveFails, Fault, Counted
    <3>4. raced' \in BOOLEAN /\ mixed' \in BOOLEAN
      BY <1>6 DEF RemoveFails, Fault, Counted
    <3> QED BY <3>1, <3>2, <3>3, <3>4 DEF Counted
  <2> QED BY <1>2, <1>6, <2>1 DEF RemoveFails
<1> QED BY <1>3, <1>4, <1>5, <1>6

\* After a restart nothing is under way.
LEMMA RestartControl ==
    ASSUME Control, Restart
    PROVE  Control'
<1> USE DEF Control, TypeOK
<1>1. call' = [c \in Clients |-> NoCall] /\ NoCall \in Call /\ loader' = None /\ writer' = None
  BY DEF Restart, NoCall, Call
<1>2. \A c \in Clients : Shape(c)'
  <2> SUFFICES ASSUME NEW c \in Clients PROVE Shape(c)'
    OBVIOUS
  <2>1. call'[c] = NoCall /\ c # None
    BY <1>1, GraphAssumption
  <2> QED BY <1>1, <2>1 DEF Shape, NoCall, Reading, Writing, Leaving
<1>3. Stored' /\ Counted'
  <2>1. Stored'
    BY DEF Restart, Stored, db, Rows, NoRows
  <2>2. faults' \in Nat /\ calls' \in Nat
    BY DEF Restart, Counted
  <2>3. loaded' \in BOOLEAN /\ raced' \in BOOLEAN /\ mixed' \in BOOLEAN
    BY DEF Restart, Counted
  <2> QED BY <2>1, <2>2, <2>3 DEF Counted
<1> QED BY <1>1, <1>2, <1>3

\* No step breaks types or control.
LEMMA ControlNext ==
    ASSUME Control, [Next]_vars
    PROVE  Control'
<1>1. CASE UNCHANGED vars
  BY <1>1 DEF vars, db, graph, load, bound, Control, TypeOK, Stored, Counted, Shape
<1>2. CASE Restart
  BY <1>2, RestartControl
<1>3. CASE \E c \in Clients : Invoke(c) \/ Resume(c) \/ Fail(c)
  BY <1>3, InvokeControl, LoadControl, WriteControl, RemoveControl DEF Resume, Fail
<1> QED BY <1>1, <1>2, <1>3 DEF Next

\* Nobody holds a lock at the start.
LEMMA ControlInit ==
    ASSUME Init
    PROVE  Control
<1>1. \A c \in Clients : call[c] = NoCall /\ c # None
  BY GraphAssumption DEF Init
<1>2. \A c \in Clients : Shape(c)
  BY <1>1 DEF Init, Shape, NoCall, Reading, Writing, Leaving
<1>3. TypeOK
  BY DEF Init, TypeOK, Stored, Counted, Rows, NoRows, NoCall, Call
<1> QED BY <1>2, <1>3 DEF Control

\* The type invariant, with what ties each operation to its place and its locks: an
\* operation is loading or writing exactly when it holds that lock of SemanticGraph, so
\* at most one loads and at most one writes, and a removal holds neither.
THEOREM LocksAreHeld == Spec => []Control
<1>1. Init => Control
  BY ControlInit
<1>2. Control /\ [Next]_vars => Control'
  BY ControlNext
<1> QED BY <1>1, <1>2, PTL DEF Spec
-----------------------------------------------------------------------------
(* The graph is the backend but for what is under way.                     *)

\* An operation that goes on, or ends, is as alone as before.
LEMMA StaysAlone ==
    ASSUME Alone, NEW c \in Clients, Others(c),
           call'[c] = NoCall \/ (call[c] # NoCall /\ call'[c].op = call[c].op)
    PROVE  Alone'
BY DEF Alone, Others

\* Beyond the load, nobody is loading.
LEMMA PastLoad ==
    ASSUME Control, Sound, NEW c \in Clients, call[c].at \notin {"idle", "start"} \cup Reading
    PROVE  /\ loaded /\ loader = None /\ rows = NoRows
           /\ \A d \in Clients : call[d].at \notin Reading
<1>1. loaded /\ loader = None /\ rows = NoRows
  BY DEF Sound, Loading
<1>2. \A d \in Clients : call[d].at \notin Reading
  BY <1>1, GraphAssumption DEF Control, Shape
<1> QED BY <1>1, <1>2

\* Beside a removal there is nobody.
LEMMA RemovesAlone ==
    ASSUME Control, Sound, NEW c \in Clients, call[c].at \in Leaving
    PROVE  \A d \in Clients \ {c} : call[d] = NoCall /\ call[d].at = "idle"
<1>1. call[c].op \in Removal /\ call[c] # NoCall
  BY DEF Control, Shape, Leaving
<1>2. \A d \in Clients \ {c} : call[d] = NoCall
  BY <1>1 DEF Sound, Alone
<1> QED BY <1>2 DEF NoCall

\* A step between the places where an operation has something to show.
LEMMA QuietSound ==
    ASSUME Control, Sound, NEW c \in Clients, Others(c), Alone',
           UNCHANGED <<db, graph, loaded, rows, faults>>,
           call[c].at \in {"idle", "start", "lock"},
           call'[c].at \in {"idle", "start", "load", "lock", "save", "cut"},
           loader' = loader \/ (loader' = c /\ ~loaded),
           ~loaded => call'[c].at \in {"idle", "start", "load"}
    PROVE  Sound'
<1>a. Loading /\ Mirror /\ \A d \in Clients : Effect(d)
  BY DEF Sound
<1>b. \A d \in Clients : call'[d].at \in {"rows", "links", "linked", "saved", "delete", "deleted"} <=>
                            call[d].at \in {"rows", "links", "linked", "saved", "delete", "deleted"}
  BY DEF Others
<1>c. \A d \in Clients : call[d].at \in {"rows", "links", "linked", "saved", "delete", "deleted"}
        => call'[d] = call[d]
  BY DEF Others
<1>1. Loading'
  <2>1. ~loaded => \A d \in Clients : call'[d].at \in {"idle", "start"} \cup Reading
    BY <1>a DEF Loading, Others, Reading
  <2>2. (\A d \in Clients : call'[d].at \notin {"links", "linked"}) =>
           \A d \in Clients : call[d].at \notin {"links", "linked"}
    BY <1>c
  <2>3. c # None
    BY GraphAssumption
  <2> QED BY <1>a, <2>1, <2>2, <2>3 DEF Loading, db, graph
<1>2. \A d \in Clients : Effect(d)'
  <2> SUFFICES ASSUME NEW d \in Clients
               PROVE  Effect(d)'
    OBVIOUS
  <2>1. CASE call'[d] = call[d]
    BY <1>a, <2>1 DEF Effect, db, graph
  <2>2. CASE call'[d].at \notin {"rows", "links", "linked", "saved", "delete", "deleted"}
    BY <2>2 DEF Effect
  <2> QED BY <1>b, <1>c, <2>1, <2>2
<1>3. Mirror'
  BY <1>a, <1>c DEF Mirror, db, graph
<1> QED BY <1>1, <1>2, <1>3 DEF Sound

\* What callers ask for: beside a removal, an operation is a race.
LEMMA SubmitSound ==
    ASSUME Control, Sound, NEW c \in Clients, NEW op \in Adding \cup Removal,
           NEW K \in SUBSET Keys, NEW E \in SUBSET Edges, Submit(c, op, K, E), ~raced'
    PROVE  Sound'
<1>0. call[c] = NoCall /\ NoCall.at = "idle"
  BY DEF Submit, NoCall
<1>1. Begun(c, op, K, E) /\ call[c].at = "idle"
  BY <1>0, Begins
<1>2. \A d \in Clients \ {c} : call[d] # NoCall => op \notin Removal /\ call[d].op \notin Removal
  BY DEF Submit
<1>3. Alone'
  BY <1>0, <1>1, <1>2 DEF Sound, Alone, Begun, Others
<1> QED BY <1>1, <1>3, QuietSound DEF Submit, Begun, db, graph, load

\* A new call changes neither graph nor backend.
LEMMA InvokeSound ==
    ASSUME Control, Sound, NEW c \in Clients, Invoke(c), ~raced'
    PROVE  Sound'
<1> USE DEF Adding, Removal
<1>1. CASE \E k \in Keys : add_node(c, k)
  BY <1>1, SubmitSound DEF add_node
<1>2. CASE \E k \in Keys : remove_node(c, k)
  BY <1>2, SubmitSound DEF remove_node
<1>3. CASE \E e \in Edges : add_edge(c, e)
  BY <1>3, SubmitSound DEF add_edge
<1>4. CASE \E e \in Edges : remove_edge(c, e)
  BY <1>4, SubmitSound DEF remove_edge
<1>5. CASE \E k, l \in Keys : k # l /\ add_nodes_batch(c, {k, l})
  BY <1>5, SubmitSound DEF add_nodes_batch
<1>6. CASE \E e, g \in Edges : e # g /\ add_edges_batch(c, {e, g})
  BY <1>6, SubmitSound DEF add_edges_batch
<1> QED BY <1>1, <1>2, <1>3, <1>4, <1>5, <1>6 DEF Invoke

\* An operation goes on into the write lock, to its removal, or ends.
LEMMA ProceededAlone ==
    ASSUME Control, Alone, NEW c \in Clients, NEW P, Proceeded(c, P), call[c].at # "idle"
    PROVE  Others(c) /\ Alone' /\ call'[c].at \in {"save", "lock", "cut", "idle"}
<1>1. call[c] # NoCall
  BY UnderWay
<1> QED BY <1>1, StaysAlone DEF Proceeded, Canonical, Moved, Ended

\* A caller that comes to a lock.
LEMMA EntersSound ==
    ASSUME Control, Sound, NEW c \in Clients, Start(c) \/ LoadBegin(c) \/ Granted(c)
    PROVE  Sound'
<1>a. Alone /\ Present \subseteq Keys
  BY DEF Sound, Control, TypeOK, Stored, Present
<1>1. CASE Start(c)
  <2>1. Proceeded(c, Present) /\ call[c].at = "start" /\ loaded /\ UNCHANGED <<db, graph, load, bound>>
    BY <1>1, <1>a, Proceeds DEF Start
  <2>2. Others(c) /\ Alone' /\ call'[c].at \in {"save", "lock", "cut", "idle"}
    BY <1>a, <2>1, ProceededAlone
  <2> QED BY <2>1, <2>2, QuietSound DEF load, bound
<1>2. CASE LoadBegin(c)
  <2>1. Moved(c, "load") /\ call[c].at = "start" /\ call[c] # NoCall
    BY <1>2, GoesOn, UnderWay DEF LoadBegin, Places
  <2>2. Others(c) /\ Alone'
    BY <1>a, <2>1, StaysAlone DEF Moved
  <2> QED BY <1>2, <2>1, <2>2, QuietSound DEF LoadBegin, Moved, bound
<1>3. CASE Granted(c)
  <2>1. Canonical(c, Present) /\ call[c].at = "lock" /\ call[c] # NoCall
    BY <1>3, <1>a, CanonicalNames, UnderWay DEF Granted
  <2>2. loaded
    BY <2>1, PastLoad DEF Reading
  <2>3. Others(c) /\ Alone'
    BY <1>a, <2>1, StaysAlone DEF Canonical
  <2> QED BY <1>3, <2>1, <2>2, <2>3, QuietSound DEF Granted, Canonical, load, bound
<1> QED BY <1>1, <1>2, <1>3

\* The load: the graph is empty, then the nodes' table, then both tables.
LEMMA LoadSound ==
    ASSUME Control, Sound, NEW c \in Clients, LoadNodes(c) \/ MergeNodes(c) \/ LoadEdges(c)
    PROVE  Sound'
<1>a. Alone /\ Loading /\ Mirror /\ (\A d \in Clients : Effect(d)) /\ Shape(c)
  BY DEF Sound, Control
<1>b. PICK at \in {"rows", "links", "linked"} : Moved(c, at)
  BY GoesOn DEF LoadNodes, MergeNodes, LoadEdges, Places
<1>c. /\ call[c].at \in {"load", "rows", "links"} /\ call[c].at # "idle" /\ loader = c /\ loader # None
      /\ UNCHANGED <<db, bare, edges, loaded, loader, faults>> \/ MergeNodes(c)
  BY <1>a, GraphAssumption DEF LoadNodes, MergeNodes, LoadEdges, Shape, Reading, graph, bound
<1>d. ~loaded /\ bare = {} /\ edges = {} /\ (faults = 0 => dbNodes = {} /\ dbEdges = {})
  BY <1>a, <1>c DEF Loading
<1>e. \A d \in Clients \ {c} : call[d].at \in {"idle", "start"} /\ call'[d] = call[d]
  BY <1>a, <1>b, <1>c, <1>d DEF Loading, Moved, Others, Control, Shape
<1>f. Others(c) /\ Alone'
  BY <1>a, <1>b, <1>c, UnderWay, StaysAlone DEF Moved
<1>g. \A d \in Clients \ {c} : Effect(d)'
  BY <1>e DEF Effect
<1>1. /\ UNCHANGED <<db, edges, loaded, loader, faults>> /\ bare' = {}
      /\ call'[c].at = "rows" => nodes' = {}
      /\ nodes' = {} \/ nodes' = dbNodes
      /\ Effect(c)'
  <2>1. CASE LoadNodes(c)
    <3>1. Moved(c, "rows")
      BY <2>1, GoesOn DEF LoadNodes, Places
    <3>2. nodes = {}
      BY <1>a, <1>d, <1>e, <2>1 DEF LoadNodes, Loading
    <3>3. UNCHANGED <<dbNodes, dbEdges, nodes, bare, edges, loaded, loader, faults>> /\ rows'.nodes = dbNodes
      BY <2>1 DEF LoadNodes, db, graph, bound
    <3>4. Effect(c)'
      BY <3>1, <3>3 DEF Effect, Moved
    <3> QED BY <1>d, <3>2, <3>3, <3>4 DEF db
  <2>2. CASE MergeNodes(c)
    <3>1. Moved(c, "links") /\ call[c].at = "rows"
      BY <2>2, GoesOn DEF MergeNodes, Places
    <3>2. nodes = {}
      BY <1>a, <1>d, <1>e, <3>1 DEF Loading
    <3>3. rows.nodes = dbNodes
      BY <1>a, <3>1 DEF Effect
    <3>4. /\ UNCHANGED <<dbNodes, dbEdges, rows, edges, loaded, loader, faults>>
          /\ nodes' = dbNodes /\ bare' = {}
      BY <1>d, <2>2, <3>2, <3>3 DEF MergeNodes, db, load, bound
    <3>5. Effect(c)'
      BY <3>1, <3>3, <3>4 DEF Effect, Moved
    <3> QED BY <3>1, <3>4, <3>5 DEF db, Moved
  <2>3. CASE LoadEdges(c)
    <3>1. Moved(c, "linked") /\ call[c].at = "links"
      BY <2>3, GoesOn DEF LoadEdges, Places
    <3>2. rows.nodes = dbNodes /\ nodes = dbNodes
      BY <1>a, <3>1 DEF Effect
    <3>3. UNCHANGED <<dbNodes, dbEdges, nodes, bare, edges, loaded, loader, faults>>
      BY <2>3 DEF LoadEdges, db, graph, bound
    <3>4. rows'.nodes = rows.nodes /\ rows'.edges = dbEdges
      BY <2>3 DEF LoadEdges, Control, TypeOK, Stored, Rows
    <3>5. Effect(c)'
      BY <3>1, <3>2, <3>3, <3>4 DEF Effect, Moved
    <3> QED BY <1>d, <3>1, <3>2, <3>3, <3>5 DEF db, Moved
  <2> QED BY <2>1, <2>2, <2>3
<1>2. Loading'
  <2>1. call'[c].at \in {"rows", "links", "linked"} /\ loader' = c
    BY <1>b, <1>c, <1>1 DEF Moved
  <2>2. \A d \in Clients : call'[d].at \in {"idle", "start"} \cup Reading
    BY <1>e, <2>1 DEF Reading
  <2> QED BY <1>c, <1>d, <1>1, <2>1, <2>2 DEF Loading, db
<1>3. Mirror'
  BY <1>d, <1>1 DEF Mirror, db
<1> QED BY <1>f, <1>g, <1>1, <1>2, <1>3 DEF Sound

\* The load is done: the graph is what both tables held, less the edges without ends.
LEMMA LoadedSound ==
    ASSUME Control, Sound, NEW c \in Clients, LoadEnd(c)
    PROVE  Sound'
<1> DEFINE found == {e \in rows.edges : Ends({e}) \subseteq rows.nodes}
<1>a. Alone /\ Loading /\ Mirror /\ (\A d \in Clients : Effect(d)) /\ Shape(c)
  BY DEF Sound, Control
<1>b. /\ call[c].at = "linked" /\ loader = c /\ loader # None
      /\ Proceed(c, Present \cup Ends(found), edges')
      /\ loaded' = TRUE /\ loader' = None /\ rows' = NoRows /\ edges' = edges \cup found
      /\ UNCHANGED <<dbNodes, dbEdges, nodes, faults>>
  BY <1>a, GraphAssumption DEF LoadEnd, Shape, Reading, db, bound
<1>c. ~loaded /\ edges = {} /\ (faults = 0 => dbEdges = {}) /\ rows.edges = dbEdges /\ nodes = dbNodes
  BY <1>a, <1>b DEF Loading, Effect
<1>d. \A d \in Clients \ {c} : call[d].at \in {"idle", "start"}
  BY <1>a, <1>b, <1>c DEF Loading, Control, Shape
<1>e. Proceeded(c, Present \cup Ends(found))
  <2>1. found \subseteq Edges /\ Present \subseteq Keys
    BY DEF Control, TypeOK, Stored, Rows, Present
  <2> QED BY <1>b, <2>1, EndsAreKeys, Proceeds
<1>f. Others(c) /\ Alone' /\ call'[c].at \in {"save", "lock", "cut", "idle"}
  BY <1>a, <1>b, <1>e, ProceededAlone
<1>1. \A d \in Clients : call'[d].at \in {"idle", "start", "save", "lock", "cut"}
  BY <1>d, <1>f DEF Others
<1>2. Loading'
  BY <1>b DEF Loading
<1>3. \A d \in Clients : Effect(d)'
  BY <1>1 DEF Effect
<1>4. edges' \subseteq dbEdges'
  BY <1>b, <1>c
<1> HIDE DEF found
<1>5. Mirror'
  BY <1>b, <1>c, <1>4 DEF Mirror
<1> QED BY <1>f, <1>2, <1>3, <1>5 DEF Sound

\* The backend first: what was saved is on its way to the graph.
LEMMA SaveSound ==
    ASSUME Control, Sound, NEW c \in Clients, Save(c)
    PROVE  Sound'
<1>a. Alone /\ Loading /\ Mirror /\ (\A d \in Clients : Effect(d)) /\ Shape(c)
  BY DEF Sound, Control
<1>b. /\ Moved(c, "saved") /\ Others(c) /\ call[c].at = "save" /\ call[c] # NoCall
      /\ dbNodes' = dbNodes \cup call[c].nodes /\ dbEdges' = dbEdges \cup call[c].edges
      /\ UNCHANGED <<nodes, bare, edges, loaded, loader, rows, faults>>
  BY GoesOn, UnderWay DEF Save, Places, Moved, graph, load, bound
<1>c. loaded /\ \A d \in Clients : call[d].at \notin Reading
  BY <1>b, PastLoad DEF Reading
<1>d. \A d \in Clients \ {c} : call'[d] = call[d]
  BY <1>b DEF Others
<1>e. \A d \in Clients : call[d].at \notin Leaving
  BY <1>b, RemovesAlone DEF Leaving
<1>1. Alone'
  BY <1>a, <1>b, StaysAlone DEF Moved
<1>2. Loading'
  BY <1>a, <1>b, <1>c DEF Loading
<1>3. \A d \in Clients : Effect(d)'
  <2>1. Effect(c)'
    BY <1>b DEF Effect, Moved
  <2>2. ASSUME NEW d \in Clients \ {c}
        PROVE  Effect(d)'
    BY <1>a, <1>b, <1>c, <1>d, <1>e, <2>2 DEF Effect, Reading, Leaving
  <2> QED BY <2>1, <2>2
<1>4. Mirror'
  <2>1. call'[c].at = "saved" /\ call'[c].nodes = call[c].nodes /\ call'[c].edges = call[c].edges
    BY <1>b DEF Moved
  <2>2. nodes' \subseteq dbNodes' /\ edges' \subseteq dbEdges'
    BY <1>a, <1>b, <1>e DEF Mirror, Leaving
  <2>3. \A d \in Clients : call[d].at = "saved" => call'[d] = call[d]
    BY <1>b, <1>d
  <2>4. \A k \in dbNodes' : k \in nodes' \/ \E d \in Clients : call'[d].at = "saved" /\ k \in call'[d].nodes
    BY <1>a, <1>b, <1>c, <2>1, <2>3 DEF Mirror
  <2>5. faults' = 0 => \A e \in dbEdges' : e \in edges'
             \/ \E d \in Clients : call'[d].at = "saved" /\ e \in call'[d].edges
    BY <1>a, <1>b, <1>c, <2>1, <2>3 DEF Mirror
  <2> QED BY <2>2, <2>4, <2>5 DEF Mirror
<1> QED BY <1>1, <1>2, <1>3, <1>4 DEF Sound

\* ... and the graph after it.
LEMMA SavedSound ==
    ASSUME Control, Sound, NEW c \in Clients, Saved(c)
    PROVE  Sound'
<1>a. Alone /\ Loading /\ Mirror /\ (\A d \in Clients : Effect(d)) /\ Shape(c)
  BY DEF Sound, Control
<1>b. /\ Ended(c) /\ Others(c) /\ call[c].at = "saved"
      /\ nodes' = nodes \cup call[c].nodes /\ edges' = edges \cup call[c].edges
      /\ UNCHANGED <<dbNodes, dbEdges, loaded, loader, rows, faults>>
  BY Finishes DEF Saved, Ended, db, load, bound
<1>c. loaded /\ loader = None /\ rows = NoRows /\ \A d \in Clients : call[d].at \notin Reading
  BY <1>b, PastLoad DEF Reading
<1>d. \A d \in Clients \ {c} : call'[d] = call[d]
  BY <1>b DEF Others
<1>e. \A d \in Clients : call[d].at \notin Leaving
  BY <1>b, RemovesAlone DEF Leaving
<1>1. Alone'
  BY <1>a, <1>b, StaysAlone DEF Ended
<1>2. Loading'
  BY <1>b, <1>c DEF Loading
<1>3. \A d \in Clients : Effect(d)'
  <2>1. Effect(c)'
    BY <1>b DEF Effect, Ended
  <2>2. ASSUME NEW d \in Clients \ {c}
        PROVE  Effect(d)'
    BY <1>a, <1>b, <1>c, <1>d, <1>e, <2>2 DEF Effect, Reading, Leaving
  <2> QED BY <2>1, <2>2
<1>4. Mirror'
  <2>1. call[c].nodes \subseteq dbNodes /\ call[c].edges \subseteq dbEdges
    BY <1>a, <1>b DEF Effect
  <2>2. nodes' \subseteq dbNodes' /\ edges' \subseteq dbEdges'
    BY <1>a, <1>b, <1>e, <2>1 DEF Mirror, Leaving
  <2>3. \A k \in dbNodes' : k \in nodes' \/ \E d \in Clients : call'[d].at = "saved" /\ k \in call'[d].nodes
    BY <1>a, <1>b, <1>c, <1>d DEF Mirror
  <2>4. faults' = 0 => \A e \in dbEdges' : e \in edges'
             \/ \E d \in Clients : call'[d].at = "saved" /\ e \in call'[d].edges
    BY <1>a, <1>b, <1>c, <1>d DEF Mirror
  <2> QED BY <2>2, <2>3, <2>4 DEF Mirror
<1> QED BY <1>1, <1>2, <1>3, <1>4 DEF Sound

\* A removal takes from the backend first, and from the graph after it.
LEMMA RemoveSound ==
    ASSUME Control, Sound, NEW c \in Clients, Cut(c) \/ DeleteNode(c) \/ Removed(c)
    PROVE  Sound'
<1> DEFINE touched(E) == UNION {Touching(E, k) : k \in call[c].nodes}
<1>a. /\ Alone /\ Loading /\ Mirror /\ (\A d \in Clients : Effect(d)) /\ Shape(c)
      /\ dbEdges \subseteq Edges /\ edges \subseteq Edges
  BY DEF Sound, Control, TypeOK, Stored
<1>b. /\ call[c].at \in Leaving /\ call[c] # NoCall /\ Others(c)
      /\ Moved(c, "delete") \/ Moved(c, "deleted") \/ Ended(c)
      /\ UNCHANGED <<loaded, loader, rows, faults>>
  <2>1. call[c].at \in Leaving /\ call[c].at # "idle" /\ UNCHANGED <<loaded, loader, rows, faults>>
    BY DEF Cut, DeleteNode, Removed, Leaving, load, bound
  <2>2. Moved(c, "delete") \/ Moved(c, "deleted") \/ Ended(c)
    BY GoesOn, Finishes DEF Cut, DeleteNode, Removed, Places
  <2> QED BY <2>1, <2>2, UnderWay DEF Moved, Ended
<1>c. loaded /\ loader = None /\ rows = NoRows
  BY <1>b, PastLoad DEF Reading, Leaving
<1>d. \A d \in Clients \ {c} : call[d].at = "idle" /\ call'[d].at = "idle"
  BY <1>b, RemovesAlone DEF Others
<1>e. \A E \in SUBSET Edges : \A e \in E : e \in touched(E) <=> Ends({e}) \cap call[c].nodes # {}
  BY DEF Touching, Ends
<1> HIDE DEF touched
<1>1. Alone'
  BY <1>a, <1>b, StaysAlone DEF Moved, Ended
<1>2. Loading'
  BY <1>b, <1>c DEF Loading
<1>3. \A d \in Clients \ {c} : Effect(d)'
  BY <1>d DEF Effect
<1>4. CASE Cut(c)
  <2>1. /\ call[c].at = "cut"
        /\ dbEdges' = dbEdges \ (call[c].edges \cup touched(dbEdges))
        /\ UNCHANGED <<dbNodes, nodes, bare, edges>>
        /\ Moved(c, IF call[c].op = "remove_node" THEN "delete" ELSE "deleted")
    BY <1>4, GoesOn DEF Cut, touched, graph, Places
  <2>2. \A e \in dbEdges' : e \notin call[c].edges /\ Ends({e}) \cap call[c].nodes = {}
    BY <1>a, <1>e, <2>1
  <2>3. call'[c].at = "deleted" => call[c].nodes = {}
    BY <1>a, <2>1 DEF Shape, Moved, Leaving, Removal
  <2>4. Effect(c)'
    BY <2>1, <2>2, <2>3 DEF Effect, Moved
  <2>5. /\ call'[c].at \in {"delete", "deleted"}
        /\ call'[c].nodes = call[c].nodes /\ call'[c].edges = call[c].edges
    BY <2>1 DEF Moved
  <2>6. nodes \subseteq dbNodes /\ dbNodes \subseteq nodes /\ edges \subseteq dbEdges
        /\ (faults = 0 => dbEdges \subseteq edges)
    <3>1. \A d \in Clients : call[d].at \notin {"saved", "delete", "deleted"}
      BY <1>d, <2>1
    <3>2. nodes \subseteq dbNodes /\ edges \subseteq dbEdges
      BY <1>a, <3>1 DEF Mirror
    <3>3. dbNodes \subseteq nodes
      BY <1>a, <1>c, <3>1 DEF Mirror
    <3> QED BY <1>a, <1>c, <3>1, <3>2, <3>3 DEF Mirror
  <2>7. \A e \in edges' : e \in dbEdges' \/ e \in call'[c].edges \/ Ends({e}) \cap call'[c].nodes # {}
    BY <1>a, <1>e, <2>1, <2>5, <2>6
  <2>8. Mirror'
    BY <1>b, <2>1, <2>5, <2>6, <2>7 DEF Mirror
  <2> QED BY <1>1, <1>2, <1>3, <2>4, <2>8 DEF Sound
<1>5. CASE DeleteNode(c)
  <2>1. /\ call[c].at = "delete"
        /\ dbNodes' = dbNodes \ call[c].nodes
        /\ dbEdges' = dbEdges \ touched(dbEdges)
        /\ UNCHANGED <<nodes, bare, edges>>
        /\ Moved(c, "deleted")
    BY <1>5, GoesOn DEF DeleteNode, touched, graph, Places
  <2>2. \A e \in dbEdges' : e \notin call[c].edges /\ Ends({e}) \cap call[c].nodes = {}
    BY <1>a, <2>1 DEF Effect
  <2>3. Effect(c)'
    BY <2>1, <2>2 DEF Effect, Moved
  <2>4. /\ call'[c].at = "deleted"
        /\ call'[c].nodes = call[c].nodes /\ call'[c].edges = call[c].edges
    BY <2>1 DEF Moved
  <2>5. nodes \subseteq dbNodes /\ dbNodes \subseteq nodes /\ (faults = 0 => dbEdges \subseteq edges)
    BY <1>a, <1>c, <1>d, <2>1 DEF Mirror
  <2>6. \A e \in edges : e \in dbEdges \/ e \in call[c].edges \/ Ends({e}) \cap call[c].nodes # {}
    BY <1>a, <1>d, <2>1 DEF Mirror
  <2>7. \A e \in edges' : e \in dbEdges' \/ e \in call'[c].edges \/ Ends({e}) \cap call'[c].nodes # {}
    BY <1>a, <1>e, <2>1, <2>4, <2>6
  <2>8. Mirror'
    BY <1>b, <2>1, <2>4, <2>5, <2>7 DEF Mirror
  <2> QED BY <1>1, <1>2, <1>3, <2>3, <2>8 DEF Sound
<1>6. CASE Removed(c)
  <2>1. /\ call[c].at = "deleted" /\ Ended(c)
        /\ nodes' = nodes \ call[c].nodes
        /\ edges' = (edges \ call[c].edges) \ touched(edges)
        /\ UNCHANGED <<dbNodes, dbEdges>>
    BY <1>6, Finishes DEF Removed, touched, db
  <2>2. Effect(c)'
    BY <2>1 DEF Effect, Ended
  <2>3. call[c].nodes \cap dbNodes = {}
        /\ \A e \in dbEdges : e \notin call[c].edges /\ Ends({e}) \cap call[c].nodes = {}
    BY <1>a, <2>1 DEF Effect
  <2>4. /\ \A k \in nodes : k \in dbNodes \/ k \in call[c].nodes
        /\ \A e \in edges : e \in dbEdges \/ e \in call[c].edges \/ Ends({e}) \cap call[c].nodes # {}
        /\ dbNodes \subseteq nodes /\ (faults = 0 => dbEdges \subseteq edges)
    BY <1>a, <1>c, <1>d, <2>1 DEF Mirror
  <2>5. nodes' = dbNodes'
    BY <2>1, <2>3, <2>4
  <2>6. edges' \subseteq dbEdges' /\ (faults' = 0 => edges' = dbEdges')
    BY <1>a, <1>b, <1>e, <2>1, <2>3, <2>4
  <2>7. Mirror'
    BY <2>5, <2>6 DEF Mirror
  <2> QED BY <1>1, <1>2, <1>3, <2>2, <2>7 DEF Sound
<1> QED BY <1>4, <1>5, <1>6

\* After a restart the graph is empty and not loaded.
LEMMA RestartSound ==
    ASSUME Control, Restart
    PROVE  Sound'
<1>1. /\ call' = [c \in Clients |-> NoCall] /\ loader' = None /\ loaded' = FALSE /\ rows' = NoRows
      /\ nodes' = {} /\ bare' = {} /\ edges' = {} /\ faults' # 0
  BY DEF Restart, Control, TypeOK, Counted
<1>2. \A c \in Clients : call'[c] = NoCall /\ call'[c].at = "idle"
  BY <1>1 DEF NoCall
<1>3. Alone'
  BY <1>2 DEF Alone
<1>4. Loading'
  BY <1>1, <1>2 DEF Loading
<1>5. \A c \in Clients : Effect(c)'
  BY <1>2 DEF Effect
<1>6. Mirror'
  BY <1>1 DEF Mirror
<1> QED BY <1>3, <1>4, <1>5, <1>6 DEF Sound

\* No step breaks it but one that races a removal or fails.
LEMMA CalmNext ==
    ASSUME Control, Calm, [Next]_vars
    PROVE  Calm'
<1> SUFFICES ASSUME ~raced'
             PROVE  Sound'
  BY DEF Calm
<1>1. CASE UNCHANGED vars
  <2>1. Sound
    BY <1>1 DEF Calm, vars, bound
  <2> QED BY <1>1, <2>1 DEF vars, db, graph, load, bound, Sound, Alone, Loading, Effect, Mirror
<1>2. CASE Restart
  BY <1>2, RestartSound
<1>3. ASSUME NEW c \in Clients, Invoke(c) \/ Resume(c) \/ Fail(c)
      PROVE  Sound'
  <2>1. ~Fail(c)
    BY DEF Fail, LoadFails, SaveFails, RemoveFails, Fault
  <2>2. CASE Invoke(c)
    <3>1. \A op, K, E : Submit(c, op, K, E) => ~raced
      BY DEF Submit
    <3>2. ~raced
      BY <2>2, <3>1 DEF Invoke, add_node, remove_node, add_edge, remove_edge, add_nodes_batch, add_edges_batch
    <3> QED BY <2>2, <3>2, InvokeSound DEF Calm
  <2>3. CASE Resume(c)
    <3>1. raced' = raced
      BY <2>3 DEF Resume, Start, LoadBegin, LoadNodes, MergeNodes, LoadEdges, LoadEnd,
                  Granted, Save, Saved, Cut, DeleteNode, Removed, bound
    <3> QED BY <2>3, <3>1, EntersSound, LoadSound, LoadedSound, SaveSound, SavedSound, RemoveSound
            DEF Resume, Calm
  <2> QED BY <1>3, <2>1, <2>2, <2>3
<1> QED BY <1>1, <1>2, <1>3 DEF Next

\* The empty graph agrees with the empty backend.
LEMMA CalmInit ==
    ASSUME Init
    PROVE  Calm
<1>1. \A c \in Clients : call[c] = NoCall /\ call[c].at = "idle"
  BY DEF Init, NoCall
<1>2. Alone /\ \A c \in Clients : Effect(c)
  BY <1>1 DEF Alone, Effect
<1>3. Loading /\ Mirror
  BY <1>1 DEF Init, Loading, Mirror
<1> QED BY <1>2, <1>3 DEF Calm, Sound

\* At all times, locks are held by those who act on them and graph and backend owe each other only that.
LEMMA IsCalm == Spec => [](Control /\ Calm)
<1>1. Init => Control /\ Calm
  BY ControlInit, CalmInit
<1>2. Control /\ Calm /\ [Next]_vars => (Control /\ Calm)'
  BY ControlNext, CalmNext
<1> QED BY <1>1, <1>2, PTL DEF Spec

\* For any callers, adds and restarts: while no removal ran beside another operation and
\* no backend call failed, SemanticGraph shows a node or an edge only if the backend has
\* it, or a removal that is under way is taking it out.
THEOREM ShownIsDurable == Spec => []ReadersSeeDurable
<1>1. Control /\ Calm => ReadersSeeDurable
  <2> SUFFICES ASSUME Control, Calm, ~raced
               PROVE  ReadersSeeDurable
    BY DEF ReadersSeeDurable
  <2> DEFINE leaving == UNION {call[c].nodes : c \in {d \in Clients : call[d].op = "remove_node"}}
             cut     == UNION {call[c].edges : c \in {d \in Clients : call[d].op = "remove_edge"}}
  <2>1. Mirror
    BY DEF Calm, Sound
  <2>2. \A d \in Clients : call[d].at \in Leaving =>
           /\ call[d].nodes \subseteq leaving /\ call[d].edges \subseteq cut
    <3> SUFFICES ASSUME NEW d \in Clients, call[d].at \in Leaving
                 PROVE  call[d].nodes \subseteq leaving /\ call[d].edges \subseteq cut
      OBVIOUS
    <3>1. CASE call[d].op = "remove_node"
      BY <3>1 DEF Control, Shape
    <3>2. CASE call[d].op = "remove_edge"
      BY <3>2 DEF Control, Shape
    <3> QED BY <3>1, <3>2 DEF Control, Shape, Removal
  <2> HIDE DEF leaving, cut
  <2>3. nodes \subseteq dbNodes \cup leaving
    BY <2>1, <2>2 DEF Mirror, Leaving
  <2>4. \A e \in edges : e \in dbEdges \cup cut \/ Ends({e}) \cap leaving # {}
    BY <2>1, <2>2 DEF Mirror, Leaving
  <2> QED BY <2>3, <2>4 DEF ReadersSeeDurable, leaving, cut
<1> QED BY <1>1, IsCalm, PTL

\* Under the same condition, the graph between operations is what the backend holds:
\* concurrent adds leave nothing behind in either, and a restart brings the nodes back.
THEOREM GraphIsBackend == Spec => []GraphAgrees
<1>1. Control /\ Calm => GraphAgrees
  <2> SUFFICES ASSUME Control, Calm, Quiet, ~raced
               PROVE  nodes = dbNodes /\ edges \subseteq dbEdges /\ (faults = 0 => edges = dbEdges)
    BY DEF GraphAgrees
  <2>1. Mirror /\ loaded /\ \A c \in Clients : call[c].at = "idle"
    BY DEF Calm, Sound, Quiet, NoCall
  <2>2. nodes \subseteq dbNodes /\ edges \subseteq dbEdges
    BY <2>1 DEF Mirror
  <2>3. dbNodes \subseteq nodes /\ (faults = 0 => dbEdges \subseteq edges)
    BY <2>1 DEF Mirror
  <2> QED BY <2>2, <2>3
<1> QED BY <1>1, IsCalm, PTL
-----------------------------------------------------------------------------
(* One way to write a name.                                                *)

\* Fewer keys are no worse.
LEMMA FewerKeys ==
    \A K, L : OneWay(L) /\ K \subseteq L => OneWay(K)
BY DEF OneWay

\* A step that adds no key, and leaves its operation with a request in one way.
LEMMA SpeltStep ==
    ASSUME Spelt, NEW c \in Clients, Others(c), Present' \subseteq Present, OneWay(dbNodes'),
           SpelledCall(c)'
    PROVE  Spelt'
<1>1. OneWay(Present')
  BY FewerKeys DEF Spelt
<1>2. ASSUME NEW d \in Clients \ {c}
      PROVE  SpelledCall(d)'
  <2>1. SpelledCall(d) /\ call'[d] = call[d]
    BY DEF Spelt, Others
  <2>2. call[d].at \in Writing => OneWay(Present' \cup call[d].nodes \cup Ends(call[d].edges))
    <3>1. Present' \cup call[d].nodes \cup Ends(call[d].edges)
             \subseteq Present \cup call[d].nodes \cup Ends(call[d].edges)
      OBVIOUS
    <3> QED BY <2>1, <3>1, FewerKeys DEF SpelledCall
  <2> QED BY <2>1, <2>2 DEF SpelledCall
<1> QED BY <1>1, <1>2 DEF Spelt

\* A step that does add keys, but while nobody else writes.
LEMMA SpeltAlone ==
    ASSUME Spelt, NEW c \in Clients, Others(c), OneWay(Present'), OneWay(dbNodes'),
           SpelledCall(c)', \A d \in Clients \ {c} : call[d].at \notin Writing
    PROVE  Spelt'
BY DEF Spelt, SpelledCall, Others

\* An operation that is not in the write lock afterwards.
LEMMA StaysSpelt ==
    ASSUME Spelt, NEW c \in Clients, NEW at \in Places \ Writing, Moved(c, at)
    PROVE  SpelledCall(c)'
BY DEF Spelt, SpelledCall, Moved

\* A call that ends carries no name any more.
LEMMA EndsSpelt ==
    ASSUME NEW c \in Clients, Ended(c)
    PROVE  SpelledCall(c)'
BY DEF SpelledCall, Ended, OneWay, Ends, Writing

\* One that enters it.
LEMMA EntersSpelt ==
    ASSUME Control, Spelt, NEW c \in Clients, call[c].at # "idle", Canonical(c, Present),
           UNCHANGED graph
    PROVE  SpelledCall(c)'
<1>1. Present' = Present
  BY DEF Present, graph
<1>2. OneWay(Present) /\ OneWay(Ends(call[c].edges)) /\ (call[c].nodes = {} \/ call[c].edges = {})
  BY UnderWay DEF Spelt, SpelledCall
<1> QED BY <1>1, <1>2 DEF Canonical, SpelledCall

\* A call that is not mixed carries one spelling of each name.
LEMMA SubmitSpelt ==
    ASSUME Control, Spelt, NEW c \in Clients, NEW op \in Adding \cup Removal,
           NEW K \in SUBSET Keys, NEW E \in SUBSET Edges, Submit(c, op, K, E), ~mixed'
    PROVE  Spelt'
<1>1. Begun(c, op, K, E) /\ Others(c) /\ UNCHANGED <<dbNodes, nodes, bare>>
  BY Begins DEF Begun, Submit, db, graph
<1>2. OneWay(Ends(E))
  BY DEF Submit, OneWay
<1>3. SpelledCall(c)'
  BY <1>1, <1>2 DEF Begun, SpelledCall, Writing
<1> QED BY <1>1, <1>3, SpeltStep DEF Present, Spelt

\* The same of every operation.
LEMMA InvokeSpelt ==
    ASSUME Control, Spelt, NEW c \in Clients, Invoke(c), ~mixed'
    PROVE  Spelt'
<1> USE DEF Adding, Removal
<1>1. CASE \E k \in Keys : add_node(c, k)
  BY <1>1, SubmitSpelt DEF add_node
<1>2. CASE \E k \in Keys : remove_node(c, k)
  BY <1>2, SubmitSpelt DEF remove_node
<1>3. CASE \E e \in Edges : add_edge(c, e)
  BY <1>3, SubmitSpelt DEF add_edge
<1>4. CASE \E e \in Edges : remove_edge(c, e)
  BY <1>4, SubmitSpelt DEF remove_edge
<1>5. CASE \E k, l \in Keys : k # l /\ add_nodes_batch(c, {k, l})
  BY <1>5, SubmitSpelt DEF add_nodes_batch
<1>6. CASE \E e, g \in Edges : e # g /\ add_edges_batch(c, {e, g})
  BY <1>6, SubmitSpelt DEF add_edges_batch
<1> QED BY <1>1, <1>2, <1>3, <1>4, <1>5, <1>6 DEF Invoke

\* Going on from the loaded graph.
LEMMA ProceededSpelt ==
    ASSUME Control, Spelt, NEW c \in Clients, call[c].at # "idle", Proceeded(c, Present),
           Present' = Present
    PROVE  Others(c) /\ SpelledCall(c)'
<1>1. "lock" \in Places \ Writing /\ "cut" \in Places \ Writing
  BY DEF Places, Writing
<1>2. ASSUME Canonical(c, Present)
      PROVE  SpelledCall(c)'
  <2>1. OneWay(Present) /\ OneWay(Ends(call[c].edges)) /\ (call[c].nodes = {} \/ call[c].edges = {})
    BY UnderWay DEF Spelt, SpelledCall
  <2> QED BY <1>2, <2>1 DEF Canonical, SpelledCall
<1> QED BY <1>1, <1>2, StaysSpelt, EndsSpelt DEF Proceeded, Canonical, Moved, Ended

\* A load brings the names the backend has.
LEMMA LoadSpelt ==
    ASSUME Control, Sound, Spelt, NEW c \in Clients,
           Start(c) \/ LoadBegin(c) \/ LoadNodes(c) \/ MergeNodes(c) \/ LoadEdges(c) \/ LoadEnd(c)
    PROVE  Spelt'
<1>a. /\ Loading /\ (\A d \in Clients : Effect(d)) /\ Shape(c) /\ OneWay(dbNodes)
      /\ Present \subseteq Keys
  BY DEF Sound, Control, Spelt, TypeOK, Stored, Present
<1>1. CASE Start(c)
  <2>1. Proceeded(c, Present) /\ call[c].at = "start" /\ dbNodes' = dbNodes /\ Present' = Present
    BY <1>1, <1>a, Proceeds DEF Start, db, graph, Present
  <2> QED BY <1>a, <2>1, ProceededSpelt, SpeltStep
<1>2. CASE LoadBegin(c) \/ LoadNodes(c) \/ LoadEdges(c)
  <2>1. PICK at \in Places \ Writing : Moved(c, at)
    BY <1>2, GoesOn DEF LoadBegin, LoadNodes, LoadEdges, Places, Writing
  <2>2. dbNodes' = dbNodes /\ Present' = Present /\ Others(c)
    BY <1>2, <2>1 DEF LoadBegin, LoadNodes, LoadEdges, db, graph, Present, Moved
  <2> QED BY <1>a, <2>1, <2>2, StaysSpelt, SpeltStep
<1>3. ASSUME call[c].at \in {"rows", "linked"}
      PROVE  /\ ~loaded /\ bare = {} /\ rows.nodes = dbNodes
             /\ (call[c].at = "linked" => nodes = dbNodes /\ rows.edges = dbEdges)
             /\ nodes = {} \/ nodes = dbNodes
             /\ \A d \in Clients \ {c} : call[d].at \notin Writing
  <2>1. loader = c /\ c # None
    BY <1>3, <1>a, GraphAssumption DEF Shape, Reading
  <2>2. ~loaded /\ bare = {} /\ rows.nodes = dbNodes /\ \A d \in Clients : call[d].at \notin Writing
    BY <1>3, <1>a, <2>1 DEF Loading, Effect, Reading, Writing
  <2>3. call[c].at = "linked" => nodes = dbNodes /\ rows.edges = dbEdges
    BY <1>a DEF Effect
  <2>4. \A d \in Clients \ {c} : call[d].at \notin Reading
    BY <2>1 DEF Control, Shape
  <2>5. call[c].at = "rows" => nodes = {}
    BY <1>a, <2>2, <2>4 DEF Loading, Reading
  <2> QED BY <1>3, <2>2, <2>3, <2>5
<1>4. CASE MergeNodes(c)
  <2>1. Moved(c, "links") /\ Others(c) /\ call[c].at = "rows"
    BY <1>4, GoesOn DEF MergeNodes, Moved, Places
  <2>2. Present' = dbNodes /\ dbNodes' = dbNodes
    BY <1>3, <1>4, <2>1 DEF MergeNodes, Present, db
  <2>3. "links" \in Places \ Writing
    BY DEF Places, Writing
  <2> QED BY <1>a, <1>3, <2>1, <2>2, <2>3, StaysSpelt, SpeltAlone
<1>5. CASE LoadEnd(c)
  <2> DEFINE found == {e \in rows.edges : Ends({e}) \subseteq rows.nodes}
  <2>1. call[c].at = "linked" /\ Proceed(c, Present \cup Ends(found), edges')
    BY <1>5 DEF LoadEnd
  <2>2. Ends(found) \subseteq nodes
    <3>1. rows.nodes = nodes
      BY <1>3, <2>1
    <3>2. \A e \in found : e[1] \in nodes /\ e[2] \in nodes
      BY <3>1 DEF Ends
    <3> QED BY <3>2 DEF Ends
  <2>3. Present \cup Ends(found) = Present
    BY <2>2 DEF Present
  <2>4. Present' = Present /\ dbNodes' = dbNodes
    BY <1>5, <2>2 DEF LoadEnd, Present, db
  <2>5. Proceeded(c, Present)
    BY <1>a, <2>1, <2>3, Proceeds
  <2> QED BY <1>a, <2>1, <2>4, <2>5, ProceededSpelt, SpeltStep
<1> QED BY <1>1, <1>2, <1>4, <1>5

\* A caller with the write lock writes the names it found.
LEMMA WriteSpelt ==
    ASSUME Control, Sound, Spelt, NEW c \in Clients, Granted(c) \/ Save(c) \/ Saved(c)
    PROVE  Spelt'
<1>a. Mirror /\ Shape(c) /\ OneWay(dbNodes) /\ SpelledCall(c) /\ None \notin Clients
  BY GraphAssumption DEF Sound, Control, Spelt
<1>1. CASE Granted(c)
  <2>1. Canonical(c, Present) /\ call[c].at = "lock" /\ dbNodes' = dbNodes /\ UNCHANGED graph
    BY <1>1, CanonicalNames DEF Granted, Control, TypeOK, Stored, Present, db
  <2>2. Present' = Present /\ Others(c)
    BY <2>1 DEF Present, graph, Canonical
  <2> QED BY <1>a, <2>1, <2>2, EntersSpelt, SpeltStep
<1>2. ASSUME call[c].at \in Writing
      PROVE  writer = c /\ \A d \in Clients \ {c} : call[d].at \notin Writing
  BY <1>2 DEF Control, Shape
<1>3. CASE Save(c)
  <2>1. /\ Moved(c, "saved") /\ Others(c) /\ call[c].at = "save"
        /\ dbNodes' = dbNodes \cup call[c].nodes /\ UNCHANGED <<nodes, bare>>
    BY <1>3, GoesOn DEF Save, Places, Moved, graph
  <2>2. Present' = Present
    BY <2>1 DEF Present
  <2>3. OneWay(Present \cup call[c].nodes \cup Ends(call[c].edges))
    BY <1>a, <2>1 DEF SpelledCall, Writing
  <2>4. dbNodes \subseteq Present
    <3>1. loaded
      BY <2>1, PastLoad DEF Reading
    <3>2. \A d \in Clients : call[d].at # "saved"
      BY <1>2, <2>1 DEF Writing
    <3> QED BY <1>a, <3>1, <3>2 DEF Mirror, Present
  <2>5. OneWay(dbNodes')
    BY <2>1, <2>3, <2>4, FewerKeys
  <2>6. SpelledCall(c)'
    BY <1>a, <2>1, <2>2, <2>3 DEF SpelledCall, Moved
  <2> QED BY <2>1, <2>2, <2>5, <2>6, SpeltStep
<1>4. CASE Saved(c)
  <2>1. /\ Ended(c) /\ Others(c) /\ call[c].at = "saved" /\ dbNodes' = dbNodes
        /\ nodes' = nodes \cup call[c].nodes
        /\ bare' = (bare \cup Ends(call[c].edges)) \ nodes'
    BY <1>4, Finishes DEF Saved, Ended, db
  <2>2. Present' = Present \cup call[c].nodes \cup Ends(call[c].edges)
    BY <2>1 DEF Present
  <2>3. OneWay(Present')
    BY <1>a, <2>1, <2>2 DEF SpelledCall, Writing
  <2> QED BY <1>a, <1>2, <2>1, <2>3, EndsSpelt, SpeltAlone DEF Writing
<1> QED BY <1>1, <1>3, <1>4

\* A removal leaves fewer names.
LEMMA RemoveSpelt ==
    ASSUME Control, Spelt, NEW c \in Clients, Cut(c) \/ DeleteNode(c) \/ Removed(c)
    PROVE  Spelt'
<1>1. Present' \subseteq Present /\ dbNodes' \subseteq dbNodes
  BY DEF Cut, DeleteNode, Removed, Present, db, graph
<1>2. "delete" \in Places \ Writing /\ "deleted" \in Places \ Writing
  BY DEF Places, Writing
<1>3. Moved(c, "delete") \/ Moved(c, "deleted") \/ Ended(c)
  BY GoesOn, Finishes DEF Cut, DeleteNode, Removed, Places
<1>4. OneWay(dbNodes')
  BY <1>1, FewerKeys DEF Spelt
<1> QED BY <1>1, <1>2, <1>3, <1>4, StaysSpelt, EndsSpelt, SpeltStep DEF Moved, Ended

\* One spelling per name is kept by every step.
LEMMA SpelledNext ==
    ASSUME Control, Calm, Spelled, [Next]_vars
    PROVE  Spelled'
<1> SUFFICES ASSUME ~raced', ~mixed'
             PROVE  Spelt'
  BY DEF Spelled
<1>1. CASE UNCHANGED vars
  <2>1. Spelt
    BY <1>1 DEF Spelled, vars, bound
  <2> QED BY <1>1, <2>1 DEF vars, db, graph, Spelt, SpelledCall, Present
<1>2. CASE Restart
  <2>1. call' = [c \in Clients |-> NoCall] /\ Present' = {} /\ dbNodes' = dbNodes
    BY <1>2 DEF Restart, Present, db
  <2>2. OneWay(dbNodes)
    BY <1>2 DEF Restart, Spelled, Spelt
  <2>3. \A c \in Clients : SpelledCall(c)'
    BY <2>1 DEF SpelledCall, NoCall, OneWay, Ends, Writing
  <2> QED BY <2>1, <2>2, <2>3 DEF Spelt, OneWay
<1>3. ASSUME NEW c \in Clients, Invoke(c) \/ Resume(c) \/ Fail(c)
      PROVE  Spelt'
  <2>1. ~Fail(c)
    BY DEF Fail, LoadFails, SaveFails, RemoveFails, Fault
  <2>2. CASE Invoke(c)
    <3>1. \A op, K, E : Submit(c, op, K, E) => ~raced /\ ~mixed
      BY DEF Submit
    <3>2. ~raced /\ ~mixed
      BY <2>2, <3>1 DEF Invoke, add_node, remove_node, add_edge, remove_edge, add_nodes_batch, add_edges_batch
    <3> QED BY <2>2, <3>2, InvokeSpelt DEF Spelled
  <2>3. CASE Resume(c)
    <3>1. raced' = raced /\ mixed' = mixed
      BY <2>3 DEF Resume, Start, LoadBegin, LoadNodes, MergeNodes, LoadEdges, LoadEnd,
                  Granted, Save, Saved, Cut, DeleteNode, Removed, bound
    <3> QED BY <2>3, <3>1, LoadSpelt, WriteSpelt, RemoveSpelt DEF Resume, Calm, Spelled
  <2> QED BY <1>3, <2>1, <2>2, <2>3
<1> QED BY <1>1, <1>2, <1>3 DEF Next

\* For any spellings and any number of callers adding a name at once: as long as no
\* removal ran beside another operation, no backend call failed and no batch of edges
\* itself wrote a name in two ways, no two keys of the graph differ by case alone. The
\* write lock is what makes it inductive: names are looked up after it is granted, and
\* only its holder adds keys.
THEOREM NamesHaveOneSpelling == Spec => []OneSpelling
<1>1. Init => Spelled
  BY DEF Init, Spelled, Spelt, SpelledCall, Present, OneWay, Ends, NoCall, Writing
<1>2. Control /\ Calm /\ Spelled /\ [Next]_vars => Spelled'
  BY SpelledNext
<1>3. Spelled => OneSpelling
  BY DEF Spelled, Spelt, OneSpelling, OneWay
<1> QED BY <1>1, <1>2, <1>3, IsCalm, PTL DEF Spec
=============================================================================
